------------------------ MODULE BackendRoutingProofs ------------------------
(***************************************************************************)
(* Proofs about BackendRouting, for any number of forwarders, groups,      *)
(* backends and callers, whatever the ids shared between owners and the    *)
(* names shared between forwarders, and whichever calls overlap.           *)
(***************************************************************************)
EXTENDS BackendRouting, TLAPS

USE OwnersAssumption, IdsAssumption, ModesAssumption, DrainsAssumption DEF histories

(* What a pending call refers to.                                          *)
LEMMA CallShape ==
  ASSUME NEW k \in PendingCalls
  PROVE  /\ k.op \in {"idle", "attach", "detach", "drop", "forget", "fclose",
                      "gstop", "gclose"}
         /\ k.op \in {"attach", "detach"} => k.f \in Forwarders /\ k.g \in Groups
         /\ k.op = "drop" => k.f \in Forwarders /\ k.b \in Backends
         /\ k.op = "forget" => k.g \in Groups /\ k.b \in Backends
         /\ k.op = "fclose" => k.f \in Forwarders /\ k.left \in SUBSET Groups
         /\ k.op \in {"gstop", "gclose"} =>
              k.g \in Groups /\ k.left \in SUBSET Forwarders /\ k.ids \in SUBSET Backends
  BY DEF PendingCalls, Idle

(* The records the calls are made of.                                      *)
LEMMA CallTypes ==
  /\ Idle \in PendingCalls
  /\ \A f \in Forwarders, g \in Groups, p \in {"attach", "detach"} :
       [op |-> p, f |-> f, g |-> g] \in PendingCalls
  /\ \A f \in Forwarders, b \in Backends :
       [op |-> "drop", f |-> f, b |-> b] \in PendingCalls
  /\ \A g \in Groups, b \in Backends :
       [op |-> "forget", g |-> g, b |-> b] \in PendingCalls
  /\ \A f \in Forwarders, l \in SUBSET Groups :
       [op |-> "fclose", f |-> f, left |-> l] \in PendingCalls
  /\ \A g \in Groups, l \in SUBSET Forwarders, i \in SUBSET Backends :
       [op |-> "gstop", g |-> g, left |-> l, ids |-> i] \in PendingCalls
  BY DEF PendingCalls

(* A Close that has dealt with one more group or updater, or has stopped   *)
(* the checker, is still a pending call.                                   *)
LEMMA CallProgress ==
  ASSUME NEW k \in PendingCalls
  PROVE  /\ \A x : k.op = "fclose" => [k EXCEPT !.left = k.left \ {x}] \in PendingCalls
         /\ \A x : k.op = "gclose" => [k EXCEPT !.left = k.left \ {x}] \in PendingCalls
         /\ k.op = "gstop" => [k EXCEPT !.op = "gclose"] \in PendingCalls
  <1>1. ASSUME NEW x, k.op = "fclose"
        PROVE  [k EXCEPT !.left = k.left \ {x}] \in PendingCalls
    <2>1. k \in [op : {"fclose"}, f : Forwarders, left : SUBSET Groups]
      BY <1>1 DEF PendingCalls, Idle
    <2>2. QED  BY <2>1 DEF PendingCalls
  <1>2. ASSUME NEW x, k.op = "gclose"
        PROVE  [k EXCEPT !.left = k.left \ {x}] \in PendingCalls
    <2>1. k \in [op : {"gstop", "gclose"}, g : Groups, left : SUBSET Forwarders,
                 ids : SUBSET Backends]
      BY <1>2 DEF PendingCalls, Idle
    <2>2. QED  BY <2>1 DEF PendingCalls
  <1>3. ASSUME k.op = "gstop"
        PROVE  [k EXCEPT !.op = "gclose"] \in PendingCalls
    <2>1. k \in [op : {"gstop", "gclose"}, g : Groups, left : SUBSET Forwarders,
                 ids : SUBSET Backends]
      BY <1>3 DEF PendingCalls, Idle
    <2>2. QED  BY <2>1 DEF PendingCalls
  <1>4. QED  BY <1>1, <1>2, <1>3

-----------------------------------------------------------------------------
(* Types *)

(* The types hold before the first call.                                   *)
LEMMA TypeInit == Init => TypeOK
  BY CallTypes DEF Init, TypeOK, Owners, Entries, Nowhere

(* What the provider's operations make of the endpoints.                   *)
LEMMA ProviderTypes ==
  ASSUME endpoints \in [Forwarders -> SUBSET Backends],
         NEW fs, NEW bs \in SUBSET Backends
  PROVE  /\ Added(fs, bs) \in [Forwarders -> SUBSET Backends]
         /\ Dropped(fs, bs) \in [Forwarders -> SUBSET Backends]
  BY DEF Added, Dropped

(* What a step may store in the maps of the owners.                        *)
LEMMA OwnerTypes ==
  ASSUME TypeOK, NEW o \in Owners, NEW b \in Backends
  PROVE  /\ \A m \in Entries : [reg EXCEPT ![o][b] = m] \in [Owners -> [Backends -> Entries]]
         /\ [reg EXCEPT ![o] = Nowhere] \in [Owners -> [Backends -> Entries]]
         /\ Watched(o, b) \in [Owners -> [Backends -> {"off", "sick", "well"}]]
         /\ TornBy(o, b) \in [Owners -> SUBSET Backends]
         /\ \A m : StaleBy(o, b, m) \in [Owners -> SUBSET Backends]
  BY DEF TypeOK, Watched, TornBy, StaleBy, Nowhere, Entries

(* What a call that joins or leaves makes of the pairs that crossed.       *)
LEMMA CrossedTypes ==
  ASSUME TypeOK, NEW f \in Forwarders, NEW gs \in SUBSET Groups
  PROVE  CrossedBy(f, gs) \subseteq Names \X Groups
  BY DEF TypeOK, CrossedBy, Names

(* Every call, continuation and report keeps the types and leaves a closed *)
(* owner's maps empty (forward.go, backend.go).                            *)
LEMMA TypeStep == TypeOK /\ [Next]_vars => TypeOK'
  <1> SUFFICES ASSUME TypeOK, [Next]_vars
               PROVE  TypeOK'
    OBVIOUS
  <1> USE DEF TypeOK
  <1>1. ASSUME NEW f \in Forwarders, NEW b \in Backends, NEW m \in Modes, ForwarderAddBackend(f, b, m)
        PROVE  TypeOK'
    <2>1. m \in Entries /\ f \in Owners /\ {b} \in SUBSET Backends
      BY DEF Entries, Owners
    <2>2. endpoints' \in [Forwarders -> SUBSET Backends]
      BY <1>1, <2>1, ProviderTypes DEF ForwarderAddBackend
    <2>3. /\ probe' \in [Owners -> [Backends -> {"off", "sick", "well"}]]
          /\ reg' \in [Owners -> [Backends -> Entries]]
          /\ torn' \in [Owners -> SUBSET Backends]
          /\ stale' \in [Owners -> SUBSET Backends]
      <3>1. /\ [reg EXCEPT ![f][b] = m] \in [Owners -> [Backends -> Entries]]
            /\ Watched(f, b) \in [Owners -> [Backends -> {"off", "sick", "well"}]]
            /\ TornBy(f, b) \in [Owners -> SUBSET Backends]
            /\ StaleBy(f, b, m) \in [Owners -> SUBSET Backends]
        BY <2>1, OwnerTypes, Zenon
      <3>2. QED  BY <1>1, <3>1 DEF ForwarderAddBackend
    <2>4. \A o \in closed : reg'[o] = Nowhere
      BY <1>1, <2>1 DEF ForwarderAddBackend
    <2>5. QED  BY <1>1, <2>2, <2>3, <2>4 DEF ForwarderAddBackend
  <1>2. ASSUME NEW c \in Callers, NEW f \in Forwarders, NEW g \in Groups, ForwarderJoinGroup(c, f, g)
        PROVE  TypeOK'
    <2>1. CrossedBy(f, {g}) \subseteq Names \X Groups
      BY CrossedTypes
    <2>2. QED  BY <1>2, <2>1, CallTypes DEF ForwarderJoinGroup, Begin
  <1>3. ASSUME NEW c \in Callers, NEW f \in Forwarders, NEW b \in Backends, ForwarderDelBackend(c, f, b)
        PROVE  TypeOK'
    BY <1>3, CallTypes DEF ForwarderDelBackend, Begin, Entries, Owners, Nowhere
  <1>4. ASSUME NEW c \in Callers, ForwarderDropEndpoint(c)
        PROVE  TypeOK'
    BY <1>4, CallTypes DEF ForwarderDropEndpoint, Return, Dropped
  <1>5. ASSUME NEW c \in Callers, NEW f \in Forwarders, NEW g \in Groups, ForwarderLeaveGroup(c, f, g)
        PROVE  TypeOK'
    <2>1. CrossedBy(f, {g}) \subseteq Names \X Groups
      BY CrossedTypes
    <2>2. QED  BY <1>5, <2>1, CallTypes DEF ForwarderLeaveGroup, Begin
  <1>6. ASSUME NEW c \in Callers, NEW f \in Forwarders, ForwarderClose(c, f)
        PROVE  TypeOK'
    <2>1. CrossedBy(f, joined[f]) \subseteq Names \X Groups
      BY CrossedTypes
    <2>2. QED  BY <1>6, <2>1, CallTypes DEF ForwarderClose, Begin, Owners, Nowhere, Entries
  <1>7. ASSUME NEW c \in Callers, ForwarderCloseEnd(c)
        PROVE  TypeOK'
    BY <1>7, CallTypes DEF ForwarderCloseEnd, Return
  <1>8. ASSUME NEW c \in Callers, GroupAddUpdater(c)
        PROVE  TypeOK'
    <2>1. call[c].f \in Forwarders /\ call[c].g \in Groups
      BY <1>8, CallShape DEF GroupAddUpdater
    <2>2. Handed(call[c].g) \in SUBSET Backends
      BY DEF Handed
    <2>3. endpoints' \in [Forwarders -> SUBSET Backends]
      BY <1>8, <2>2, ProviderTypes DEF GroupAddUpdater
    <2>4. /\ updaters' \in [Groups -> SUBSET Forwarders]
          /\ \A g \in Groups \cap closed : updaters'[g] = {}
      <3>1. CASE updaters' = updaters
        BY <3>1
      <3>2. CASE /\ call[c].g \notin closed
                 /\ updaters' = [updaters EXCEPT ![call[c].g] = @ \cup {call[c].f}]
        BY <2>1, <3>2
      <3>3. QED  BY <1>8, <3>1, <3>2 DEF GroupAddUpdater
    <2>5. QED  BY <1>8, <2>3, <2>4, CallTypes DEF GroupAddUpdater, Return
  <1>9. ASSUME NEW f \in Forwarders, NEW g \in Groups, RemoveUpdater(f, g)
        PROVE  /\ updaters' \in [Groups -> SUBSET Forwarders]
               /\ endpoints' \in [Forwarders -> SUBSET Backends]
               /\ \A h \in Groups \cap closed : updaters'[h] = {}
    BY <1>9 DEF RemoveUpdater, Dropped
  <1>10. ASSUME NEW c \in Callers, GroupDelUpdater(c)
        PROVE  TypeOK'
    <2>1. call[c].f \in Forwarders /\ call[c].g \in Groups
      BY <1>10, CallShape DEF GroupDelUpdater
    <2>2. QED  BY <1>9, <1>10, <2>1, CallTypes DEF GroupDelUpdater, Return
  <1>11. ASSUME NEW c \in Callers, ForwarderCloseGroup(c)
        PROVE  TypeOK'
    <2>1. PICK g \in call[c].left :
            /\ RemoveUpdater(call[c].f, g)
            /\ call' = [call EXCEPT ![c].left = @ \ {g}]
      BY <1>11 DEF ForwarderCloseGroup
    <2>2. call[c].f \in Forwarders /\ g \in Groups
      BY <1>11, CallShape DEF ForwarderCloseGroup
    <2>3. [call[c] EXCEPT !.left = call[c].left \ {g}] \in PendingCalls
      BY <1>11, CallProgress DEF ForwarderCloseGroup
    <2>5. call' \in [Callers -> PendingCalls]
      BY <2>1, <2>3
    <2>4. QED  BY <1>9, <1>11, <2>1, <2>2, <2>5 DEF ForwarderCloseGroup
  <1>12. ASSUME NEW g \in Groups, NEW b \in Backends, NEW m \in Modes, GroupAddBackend(g, b, m)
        PROVE  TypeOK'
    <2>1. m \in Entries /\ g \in Owners /\ {b} \in SUBSET Backends
      BY DEF Entries, Owners
    <2>2. endpoints' \in [Forwarders -> SUBSET Backends]
      BY <1>12, <2>1, ProviderTypes DEF GroupAddBackend
    <2>3. /\ probe' \in [Owners -> [Backends -> {"off", "sick", "well"}]]
          /\ reg' \in [Owners -> [Backends -> Entries]]
          /\ torn' \in [Owners -> SUBSET Backends]
          /\ stale' \in [Owners -> SUBSET Backends]
      <3>1. /\ [reg EXCEPT ![g][b] = m] \in [Owners -> [Backends -> Entries]]
            /\ Watched(g, b) \in [Owners -> [Backends -> {"off", "sick", "well"}]]
            /\ TornBy(g, b) \in [Owners -> SUBSET Backends]
            /\ StaleBy(g, b, m) \in [Owners -> SUBSET Backends]
        BY <2>1, OwnerTypes, Zenon
      <3>2. QED  BY <1>12, <3>1 DEF GroupAddBackend
    <2>4. \A o \in closed : reg'[o] = Nowhere
      BY <1>12, <2>1 DEF GroupAddBackend
    <2>5. QED  BY <1>12, <2>2, <2>3, <2>4 DEF GroupAddBackend
  <1>13. ASSUME NEW c \in Callers, NEW g \in Groups, NEW b \in Backends, GroupDelBackend(c, g, b)
        PROVE  TypeOK'
    BY <1>13, CallTypes DEF GroupDelBackend, Begin, Entries, Owners, Nowhere, Dropped
  <1>14. ASSUME NEW c \in Callers, GroupForget(c)
        PROVE  TypeOK'
    <2>1. call[c].g \in Groups /\ call[c].b \in Backends
      BY <1>14, CallShape DEF GroupForget
    <2>2. endpoints' \in [Forwarders -> SUBSET Backends]
      BY <1>14, <2>1, ProviderTypes DEF GroupForget
    <2>3. /\ probe' \in [Owners -> [Backends -> {"off", "sick", "well"}]]
          /\ notice' \in [Owners -> [Backends -> {"none", "up", "down"}]]
      <3>1. CASE probe[call[c].g][call[c].b] = "off"
        BY <1>14, <3>1 DEF GroupForget
      <3>2. CASE probe[call[c].g][call[c].b] # "off"
        <4>1. probe' = [probe EXCEPT ![call[c].g][call[c].b] = "off"]
          BY <1>14, <3>2 DEF GroupForget
        <4>2. \/ notice' = notice
              \/ notice' = [notice EXCEPT ![call[c].g][call[c].b] = "none"]
          BY <1>14, <3>2 DEF GroupForget
        <4>3. call[c].g \in Owners /\ call[c].b \in Backends
          BY <2>1 DEF Owners
        <4>4. probe' \in [Owners -> [Backends -> {"off", "sick", "well"}]]
          BY <4>1, <4>3
        <4>5. notice' \in [Owners -> [Backends -> {"none", "up", "down"}]]
          <5>1. [notice EXCEPT ![call[c].g][call[c].b] = "none"]
                  \in [Owners -> [Backends -> {"none", "up", "down"}]]
            BY <4>3
          <5>2. QED  BY <4>2, <5>1
        <4>6. QED  BY <4>4, <4>5
      <3>3. QED  BY <3>1, <3>2
    <2>4. QED  BY <1>14, <2>2, <2>3, CallTypes DEF GroupForget, Return
  <1>15. ASSUME NEW c \in Callers, NEW g \in Groups, GroupClose(c, g)
        PROVE  TypeOK'
    <2>1. /\ g \in Owners /\ updaters[g] \in SUBSET Forwarders
          /\ Registered(g) \in SUBSET Backends
      BY DEF Owners, Registered
    <2>2. call' \in [Callers -> PendingCalls]
      BY <1>15, <2>1, CallTypes DEF GroupClose, Begin
    <2>3. /\ reg' \in [Owners -> [Backends -> Entries]]
          /\ \A o \in closed' : reg'[o] = Nowhere
      BY <1>15, <2>1 DEF GroupClose, Nowhere, Entries
    <2>4. QED  BY <1>15, <2>1, <2>2, <2>3 DEF GroupClose, Owners
  <1>16. ASSUME NEW c \in Callers, GroupCloseStop(c)
        PROVE  TypeOK'
    BY <1>16, CallProgress DEF GroupCloseStop
  <1>17. ASSUME NEW c \in Callers, GroupCloseUpdater(c)
        PROVE  TypeOK'
    <2>1. PICK u \in call[c].left :
            /\ endpoints' = Dropped({u}, call[c].ids)
            /\ call' = [call EXCEPT ![c].left = @ \ {u}]
      BY <1>17 DEF GroupCloseUpdater
    <2>2. [call[c] EXCEPT !.left = call[c].left \ {u}] \in PendingCalls
      BY <1>17, CallProgress DEF GroupCloseUpdater
    <2>5. call' \in [Callers -> PendingCalls]
      BY <2>1, <2>2
    <2>3. endpoints' \in [Forwarders -> SUBSET Backends]
      BY <2>1 DEF Dropped
    <2>4. QED  BY <1>17, <2>5, <2>3 DEF GroupCloseUpdater
  <1>18. ASSUME NEW c \in Callers, GroupCloseEnd(c)
        PROVE  TypeOK'
    BY <1>18, CallTypes DEF GroupCloseEnd, Return
  <1>19. ASSUME NEW o \in Owners, NEW b \in Backends, CheckEndpoint(o, b)
        PROVE  TypeOK'
    BY <1>19 DEF CheckEndpoint
  <1>20. ASSUME NEW o \in Owners, NEW b \in Backends, ReportUp(o, b)
        PROVE  TypeOK'
    BY <1>20 DEF ReportUp, Added
  <1>21. ASSUME NEW o \in Owners, NEW b \in Backends, ReportDown(o, b)
        PROVE  TypeOK'
    BY <1>21 DEF ReportDown, Dropped
  <1>22. CASE UNCHANGED vars
    BY <1>22 DEF vars
  <1>23. QED
    BY <1>1, <1>2, <1>3, <1>4, <1>5, <1>6, <1>7, <1>8, <1>10, <1>11, <1>12, <1>13,
       <1>14, <1>15, <1>16, <1>17, <1>18, <1>19, <1>20, <1>21, <1>22
       DEF Next, Continue, Checker

(* The variables keep their types, and nothing is stored in the maps of an *)
(* owner after Close has set them to nil (forward.go and backend.go).      *)
THEOREM TypeCorrect == Spec => []TypeOK
  <1>1. QED  BY TypeInit, TypeStep, PTL DEF Spec

-----------------------------------------------------------------------------
(* The strengthening of UsableIsServed *)

(* Whatever an owner keeps, is told of, or is going to take out, is one of *)
(* the ids ever added to it.                                               *)
Home ==
  /\ \A o \in Owners, b \in Backends :
       reg[o][b] # "absent" \/ probe[o][b] # "off" \/ notice[o][b] # "none" => b \in Ids[o]
  /\ \A c \in Callers :
       /\ call[c].op = "drop" => call[c].b \in Ids[call[c].f]
       /\ call[c].op = "forget" => call[c].b \in Ids[call[c].g]
       /\ call[c].op \in {"gstop", "gclose"} =>
            call[c].g \in closed /\ call[c].ids \subseteq Ids[call[c].g]
       /\ call[c].op = "fclose" => call[c].f \in closed

(* The checker knows nothing of a plain backend, unless that is stale; it  *)
(* checks a checked one, and its report agrees with what it found; nobody  *)
(* is going to take either out.                                            *)
Clean(o, b) ==
  /\ \A c \in Callers : ~Removes(call[c], o, b)
  /\ reg[o][b] = "plain" /\ b \notin stale[o] => probe[o][b] = "off" /\ notice[o][b] = "none"
  /\ reg[o][b] = "checked" => probe[o][b] # "off"
  /\ notice[o][b] = "up" => probe[o][b] = "well"
  /\ notice[o][b] = "down" => probe[o][b] = "sick"

Settled ==
  \A o \in Owners : \A b \in Backends \ torn[o] : reg[o][b] # "absent" => Clean(o, b)

(* checker.DelEndpointByID of a group touches one backend of the group.    *)
LEMMA ForgetEffects ==
  ASSUME TypeOK, NEW c \in Callers, GroupForget(c)
  PROVE  /\ call[c].g \in Groups /\ call[c].b \in Backends
         /\ \A o \in Owners, b \in Backends :
              /\ probe'[o][b] \in {probe[o][b], "off"}
              /\ notice'[o][b] \in {notice[o][b], "none"}
         /\ \A o \in Owners, b \in Backends :
              \/ o = call[c].g /\ b = call[c].b
              \/ probe'[o][b] = probe[o][b] /\ notice'[o][b] = notice[o][b]
         /\ \/ endpoints' = endpoints
            \/ endpoints' = Dropped(updaters[call[c].g], {call[c].b})
  <1> DEFINE g == call[c].g
             b == call[c].b
  <1>1. g \in Groups /\ b \in Backends /\ g \in Owners
    BY CallShape DEF GroupForget, Owners, TypeOK
  <1>2. CASE probe[g][b] = "off"
    BY <1>1, <1>2 DEF GroupForget
  <1>3. CASE probe[g][b] # "off"
    <2>1. probe' = [probe EXCEPT ![g][b] = "off"]
      BY <1>3 DEF GroupForget
    <2>2. CASE Drains
      <3>1. notice' = [notice EXCEPT ![g][b] = "none"]
        BY <1>3, <2>2 DEF GroupForget
      <3>2. endpoints' = Dropped(updaters[g], {b})
        BY <1>3 DEF GroupForget
      <3>3. QED  BY <1>1, <2>1, <3>1, <3>2 DEF TypeOK
    <2>3. CASE ~Drains
      <3>1. notice' = notice /\ endpoints' = Dropped(updaters[g], {b})
        BY <1>3, <2>3 DEF GroupForget
      <3>2. QED  BY <1>1, <2>1, <3>1 DEF TypeOK
    <2>4. QED  BY <2>2, <2>3
  <1>4. QED  BY <1>2, <1>3

(* Nothing is kept or told before the first call.                          *)
LEMMA HomeInit == Init => Home
  BY CallShape DEF Init, Home, Nowhere, Idle, Owners

(* A backend stays with the owners it was added to: calls and reports      *)
(* carry no other id (forward.go 170-253, backend.go 181-225, 261-308).    *)
LEMMA HomeStep == TypeOK /\ Home /\ [Next]_vars => Home'
  <1> SUFFICES ASSUME TypeOK, Home, [Next]_vars
               PROVE  Home'
    OBVIOUS
  <1> USE DEF TypeOK, Home
  <1>1. ASSUME NEW f \in Forwarders, NEW b \in Backends, NEW m \in Modes, ForwarderAddBackend(f, b, m)
        PROVE  Home'
    BY <1>1, CallShape DEF ForwarderAddBackend, Watched, Owners, Idle
  <1>2. ASSUME NEW c \in Callers, NEW f \in Forwarders, NEW g \in Groups, ForwarderJoinGroup(c, f, g)
        PROVE  Home'
    BY <1>2, CallShape DEF ForwarderJoinGroup, Begin, Idle
  <1>3. ASSUME NEW c \in Callers, NEW f \in Forwarders, NEW b \in Backends, ForwarderDelBackend(c, f, b)
        PROVE  Home'
    BY <1>3, CallShape DEF ForwarderDelBackend, Begin, Nowhere, Registered, Owners, Idle
  <1>4. ASSUME NEW c \in Callers, ForwarderDropEndpoint(c)
        PROVE  Home'
    BY <1>4, CallShape DEF ForwarderDropEndpoint, Return, Idle
  <1>5. ASSUME NEW c \in Callers, NEW f \in Forwarders, NEW g \in Groups, ForwarderLeaveGroup(c, f, g)
        PROVE  Home'
    BY <1>5, CallShape DEF ForwarderLeaveGroup, Begin, Idle
  <1>6. ASSUME NEW c \in Callers, NEW f \in Forwarders, ForwarderClose(c, f)
        PROVE  Home'
    BY <1>6, CallShape DEF ForwarderClose, Begin, Nowhere, Registered, Owners, Idle
  <1>7. ASSUME NEW c \in Callers, ForwarderCloseEnd(c)
        PROVE  Home'
    BY <1>7, CallShape DEF ForwarderCloseEnd, Return, Idle
  <1>8. ASSUME NEW c \in Callers, GroupAddUpdater(c)
        PROVE  Home'
    BY <1>8, CallShape DEF GroupAddUpdater, Return, Idle
  <1>9. ASSUME NEW c \in Callers, GroupDelUpdater(c)
        PROVE  Home'
    BY <1>9, CallShape DEF GroupDelUpdater, Return, Idle
  <1>10. ASSUME NEW c \in Callers, ForwarderCloseGroup(c)
        PROVE  Home'
    BY <1>10, CallShape DEF ForwarderCloseGroup, Return, Idle
  <1>11. ASSUME NEW g \in Groups, NEW b \in Backends, NEW m \in Modes, GroupAddBackend(g, b, m)
        PROVE  Home'
    BY <1>11, CallShape DEF GroupAddBackend, Watched, Owners, Idle
  <1>12. ASSUME NEW c \in Callers, NEW g \in Groups, NEW b \in Backends, GroupDelBackend(c, g, b)
        PROVE  Home'
    BY <1>12, CallShape DEF GroupDelBackend, Begin, Nowhere, Registered, Owners, Idle
  <1>13. ASSUME NEW c \in Callers, GroupForget(c)
        PROVE  Home'
    <2>2. \A o \in Owners, b \in Backends :
            /\ probe'[o][b] \in {probe[o][b], "off"}
            /\ notice'[o][b] \in {notice[o][b], "none"}
      BY <1>13, ForgetEffects
    <2>3. QED  BY <1>13, <2>2 DEF GroupForget, Return, Idle
  <1>14. ASSUME NEW c \in Callers, NEW g \in Groups, GroupClose(c, g)
        PROVE  Home'
    BY <1>14, CallShape DEF GroupClose, Begin, Nowhere, Registered, Owners, Idle
  <1>15. ASSUME NEW c \in Callers, GroupCloseStop(c)
        PROVE  Home'
    BY <1>15, CallShape DEF GroupCloseStop, Return, Idle
  <1>16. ASSUME NEW c \in Callers, GroupCloseUpdater(c)
        PROVE  Home'
    BY <1>16, CallShape DEF GroupCloseUpdater, Return, Idle
  <1>17. ASSUME NEW c \in Callers, GroupCloseEnd(c)
        PROVE  Home'
    BY <1>17, CallShape DEF GroupCloseEnd, Return, Idle
  <1>18. ASSUME NEW o \in Owners, NEW b \in Backends, CheckEndpoint(o, b)
        PROVE  Home'
    BY <1>18, CallShape DEF CheckEndpoint, Idle
  <1>19. ASSUME NEW o \in Owners, NEW b \in Backends, ReportUp(o, b)
        PROVE  Home'
    BY <1>19, CallShape DEF ReportUp, Idle
  <1>20. ASSUME NEW o \in Owners, NEW b \in Backends, ReportDown(o, b)
        PROVE  Home'
    BY <1>20, CallShape DEF ReportDown, Idle
  <1>21. CASE UNCHANGED vars
    BY <1>21 DEF vars
  <1>22. QED
    BY <1>1, <1>2, <1>3, <1>4, <1>5, <1>6, <1>7, <1>8, <1>9, <1>10, <1>11,
       <1>12, <1>13, <1>14, <1>15, <1>16, <1>17, <1>18, <1>19, <1>20, <1>21
       DEF Next, Continue, Checker

(* Nothing is registered before the first call.                            *)
LEMMA SettledInit == Init => Settled
  BY DEF Init, Settled, Nowhere, Owners

(* The second step of a group's DelBackendByID takes out what is not       *)
(* registered any more, or was torn.                                       *)
LEMMA SettledForget ==
  ASSUME TypeOK, Settled, NEW c \in Callers, GroupForget(c)
  PROVE  Settled'
  <1>1. UNCHANGED <<reg, torn, stale>> /\ call' = [call EXCEPT ![c] = Idle]
    BY DEF GroupForget, Return
  <1>2. \A d \in Callers : call'[d] = call[d] \/ call'[d] = Idle
    BY <1>1 DEF TypeOK
  <1>3. Removes(call[c], call[c].g, call[c].b)
    BY DEF GroupForget, Removes
  <1>4. \A o \in Owners, b \in Backends :
          \/ o = call[c].g /\ b = call[c].b
          \/ probe'[o][b] = probe[o][b] /\ notice'[o][b] = notice[o][b]
    BY ForgetEffects
  <1>5. \A o, b : ~Removes(Idle, o, b)
    BY DEF Removes, Idle
  <1>6. ASSUME NEW o \in Owners, NEW b \in Backends \ torn[o], reg[o][b] # "absent"
        PROVE  Clean(o, b)'
    <2>1. Clean(o, b)
      BY <1>6 DEF Settled
    <2>2. probe'[o][b] = probe[o][b] /\ notice'[o][b] = notice[o][b]
      BY <1>3, <1>4, <2>1 DEF Clean
    <2>3. \A d \in Callers : ~Removes(call[d], o, b)
      BY <2>1 DEF Clean
    <2>4. \A d \in Callers : ~Removes(call'[d], o, b)
      BY <1>2, <1>5, <2>3
    <2>5. (\A d \in Callers : ~Removes(call[d], o, b))'
      BY <2>4 DEF Removes
    <2>6. QED  BY <1>1, <2>1, <2>2, <2>5 DEF Clean
  <1>7. QED  BY <1>1, <1>6 DEF Settled

(* A registered backend that was not torn stays out of the way of the      *)
(* calls that delete, and its checker and its report agree (backend.go     *)
(* 160-226, 294-308).                                                      *)
LEMMA SettledStep == TypeOK /\ Home /\ Settled /\ [Next]_vars => Settled'
  <1> SUFFICES ASSUME TypeOK, Home, Settled, [Next]_vars
               PROVE  Settled'
    OBVIOUS
  <1> USE DEF TypeOK, Settled, Clean, Removes
  <1>1. ASSUME NEW f \in Forwarders, NEW b \in Backends, NEW m \in Modes, ForwarderAddBackend(f, b, m)
        PROVE  Settled'
    BY <1>1, CallShape DEF ForwarderAddBackend, Watched, Owners, TornBy, StaleBy, Remembered,
      Reusing, Idle
  <1>2. ASSUME NEW c \in Callers, NEW f \in Forwarders, NEW g \in Groups, ForwarderJoinGroup(c, f, g)
        PROVE  Settled'
    BY <1>2, CallShape DEF ForwarderJoinGroup, Begin, Idle
  <1>3. ASSUME NEW c \in Callers, NEW f \in Forwarders, NEW b \in Backends, ForwarderDelBackend(c, f, b)
        PROVE  Settled'
    BY <1>3, CallShape DEF ForwarderDelBackend, Begin, Nowhere, Registered, Owners, Idle
  <1>4. ASSUME NEW c \in Callers, ForwarderDropEndpoint(c)
        PROVE  Settled'
    BY <1>4, CallShape DEF ForwarderDropEndpoint, Return, Idle
  <1>5. ASSUME NEW c \in Callers, NEW f \in Forwarders, NEW g \in Groups, ForwarderLeaveGroup(c, f, g)
        PROVE  Settled'
    BY <1>5, CallShape DEF ForwarderLeaveGroup, Begin, Idle
  <1>6. ASSUME NEW c \in Callers, NEW f \in Forwarders, ForwarderClose(c, f)
        PROVE  Settled'
    BY <1>6, CallShape DEF ForwarderClose, Begin, Nowhere, Registered, Owners, Idle
  <1>7. ASSUME NEW c \in Callers, ForwarderCloseEnd(c)
        PROVE  Settled'
    BY <1>7, CallShape DEF ForwarderCloseEnd, Return, Home, Nowhere, Idle
  <1>8. ASSUME NEW c \in Callers, GroupAddUpdater(c)
        PROVE  Settled'
    BY <1>8, CallShape DEF GroupAddUpdater, Return, Idle
  <1>9. ASSUME NEW c \in Callers, GroupDelUpdater(c)
        PROVE  Settled'
    BY <1>9, CallShape DEF GroupDelUpdater, Return, Idle
  <1>10. ASSUME NEW c \in Callers, ForwarderCloseGroup(c)
        PROVE  Settled'
    BY <1>10, CallShape DEF ForwarderCloseGroup, Return, Idle
  <1>11. ASSUME NEW g \in Groups, NEW b \in Backends, NEW m \in Modes, GroupAddBackend(g, b, m)
        PROVE  Settled'
    BY <1>11, CallShape DEF GroupAddBackend, Watched, Owners, TornBy, StaleBy, Remembered,
      Reusing, Idle
  <1>12. ASSUME NEW c \in Callers, NEW g \in Groups, NEW b \in Backends, GroupDelBackend(c, g, b)
        PROVE  Settled'
    BY <1>12, CallShape DEF GroupDelBackend, Begin, Nowhere, Registered, Owners, Idle
  <1>13. ASSUME NEW c \in Callers, GroupForget(c)
        PROVE  Settled'
    BY <1>13, SettledForget
  <1>14. ASSUME NEW c \in Callers, NEW g \in Groups, GroupClose(c, g)
        PROVE  Settled'
    BY <1>14, CallShape DEF GroupClose, Begin, Nowhere, Registered, Owners, Idle
  <1>15. ASSUME NEW c \in Callers, GroupCloseStop(c)
        PROVE  Settled'
    BY <1>15, CallShape DEF GroupCloseStop, Return, Home, Nowhere, Idle
  <1>16. ASSUME NEW c \in Callers, GroupCloseUpdater(c)
        PROVE  Settled'
    BY <1>16, CallShape DEF GroupCloseUpdater, Return, Idle
  <1>17. ASSUME NEW c \in Callers, GroupCloseEnd(c)
        PROVE  Settled'
    BY <1>17, CallShape DEF GroupCloseEnd, Return, Idle
  <1>18. ASSUME NEW o \in Owners, NEW b \in Backends, CheckEndpoint(o, b)
        PROVE  Settled'
    BY <1>18, CallShape DEF CheckEndpoint, Idle
  <1>19. ASSUME NEW o \in Owners, NEW b \in Backends, ReportUp(o, b)
        PROVE  Settled'
    BY <1>19, CallShape DEF ReportUp, Idle
  <1>20. ASSUME NEW o \in Owners, NEW b \in Backends, ReportDown(o, b)
        PROVE  Settled'
    BY <1>20, CallShape DEF ReportDown, Idle
  <1>21. CASE UNCHANGED vars
    BY <1>21 DEF vars
  <1>22. QED
    BY <1>1, <1>2, <1>3, <1>4, <1>5, <1>6, <1>7, <1>8, <1>9, <1>10, <1>11,
       <1>12, <1>13, <1>14, <1>15, <1>16, <1>17, <1>18, <1>19, <1>20, <1>21
       DEF Next, Continue, Checker

(* No backend is usable before the first call.                             *)
LEMMA ServedInit == Init => UsableIsServed
  BY DEF Init, UsableIsServed, Usable, Nowhere, Owners

(* ... and so it takes no usable backend out of the endpoints.             *)
LEMMA ServedForget ==
  ASSUME TypeOK, Home, Settled, UsableIsServed, NEW c \in Callers, GroupForget(c)
  PROVE  UsableIsServed'
  <1> DEFINE g == call[c].g
             b == call[c].b
  <1>1. g \in Groups /\ b \in Backends /\ g \in Owners
    BY ForgetEffects DEF Owners
  <1>2. /\ UNCHANGED <<reg, torn, stale, updaters>>
        /\ \A o \in Owners, a \in Backends :
             Usable(o, a)' => Usable(o, a) \/ (o = g /\ a = b)
    <2>1. \A o \in Owners, a \in Backends :
            \/ o = g /\ a = b
            \/ probe'[o][a] = probe[o][a] /\ notice'[o][a] = notice[o][a]
      BY ForgetEffects
    <2>2. reg' = reg /\ torn' = torn /\ stale' = stale /\ updaters' = updaters
      BY DEF GroupForget
    <2>3. ASSUME NEW o \in Owners, NEW a \in Backends, Usable(o, a)', ~(o = g /\ a = b)
          PROVE  Usable(o, a)
      <3>1. probe'[o][a] = probe[o][a] /\ notice'[o][a] = notice[o][a]
        BY <2>1, <2>3
      <3>2. QED  BY <2>2, <2>3, <3>1 DEF Usable
    <2>4. QED  BY <2>2, <2>3
  <1>3. b \in torn[g] \/ reg[g][b] = "absent"
    BY <1>1 DEF GroupForget, Settled, Clean, Removes
  <1>4. b \in Ids[g]
    BY DEF GroupForget, Home
  <1>5. ASSUME NEW o \in Owners, NEW a \in Backends \ (torn[o] \cup stale[o]), NEW f \in Targets(o),
               Exclusive(o, a), Usable(o, a)'
        PROVE  a \in endpoints'[f]
    <2>1. Usable(o, a)
      BY <1>2, <1>3, <1>5 DEF Usable
    <2>2. a \in endpoints[f] /\ f \in Forwarders
      BY <1>5, <2>1 DEF UsableIsServed, TypeOK, Targets, Owners
    <2>3. CASE endpoints' = endpoints
      BY <2>2, <2>3
    <2>4. CASE endpoints' = Dropped(updaters[g], {b})
      <3>1. a # b
        <4>1. CASE o = g
          BY <1>3, <1>5, <2>1, <4>1 DEF Usable
        <4>2. CASE o # g
          BY <1>1, <1>4, <1>5, <4>2 DEF Exclusive
        <4>3. QED  BY <4>1, <4>2
      <3>2. QED  BY <2>2, <2>4, <3>1 DEF Dropped
    <2>5. QED  BY <2>3, <2>4, ForgetEffects
  <1>6. QED  BY <1>2, <1>5 DEF UsableIsServed, Targets

(* No step takes a usable backend out of the endpoints or makes one usable *)
(* without handing it over (backend.go 160-308, forward.go 74-90,          *)
(* 170-253).                                                               *)
LEMMA ServedStep == TypeOK /\ Home /\ Settled /\ UsableIsServed /\ [Next]_vars => UsableIsServed'
  <1> SUFFICES ASSUME TypeOK, Home, Settled, UsableIsServed, [Next]_vars
               PROVE  UsableIsServed'
    OBVIOUS
  <1> USE DEF TypeOK, UsableIsServed, Usable, Targets
  <1>1. ASSUME NEW f \in Forwarders, NEW b \in Backends, NEW m \in Modes, ForwarderAddBackend(f, b, m)
        PROVE  UsableIsServed'
    <2> SUFFICES ASSUME NEW p \in Owners, NEW a \in Backends \ (torn'[p] \cup stale'[p]),
                        NEW v \in Targets(p),
                        Exclusive(p, a), Usable(p, a)'
                 PROVE  a \in endpoints'[v]
      BY <1>1 DEF ForwarderAddBackend
    <2>1. v \in Forwarders /\ endpoints[v] \subseteq endpoints'[v]
      <3>1. v \in Forwarders
        BY DEF Owners
      <3>2. \/ endpoints' = endpoints
            \/ \E fs : endpoints' = Added(fs, {b})
        BY <1>1 DEF ForwarderAddBackend
      <3>3. \A fs, bs : endpoints[v] \subseteq Added(fs, bs)[v]
        BY <3>1 DEF Added
      <3>4. QED  BY <3>1, <3>2, <3>3
    <2>2. CASE p = f /\ a = b
      <3>1. f \in Owners /\ reg[f][b] = "absent"
        BY <1>1 DEF ForwarderAddBackend, Owners
      <3>2. f \notin closed /\ reg'[f][b] = m
        BY <1>1, <2>2, <3>1 DEF ForwarderAddBackend
      <3>3. CASE m = "plain"
        BY <1>1, <2>2, <3>3 DEF ForwarderAddBackend, Added, Owners
      <3>4. CASE m # "plain"
        <4>1. probe'[f][b] = "well"
          BY <2>2, <3>2, <3>4
        <4>2. ~Remembered(f, b, m)
          BY <1>1, <2>2, <3>1 DEF ForwarderAddBackend, StaleBy
        <4>3. probe[f][b] # "well"
          BY <4>2 DEF Remembered
        <4>4. probe'[f][b] # "well"
          BY <1>1, <3>1, <3>4, <4>3 DEF ForwarderAddBackend, Watched
        <4>5. QED  BY <4>1, <4>4
      <3>5. QED  BY <3>3, <3>4
    <2>3. CASE p # f \/ a # b
      <3>1. /\ reg'[p][a] = reg[p][a]
            /\ probe'[p][a] = probe[p][a]
            /\ notice'[p][a] = notice[p][a]
            /\ a \notin torn[p] \cup stale[p]
        BY <1>1, <2>3 DEF ForwarderAddBackend, Watched, TornBy, StaleBy, Owners
      <3>2. QED  BY <2>1, <3>1
    <2>4. QED  BY <2>2, <2>3
  <1>2. ASSUME NEW c \in Callers, NEW f \in Forwarders, NEW g \in Groups, ForwarderJoinGroup(c, f, g)
        PROVE  UsableIsServed'
    BY <1>2 DEF ForwarderJoinGroup
  <1>3. ASSUME NEW c \in Callers, NEW f \in Forwarders, NEW b \in Backends, ForwarderDelBackend(c, f, b)
        PROVE  UsableIsServed'
    BY <1>3, CallShape DEF ForwarderDelBackend, Nowhere, Owners
  <1>4. ASSUME NEW c \in Callers, ForwarderDropEndpoint(c)
        PROVE  UsableIsServed'
    BY <1>4, CallShape DEF ForwarderDropEndpoint, Dropped, Home, Exclusive, Owners, Settled, Clean, Removes
  <1>5. ASSUME NEW c \in Callers, NEW f \in Forwarders, NEW g \in Groups, ForwarderLeaveGroup(c, f, g)
        PROVE  UsableIsServed'
    BY <1>5 DEF ForwarderLeaveGroup
  <1>6. ASSUME NEW c \in Callers, NEW f \in Forwarders, ForwarderClose(c, f)
        PROVE  UsableIsServed'
    BY <1>6, CallShape DEF ForwarderClose, Nowhere, Owners
  <1>7. ASSUME NEW c \in Callers, ForwarderCloseEnd(c)
        PROVE  UsableIsServed'
    BY <1>7, CallShape DEF ForwarderCloseEnd, Home, Nowhere
  <1>8. ASSUME NEW c \in Callers, GroupAddUpdater(c)
        PROVE  UsableIsServed'
    <2>1. call[c].f \in Forwarders /\ call[c].g \in Groups
      BY <1>8, CallShape DEF GroupAddUpdater
    <2>2. CASE UNCHANGED <<updaters, endpoints>>
      BY <1>8, <2>2 DEF GroupAddUpdater
    <2>3. CASE /\ updaters' = [updaters EXCEPT ![call[c].g] = @ \cup {call[c].f}]
               /\ endpoints' = Added({call[c].f}, Handed(call[c].g))
      <3>1. \A b \in Backends : Usable(call[c].g, b) => b \in Handed(call[c].g)
        BY DEF Handed
      <3>2. \A f \in Forwarders : endpoints[f] \subseteq endpoints'[f]
        BY <2>3 DEF Added
      <3>3. Handed(call[c].g) \subseteq endpoints'[call[c].f]
        BY <2>1, <2>3 DEF Added
      <3>4. UNCHANGED <<reg, probe, notice, torn, stale>>
        BY <1>8 DEF GroupAddUpdater
      <3>5. \A o \in Owners : \A v \in Targets(o)' :
              v \in Targets(o) \/ (o = call[c].g /\ v = call[c].f)
        <4>1. \A g \in Groups :
                /\ updaters'[g] \subseteq updaters[g] \cup {call[c].f}
                /\ g # call[c].g => updaters'[g] = updaters[g]
          BY <2>3
        <4>2. QED  BY <4>1
      <3>6. ASSUME NEW o \in Owners, NEW b \in Backends \ (torn[o] \cup stale[o]),
                   NEW v \in Targets(o)', Exclusive(o, b), Usable(o, b)
            PROVE  b \in endpoints'[v]
        <4>1. CASE v \in Targets(o)
          <5>1. v \in Forwarders /\ b \in endpoints[v]
            BY <3>6, <4>1 DEF Owners
          <5>2. QED  BY <3>2, <5>1
        <4>2. CASE o = call[c].g /\ v = call[c].f
          BY <3>1, <3>3, <3>6, <4>2
        <4>3. QED  BY <3>5, <3>6, <4>1, <4>2
      <3>7. QED  BY <3>4, <3>6
    <2>4. QED  BY <1>8, <2>2, <2>3 DEF GroupAddUpdater
  <1>9. ASSUME NEW c \in Callers, GroupDelUpdater(c)
        PROVE  UsableIsServed'
    BY <1>9, CallShape DEF GroupDelUpdater, Dropped, Home, Exclusive, Owners, RemoveUpdater, Registered
  <1>10. ASSUME NEW c \in Callers, ForwarderCloseGroup(c)
        PROVE  UsableIsServed'
    BY <1>10, CallShape DEF ForwarderCloseGroup, Dropped, Home, Exclusive, Owners, RemoveUpdater, Registered
  <1>11. ASSUME NEW g \in Groups, NEW b \in Backends, NEW m \in Modes, GroupAddBackend(g, b, m)
        PROVE  UsableIsServed'
    <2> SUFFICES ASSUME NEW p \in Owners, NEW a \in Backends \ (torn'[p] \cup stale'[p]),
                        NEW v \in Targets(p),
                        Exclusive(p, a), Usable(p, a)'
                 PROVE  a \in endpoints'[v]
      BY <1>11 DEF GroupAddBackend
    <2>1. v \in Forwarders /\ endpoints[v] \subseteq endpoints'[v]
      <3>1. v \in Forwarders
        BY DEF Owners
      <3>2. \/ endpoints' = endpoints
            \/ \E fs : endpoints' = Added(fs, {b})
        BY <1>11 DEF GroupAddBackend
      <3>3. \A fs, bs : endpoints[v] \subseteq Added(fs, bs)[v]
        BY <3>1 DEF Added
      <3>4. QED  BY <3>1, <3>2, <3>3
    <2>2. CASE p = g /\ a = b
      <3>1. g \in Owners /\ reg[g][b] = "absent"
        BY <1>11 DEF GroupAddBackend, Owners
      <3>2. g \notin closed /\ reg'[g][b] = m
        BY <1>11, <2>2, <3>1 DEF GroupAddBackend
      <3>3. CASE m = "plain"
        BY <1>11, <2>2, <3>3 DEF GroupAddBackend, Added, Owners
      <3>4. CASE m # "plain"
        <4>1. probe'[g][b] = "well"
          BY <2>2, <3>2, <3>4
        <4>2. ~Remembered(g, b, m)
          BY <1>11, <2>2, <3>1 DEF GroupAddBackend, StaleBy
        <4>3. probe[g][b] # "well"
          BY <4>2 DEF Remembered
        <4>4. probe'[g][b] # "well"
          BY <1>11, <3>1, <3>4, <4>3 DEF GroupAddBackend, Watched
        <4>5. QED  BY <4>1, <4>4
      <3>5. QED  BY <3>3, <3>4
    <2>3. CASE p # g \/ a # b
      <3>1. /\ reg'[p][a] = reg[p][a]
            /\ probe'[p][a] = probe[p][a]
            /\ notice'[p][a] = notice[p][a]
            /\ a \notin torn[p] \cup stale[p]
        BY <1>11, <2>3 DEF GroupAddBackend, Watched, TornBy, StaleBy, Owners
      <3>2. QED  BY <2>1, <3>1
    <2>4. QED  BY <2>2, <2>3
  <1>12. ASSUME NEW c \in Callers, NEW g \in Groups, NEW b \in Backends, GroupDelBackend(c, g, b)
        PROVE  UsableIsServed'
    BY <1>12, CallShape DEF GroupDelBackend, Nowhere, Owners, Dropped, Home, Exclusive
  <1>13. ASSUME NEW c \in Callers, GroupForget(c)
        PROVE  UsableIsServed'
    BY <1>13, ServedForget
  <1>14. ASSUME NEW c \in Callers, NEW g \in Groups, GroupClose(c, g)
        PROVE  UsableIsServed'
    BY <1>14, CallShape DEF GroupClose, Nowhere, Owners
  <1>15. ASSUME NEW c \in Callers, GroupCloseStop(c)
        PROVE  UsableIsServed'
    BY <1>15, CallShape DEF GroupCloseStop, Home, Nowhere
  <1>16. ASSUME NEW c \in Callers, GroupCloseUpdater(c)
        PROVE  UsableIsServed'
    BY <1>16, CallShape DEF GroupCloseUpdater, Dropped, Home, Exclusive, Owners
  <1>17. ASSUME NEW c \in Callers, GroupCloseEnd(c)
        PROVE  UsableIsServed'
    BY <1>17 DEF GroupCloseEnd
  <1>18. ASSUME NEW o \in Owners, NEW b \in Backends, CheckEndpoint(o, b)
        PROVE  UsableIsServed'
    BY <1>18, CallShape DEF CheckEndpoint
  <1>19. ASSUME NEW o \in Owners, NEW b \in Backends, ReportUp(o, b)
        PROVE  UsableIsServed'
    <2>0. UNCHANGED <<updaters, torn, stale>>
      BY <1>19 DEF ReportUp
    <2> SUFFICES ASSUME NEW p \in Owners, NEW a \in Backends \ (torn[p] \cup stale[p]),
                        NEW v \in Targets(p), Exclusive(p, a), Usable(p, a)'
                 PROVE  a \in endpoints'[v]
      BY <2>0
    <2>1. v \in Forwarders /\ endpoints[v] \subseteq endpoints'[v]
      BY <1>19 DEF ReportUp, Added, Owners
    <2>2. CASE p = o /\ a = b
      BY <1>19, <2>1, <2>2 DEF ReportUp, Added
    <2>3. CASE p # o \/ a # b
      <3>1. notice'[p][a] = notice[p][a] /\ UNCHANGED <<reg, probe>>
        BY <1>19, <2>3 DEF ReportUp
      <3>2. QED  BY <2>1, <3>1
    <2>4. QED  BY <2>2, <2>3
  <1>20. ASSUME NEW o \in Owners, NEW b \in Backends, ReportDown(o, b)
        PROVE  UsableIsServed'
    BY <1>20, CallShape DEF ReportDown, Dropped, Home, Exclusive, Owners, Settled, Clean, Removes
  <1>21. CASE UNCHANGED vars
    BY <1>21 DEF vars
  <1>22. QED
    BY <1>1, <1>2, <1>3, <1>4, <1>5, <1>6, <1>7, <1>8, <1>9, <1>10, <1>11,
       <1>12, <1>13, <1>14, <1>15, <1>16, <1>17, <1>18, <1>19, <1>20, <1>21
       DEF Next, Continue, Checker

(* A usable backend is lost by no step of any interleaving (AddUpdater,    *)
(* addEndpoint, delEndpoint, AddBackendWithChecker, DelBackendByID), save  *)
(* one registered while an earlier registration was being undone (torn),   *)
(* or one that the checker had kept, as it was, through a deletion, until  *)
(* it finds a change (stale).                                              *)
THEOREM UsableServed == Spec => []UsableIsServed
  <1>1. Init => TypeOK /\ Home /\ Settled /\ UsableIsServed
    BY TypeInit, HomeInit, SettledInit, ServedInit
  <1>2. TypeOK /\ Home /\ Settled /\ UsableIsServed /\ [Next]_vars
          => (TypeOK /\ Home /\ Settled /\ UsableIsServed)'
    BY TypeStep, HomeStep, SettledStep, ServedStep
  <1>3. QED  BY <1>1, <1>2, PTL DEF Spec

(* A backend registered with a checker is checked, unless it was torn      *)
(* (AddBackendWithChecker, DelBackendByID, Close of forwarder and group).  *)
THEOREM CheckedWatched == Spec => []CheckedIsWatched
  <1>1. Init => TypeOK /\ Home /\ Settled
    BY TypeInit, HomeInit, SettledInit
  <1>2. TypeOK /\ Home /\ Settled /\ [Next]_vars => (TypeOK /\ Home /\ Settled)'
    BY TypeStep, HomeStep, SettledStep
  <1>3. Settled => CheckedIsWatched
    BY DEF Settled, Clean, CheckedIsWatched
  <1>4. QED  BY <1>1, <1>2, <1>3, PTL DEF Spec

-----------------------------------------------------------------------------
(* Stray endpoints *)

(* There are no endpoints before the first call.                           *)
LEMMA StrayInit == Init => NoStrayEndpoint
  BY DEF Init, NoStrayEndpoint

(* What is registered with the owner or is going to be taken out.          *)
Kept(o, f, b) == (f \in Targets(o) /\ reg[o][b] # "absent") \/ BeingRemoved(o, f, b)

(* The premise of NoStrayEndpoint.                                         *)
Counts(o, f, b) ==
  /\ b \in endpoints[f] \ late[o]
  /\ Exclusive(o, b)
  /\ o \in Forwarders => o = f /\ f \notin closed

(* NoStrayEndpoint in the terms of its proof: what counts is kept.         *)
LEMMA StrayMeans ==
  NoStrayEndpoint <=> \A o \in Owners, f \in Forwarders : \A b : Counts(o, f, b) => Kept(o, f, b)
  BY DEF NoStrayEndpoint, Counts, Kept

(* Only the calls that drop an endpoint or close a group take one out.     *)
LEMMA NotTaking ==
  ASSUME NEW k, k.op \notin {"drop", "gstop", "gclose"}
  PROVE  \A o, f, b : ~TakesOut(k, o, f, b)
  BY DEF TakesOut

(* A step of a call that takes nothing out leaves the others' work.        *)
LEMMA OthersRemove ==
  ASSUME TypeOK, NEW c \in Callers, NEW k, call' = [call EXCEPT ![c] = k],
         NEW o, NEW f, NEW b,
         TakesOut(call[c], o, f, b) => TakesOut(k, o, f, b)
  PROVE  BeingRemoved(o, f, b) => BeingRemoved(o, f, b)'
  <1>1. call'[c] = k /\ \A d \in Callers : d = c \/ call'[d] = call[d]
    BY DEF TypeOK
  <1>2. SUFFICES ASSUME NEW d \in Callers, TakesOut(call[d], o, f, b)
                 PROVE  \E e \in Callers : TakesOut(call'[e], o, f, b)
    BY DEF BeingRemoved, TakesOut
  <1>3. CASE d = c
    BY <1>1, <1>2, <1>3
  <1>4. CASE d # c
    BY <1>1, <1>2, <1>4
  <1>5. QED  BY <1>3, <1>4

(* What the Close of a group still has to do.                              *)
LEMMA CloseShape ==
  ASSUME NEW k \in PendingCalls, k.op \in {"gstop", "gclose"}
  PROVE  k \in [op : {"gstop", "gclose"}, g : Groups, left : SUBSET Forwarders,
               ids : SUBSET Backends]
  BY DEF PendingCalls, Idle

(* A new call takes nothing from the calls that are under way.             *)
LEMMA BeginKeeps ==
  ASSUME TypeOK, NEW c \in Callers, NEW k, Begin(c, k), NEW o, NEW f, NEW b
  PROVE  BeingRemoved(o, f, b) => BeingRemoved(o, f, b)'
  <1>1. call[c] = Idle /\ call' = [call EXCEPT ![c] = k]
    BY DEF Begin
  <1>2. ~TakesOut(call[c], o, f, b)
    BY <1>1 DEF TakesOut, Idle
  <1>3. QED  BY <1>1, <1>2, OthersRemove

(* A step that leaves the configuration alone, adds no endpoint, and takes *)
(* no work from a call, leaves nothing stray.                              *)
LEMMA QuietStep ==
  ASSUME TypeOK, NEW p \in Owners, NEW v \in Forwarders, NEW a,
         Counts(p, v, a) => Kept(p, v, a), Counts(p, v, a)',
         UNCHANGED <<reg, updaters, closed, late>>,
         endpoints'[v] \subseteq endpoints[v],
         BeingRemoved(p, v, a) => BeingRemoved(p, v, a)'
  PROVE  Kept(p, v, a)'
  BY DEF Counts, Kept, Targets

(* Each endpoint that a step leaves is registered with its owner or about  *)
(* to be taken out (forward.go 74-90, 170-253, backend.go 160-308).        *)
LEMMA StrayStep == TypeOK /\ Home /\ NoStrayEndpoint /\ [Next]_vars => NoStrayEndpoint'
  <1> SUFFICES ASSUME TypeOK, Home, [Next]_vars, NEW p \in Owners, NEW v \in Forwarders, NEW a,
                      Counts(p, v, a) => Kept(p, v, a), Counts(p, v, a)'
               PROVE  Kept(p, v, a)'
    <2>1. NoStrayEndpoint' <=>
            (\A o \in Owners, f \in Forwarders : \A b : Counts(o, f, b) => Kept(o, f, b))'
      BY StrayMeans, PTL
    <2>2. QED  BY StrayMeans, <2>1
  <1>1. ASSUME NEW f \in Forwarders, NEW b \in Backends, NEW m \in Modes, ForwarderAddBackend(f, b, m)
        PROVE  Kept(p, v, a)'
    <2>1. BeingRemoved(p, v, a) <=> BeingRemoved(p, v, a)'
      BY <1>1 DEF ForwarderAddBackend, BeingRemoved, TakesOut
    <2>2. a \in endpoints[v] \/ (a = b /\ v = f)
      BY <1>1 DEF ForwarderAddBackend, Added, Counts
    <2>3. CASE a \notin endpoints[v]
      <3>1. b \in Ids[f] /\ f \in Owners /\ p = f
        BY <1>1, <2>2, <2>3 DEF ForwarderAddBackend, Counts, Exclusive, Owners
      <3>2. f \notin closed
        BY <1>1, <2>2, <2>3, <3>1 DEF ForwarderAddBackend, Counts, TypeOK
      <3>3. reg'[p][a] # "absent"
        BY <1>1, <2>2, <2>3, <3>1, <3>2 DEF ForwarderAddBackend, TypeOK
      <3>4. QED  BY <1>1, <2>2, <2>3, <3>1, <3>3 DEF ForwarderAddBackend, Kept, Targets, Owners
    <2>4. CASE a \in endpoints[v]
      <3>1. Kept(p, v, a)
        BY <1>1, <2>4 DEF ForwarderAddBackend, Counts
      <3>2. reg[p][a] # "absent" => reg'[p][a] # "absent"
        BY <1>1 DEF ForwarderAddBackend, TypeOK
      <3>3. QED  BY <1>1, <2>1, <3>1, <3>2 DEF ForwarderAddBackend, Kept, Targets
    <2>5. QED  BY <2>3, <2>4
  <1>2. ASSUME NEW c \in Callers, NEW f \in Forwarders, NEW g \in Groups, ForwarderJoinGroup(c, f, g)
        PROVE  Kept(p, v, a)'
    <2>1. Begin(c, [op |-> "attach", f |-> f, g |-> g])
      BY <1>2 DEF ForwarderJoinGroup
    <2>2. BeingRemoved(p, v, a) => BeingRemoved(p, v, a)'
      BY <2>1, BeginKeeps
    <2>3. endpoints'[v] \subseteq endpoints[v]
      BY <1>2 DEF ForwarderJoinGroup
    <2>4. QED  BY <1>2, <2>2, <2>3, QuietStep DEF ForwarderJoinGroup
  <1>3. ASSUME NEW c \in Callers, NEW f \in Forwarders, NEW b \in Backends, ForwarderDelBackend(c, f, b)
        PROVE  Kept(p, v, a)'
    <2> DEFINE k == [op |-> "drop", f |-> f, b |-> b]
    <2>1. Begin(c, k)
      BY <1>3 DEF ForwarderDelBackend
    <2>2. CASE p = f /\ a = b
      <3>1. v = f
        BY <2>2 DEF Counts
      <3>2. call'[c] = k
        BY <2>1 DEF TypeOK, Begin
      <3>3. TakesOut(call'[c], p, v, a)
        BY <2>2, <3>1, <3>2 DEF TakesOut
      <3>4. QED  BY <3>3 DEF Kept, BeingRemoved, TakesOut
    <2>3. CASE p # f \/ a # b
      <3>1. BeingRemoved(p, v, a) => BeingRemoved(p, v, a)'
        BY <2>1, BeginKeeps
      <3>2. Kept(p, v, a)
        BY <1>3 DEF ForwarderDelBackend, Counts
      <3>3. reg'[p][a] = reg[p][a]
        BY <1>3, <2>3 DEF ForwarderDelBackend, TypeOK, Owners
      <3>4. QED  BY <1>3, <3>1, <3>2, <3>3 DEF ForwarderDelBackend, Kept, Targets
    <2>4. QED  BY <2>2, <2>3
  <1>4. ASSUME NEW c \in Callers, ForwarderDropEndpoint(c)
        PROVE  Kept(p, v, a)'
    <2>1. call' = [call EXCEPT ![c] = Idle]
      BY <1>4 DEF ForwarderDropEndpoint, Return
    <2>2. endpoints'[v] \subseteq endpoints[v] /\ ~TakesOut(call[c], p, v, a)
      BY <1>4 DEF ForwarderDropEndpoint, Dropped, TakesOut, Counts
    <2>3. BeingRemoved(p, v, a) => BeingRemoved(p, v, a)'
      BY <2>1, <2>2, OthersRemove
    <2>4. QED  BY <1>4, <2>2, <2>3, QuietStep DEF ForwarderDropEndpoint
  <1>5. ASSUME NEW c \in Callers, NEW f \in Forwarders, NEW g \in Groups, ForwarderLeaveGroup(c, f, g)
        PROVE  Kept(p, v, a)'
    <2>1. Begin(c, [op |-> "detach", f |-> f, g |-> g])
      BY <1>5 DEF ForwarderLeaveGroup
    <2>2. BeingRemoved(p, v, a) => BeingRemoved(p, v, a)'
      BY <2>1, BeginKeeps
    <2>3. endpoints'[v] \subseteq endpoints[v]
      BY <1>5 DEF ForwarderLeaveGroup
    <2>4. QED  BY <1>5, <2>2, <2>3, QuietStep DEF ForwarderLeaveGroup
  <1>6. ASSUME NEW c \in Callers, NEW f \in Forwarders, ForwarderClose(c, f)
        PROVE  Kept(p, v, a)'
    <2> DEFINE k == [op |-> "fclose", f |-> f, left |-> joined[f]]
    <2>1. Begin(c, k)
      BY <1>6 DEF ForwarderClose
    <2>2. BeingRemoved(p, v, a) => BeingRemoved(p, v, a)'
      BY <2>1, BeginKeeps
    <2>3. p # f /\ Counts(p, v, a)
      BY <1>6 DEF ForwarderClose, Counts
    <2>4. reg'[p][a] = reg[p][a] /\ updaters' = updaters
      BY <1>6, <2>3 DEF ForwarderClose, TypeOK
    <2>5. QED  BY <2>2, <2>3, <2>4 DEF Kept, Targets
  <1>7. ASSUME NEW c \in Callers, ForwarderCloseEnd(c)
        PROVE  Kept(p, v, a)'
    <2>1. call' = [call EXCEPT ![c] = Idle]
      BY <1>7 DEF ForwarderCloseEnd, Return
    <2>2. BeingRemoved(p, v, a) => BeingRemoved(p, v, a)'
      BY <1>7, <2>1, NotTaking, OthersRemove DEF ForwarderCloseEnd, Return, Idle
    <2>3. endpoints'[v] \subseteq endpoints[v]
      BY <1>7 DEF ForwarderCloseEnd
    <2>4. QED  BY <1>7, <2>2, <2>3, QuietStep DEF ForwarderCloseEnd
  <1>8. ASSUME NEW c \in Callers, GroupAddUpdater(c)
        PROVE  Kept(p, v, a)'
    <2>1. call' = [call EXCEPT ![c] = Idle]
      BY <1>8 DEF GroupAddUpdater, Return
    <2>2. BeingRemoved(p, v, a) => BeingRemoved(p, v, a)'
      BY <1>8, <2>1, NotTaking, OthersRemove DEF GroupAddUpdater
    <2>3. CASE UNCHANGED <<updaters, endpoints>>
      BY <1>8, <2>2, <2>3, QuietStep DEF GroupAddUpdater
    <2>4. CASE /\ updaters' = [updaters EXCEPT ![call[c].g] = @ \cup {call[c].f}]
               /\ endpoints' = Added({call[c].f}, Handed(call[c].g))
      <3>1. call[c].f \in Forwarders /\ call[c].g \in Groups /\ call[c].g \in Owners
        BY <1>8, CallShape DEF GroupAddUpdater, TypeOK, Owners
      <3>2. \A g \in Groups : updaters[g] \subseteq updaters'[g]
        BY <2>4 DEF TypeOK
      <3>3. CASE a \in endpoints[v]
        <4>1. Kept(p, v, a)
          BY <1>8, <3>3 DEF GroupAddUpdater, Counts
        <4>2. QED  BY <1>8, <2>2, <3>2, <4>1 DEF GroupAddUpdater, Kept, Targets
      <3>4. CASE a \notin endpoints[v]
        <4>1. v = call[c].f /\ a \in Handed(call[c].g)
          BY <2>4, <3>4 DEF Added, Counts
        <4>2. a \in Backends /\ reg[call[c].g][a] # "absent"
          BY <4>1 DEF Handed
        <4>3. a \in Ids[call[c].g]
          BY <3>1, <4>2 DEF Home
        <4>4. p = call[c].g
          BY <3>1, <4>3 DEF Counts, Exclusive
        <4>5. v \in updaters'[p] /\ reg'[p][a] # "absent"
          BY <1>8, <2>4, <3>1, <4>1, <4>2, <4>4 DEF GroupAddUpdater, TypeOK
        <4>6. QED  BY <3>1, <4>4, <4>5 DEF Kept, Targets
      <3>5. QED  BY <3>3, <3>4
    <2>5. QED  BY <1>8, <2>3, <2>4 DEF GroupAddUpdater
  <1>9. ASSUME NEW f \in Forwarders, NEW g \in Groups, RemoveUpdater(f, g),
               UNCHANGED <<reg, closed, late>>,
               BeingRemoved(p, v, a) => BeingRemoved(p, v, a)'
        PROVE  Kept(p, v, a)'
    <2>1. endpoints'[v] \subseteq endpoints[v]
      BY <1>9 DEF RemoveUpdater, Dropped
    <2>2. Kept(p, v, a)
      BY <1>9, <2>1 DEF Counts
    <2>3. CASE p = g /\ v \in updaters[g] /\ Name[v] = Name[f]
      <3>1. a \notin Registered(g) \/ a \notin Backends
        BY <1>9, <2>3 DEF RemoveUpdater, Dropped, Counts
      <3>2. reg[p][a] = "absent" \/ BeingRemoved(p, v, a)
        <4>1. a \in Backends
          BY <2>1 DEF Counts, TypeOK
        <4>2. QED  BY <2>3, <3>1, <4>1 DEF Registered
      <3>3. QED  BY <1>9, <2>2, <3>2 DEF Kept
    <2>4. CASE ~(p = g /\ v \in updaters[g] /\ Name[v] = Name[f])
      <3>1. v \in Targets(p) => v \in Targets(p)'
        BY <1>9, <2>4 DEF RemoveUpdater, Targets, TypeOK
      <3>2. QED  BY <1>9, <2>2, <3>1 DEF Kept
    <2>5. QED  BY <2>3, <2>4
  <1>10. ASSUME NEW c \in Callers, GroupDelUpdater(c)
        PROVE  Kept(p, v, a)'
    <2>1. call' = [call EXCEPT ![c] = Idle]
      BY <1>10 DEF GroupDelUpdater, Return
    <2>2. BeingRemoved(p, v, a) => BeingRemoved(p, v, a)'
      BY <1>10, <2>1, NotTaking, OthersRemove DEF GroupDelUpdater
    <2>3. call[c].f \in Forwarders /\ call[c].g \in Groups
      BY <1>10, CallShape DEF GroupDelUpdater, TypeOK
    <2>4. QED  BY <1>9, <1>10, <2>2, <2>3 DEF GroupDelUpdater
  <1>11. ASSUME NEW c \in Callers, ForwarderCloseGroup(c)
        PROVE  Kept(p, v, a)'
    <2>1. PICK g \in call[c].left :
            /\ RemoveUpdater(call[c].f, g)
            /\ call' = [call EXCEPT ![c].left = @ \ {g}]
      BY <1>11 DEF ForwarderCloseGroup
    <2>2. call[c].f \in Forwarders /\ g \in Groups
      BY <1>11, CallShape DEF ForwarderCloseGroup, TypeOK
    <2>3. BeingRemoved(p, v, a) => BeingRemoved(p, v, a)'
      BY <1>11, <2>1, NotTaking, OthersRemove DEF ForwarderCloseGroup
    <2>4. QED  BY <1>9, <1>11, <2>1, <2>2, <2>3 DEF ForwarderCloseGroup
  <1>12. ASSUME NEW g \in Groups, NEW b \in Backends, NEW m \in Modes, GroupAddBackend(g, b, m)
        PROVE  Kept(p, v, a)'
    <2>1. BeingRemoved(p, v, a) <=> BeingRemoved(p, v, a)'
      BY <1>12 DEF GroupAddBackend, BeingRemoved, TakesOut
    <2>2. a \in endpoints[v] \/ (a = b /\ v \in updaters[g])
      BY <1>12 DEF GroupAddBackend, Added, Counts
    <2>3. CASE a \notin endpoints[v]
      <3>1. b \in Ids[g] /\ g \in Owners /\ p = g
        BY <1>12, <2>2, <2>3 DEF GroupAddBackend, Counts, Exclusive, Owners
      <3>2. g \notin closed
        BY <1>12, <2>2, <2>3, <3>1 DEF GroupAddBackend, Counts, TypeOK
      <3>3. reg'[p][a] # "absent"
        BY <1>12, <2>2, <2>3, <3>1, <3>2 DEF GroupAddBackend, TypeOK
      <3>4. QED  BY <1>12, <2>2, <2>3, <3>1, <3>3 DEF GroupAddBackend, Kept, Targets, Owners
    <2>4. CASE a \in endpoints[v]
      <3>1. Kept(p, v, a)
        BY <1>12, <2>4 DEF GroupAddBackend, Counts
      <3>2. reg[p][a] # "absent" => reg'[p][a] # "absent"
        BY <1>12 DEF GroupAddBackend, TypeOK
      <3>3. QED  BY <1>12, <2>1, <3>1, <3>2 DEF GroupAddBackend, Kept, Targets
    <2>5. QED  BY <2>3, <2>4
  <1>13. ASSUME NEW c \in Callers, NEW g \in Groups, NEW b \in Backends, GroupDelBackend(c, g, b)
        PROVE  Kept(p, v, a)'
    <2>1. \E k : Begin(c, k)
      BY <1>13 DEF GroupDelBackend
    <2>2. BeingRemoved(p, v, a) => BeingRemoved(p, v, a)'
      BY <2>1, BeginKeeps
    <2>3. endpoints'[v] \subseteq endpoints[v]
      BY <1>13 DEF GroupDelBackend, Dropped
    <2>4. Kept(p, v, a)
      BY <1>13, <2>3 DEF GroupDelBackend, Counts
    <2>5. CASE p = g /\ a = b
      <3>1. v \notin updaters[g]
        BY <1>13, <2>5 DEF GroupDelBackend, Dropped, Counts
      <3>2. QED  BY <2>2, <2>4, <2>5, <3>1 DEF Kept, Targets
    <2>6. CASE p # g \/ a # b
      <3>1. reg'[p][a] = reg[p][a]
        BY <1>13, <2>6 DEF GroupDelBackend, TypeOK, Owners
      <3>2. QED  BY <1>13, <2>2, <2>4, <3>1 DEF GroupDelBackend, Kept, Targets
    <2>7. QED  BY <2>5, <2>6
  <1>14. ASSUME NEW c \in Callers, GroupForget(c)
        PROVE  Kept(p, v, a)'
    <2>1. call' = [call EXCEPT ![c] = Idle]
      BY <1>14 DEF GroupForget, Return
    <2>2. BeingRemoved(p, v, a) => BeingRemoved(p, v, a)'
      BY <1>14, <2>1, NotTaking, OthersRemove DEF GroupForget
    <2>3. endpoints'[v] \subseteq endpoints[v]
      BY <1>14, ForgetEffects DEF Dropped
    <2>4. QED  BY <1>14, <2>2, <2>3, QuietStep DEF GroupForget
  <1>15. ASSUME NEW c \in Callers, NEW g \in Groups, GroupClose(c, g)
        PROVE  Kept(p, v, a)'
    <2> DEFINE k == [op |-> "gstop", g |-> g, left |-> updaters[g], ids |-> Registered(g)]
    <2>1. Begin(c, k)
      BY <1>15 DEF GroupClose
    <2>2. BeingRemoved(p, v, a) => BeingRemoved(p, v, a)'
      BY <2>1, BeginKeeps
    <2>3. Kept(p, v, a)
      BY <1>15 DEF GroupClose, Counts
    <2>4. CASE p = g
      <3>1. CASE v \in updaters[g] /\ reg[g][a] # "absent"
        <4>1. a \in Registered(g)
          BY <1>15, <3>1 DEF GroupClose, Registered, Counts, TypeOK
        <4>2. call'[c] = k
          BY <2>1 DEF TypeOK, Begin
        <4>3. TakesOut(call'[c], p, v, a)
          BY <2>4, <3>1, <4>1, <4>2 DEF TakesOut
        <4>4. QED  BY <4>3 DEF Kept, BeingRemoved, TakesOut
      <3>2. CASE ~(v \in updaters[g] /\ reg[g][a] # "absent")
        BY <2>2, <2>3, <2>4, <3>2 DEF Kept, Targets
      <3>3. QED  BY <3>1, <3>2
    <2>5. CASE p # g
      BY <1>15, <2>2, <2>3, <2>5 DEF GroupClose, Kept, Targets, TypeOK
    <2>6. QED  BY <2>4, <2>5
  <1>16. ASSUME NEW c \in Callers, GroupCloseStop(c)
        PROVE  Kept(p, v, a)'
    <2>1. call' = [call EXCEPT ![c] = [call[c] EXCEPT !.op = "gclose"]]
      BY <1>16 DEF GroupCloseStop, TypeOK
    <2>2. TakesOut(call[c], p, v, a) => TakesOut([call[c] EXCEPT !.op = "gclose"], p, v, a)
      <3>1. call[c] \in [op : {"gstop", "gclose"}, g : Groups, left : SUBSET Forwarders,
                         ids : SUBSET Backends]
        BY <1>16, CloseShape DEF GroupCloseStop, TypeOK
      <3>2. QED  BY <3>1 DEF TakesOut
    <2>3. BeingRemoved(p, v, a) => BeingRemoved(p, v, a)'
      BY <2>1, <2>2, OthersRemove
    <2>4. QED  BY <1>16, <2>3, QuietStep DEF GroupCloseStop
  <1>17. ASSUME NEW c \in Callers, GroupCloseUpdater(c)
        PROVE  Kept(p, v, a)'
    <2>1. PICK u \in call[c].left :
            /\ endpoints' = Dropped({u}, call[c].ids)
            /\ call' = [call EXCEPT ![c].left = @ \ {u}]
      BY <1>17 DEF GroupCloseUpdater
    <2>2. call' = [call EXCEPT ![c] = [call[c] EXCEPT !.left = call[c].left \ {u}]]
      BY <2>1 DEF TypeOK
    <2>3. TakesOut(call[c], p, v, a) =>
            TakesOut([call[c] EXCEPT !.left = call[c].left \ {u}], p, v, a)
      <3>1. call[c] \in [op : {"gstop", "gclose"}, g : Groups, left : SUBSET Forwarders,
                         ids : SUBSET Backends]
        BY <1>17, CloseShape DEF GroupCloseUpdater, TypeOK
      <3>2. v # u \/ a \notin call[c].ids
        BY <2>1 DEF Dropped, Counts
      <3>3. QED  BY <3>1, <3>2 DEF TakesOut
    <2>4. BeingRemoved(p, v, a) => BeingRemoved(p, v, a)'
      BY <2>2, <2>3, OthersRemove
    <2>5. endpoints'[v] \subseteq endpoints[v]
      BY <2>1 DEF Dropped
    <2>6. QED  BY <1>17, <2>4, <2>5, QuietStep DEF GroupCloseUpdater
  <1>18. ASSUME NEW c \in Callers, GroupCloseEnd(c)
        PROVE  Kept(p, v, a)'
    <2>1. call' = [call EXCEPT ![c] = Idle]
      BY <1>18 DEF GroupCloseEnd, Return
    <2>2. ~TakesOut(call[c], p, v, a)
      BY <1>18 DEF GroupCloseEnd, TakesOut
    <2>3. BeingRemoved(p, v, a) => BeingRemoved(p, v, a)'
      BY <2>1, <2>2, OthersRemove
    <2>4. QED  BY <1>18, <2>3, QuietStep DEF GroupCloseEnd
  <1>19. ASSUME NEW o \in Owners, NEW b \in Backends, CheckEndpoint(o, b)
        PROVE  Kept(p, v, a)'
    <2>1. BeingRemoved(p, v, a) => BeingRemoved(p, v, a)'
      BY <1>19 DEF CheckEndpoint, BeingRemoved, TakesOut
    <2>2. QED  BY <1>19, <2>1, QuietStep DEF CheckEndpoint
  <1>20. ASSUME NEW o \in Owners, NEW b \in Backends, ReportUp(o, b)
        PROVE  Kept(p, v, a)'
    <2>1. BeingRemoved(p, v, a) => BeingRemoved(p, v, a)'
      BY <1>20 DEF ReportUp, BeingRemoved, TakesOut
    <2>2. CASE a \in endpoints[v]
      <3>1. Counts(p, v, a)
        BY <1>20, <2>2 DEF ReportUp, Counts, TypeOK
      <3>2. QED  BY <1>20, <2>1, <3>1 DEF ReportUp, Kept, Targets
    <2>3. CASE a \notin endpoints[v]
      <3>1. a = b /\ v \in Targets(o)
        BY <1>20, <2>3 DEF ReportUp, Added, Counts
      <3>2. a \in Ids[o]
        BY <1>20, <3>1 DEF ReportUp, Home
      <3>3. p = o
        BY <3>1, <3>2 DEF Counts, Exclusive, Targets, Owners
      <3>4. reg[o][b] # "absent"
        BY <1>20, <3>1, <3>3 DEF ReportUp, Counts, TypeOK
      <3>5. QED  BY <1>20, <3>1, <3>3, <3>4 DEF ReportUp, Kept, Targets
    <2>4. QED  BY <2>2, <2>3
  <1>21. ASSUME NEW o \in Owners, NEW b \in Backends, ReportDown(o, b)
        PROVE  Kept(p, v, a)'
    <2>1. BeingRemoved(p, v, a) => BeingRemoved(p, v, a)'
      BY <1>21 DEF ReportDown, BeingRemoved, TakesOut
    <2>2. endpoints'[v] \subseteq endpoints[v]
      BY <1>21 DEF ReportDown, Dropped
    <2>3. QED  BY <1>21, <2>1, <2>2, QuietStep DEF ReportDown
  <1>22. CASE UNCHANGED vars
    <2>1. BeingRemoved(p, v, a) => BeingRemoved(p, v, a)'
      BY <1>22 DEF vars, BeingRemoved, TakesOut
    <2>2. QED  BY <1>22, <2>1, QuietStep DEF vars
  <1>23. QED
    BY <1>1, <1>2, <1>3, <1>4, <1>5, <1>6, <1>7, <1>8, <1>10, <1>11, <1>12,
       <1>13, <1>14, <1>15, <1>16, <1>17, <1>18, <1>19, <1>20, <1>21, <1>22
       DEF Next, Continue, Checker

(* No endpoint outlives its configuration, but for a late health report    *)
(* (DelBackendByID, DelUpdaterByName, Close of forwarder and group).       *)
THEOREM NothingStray == Spec => []NoStrayEndpoint
  <1>1. Init => TypeOK /\ Home /\ NoStrayEndpoint
    BY TypeInit, HomeInit, StrayInit
  <1>2. TypeOK /\ Home /\ NoStrayEndpoint /\ [Next]_vars
          => (TypeOK /\ Home /\ NoStrayEndpoint)'
    BY TypeStep, HomeStep, StrayStep
  <1>3. QED  BY <1>1, <1>2, PTL DEF Spec

-----------------------------------------------------------------------------
(* The two maps: f.backends and b.updaters                                 *)

(* The call k is to bring f into g, or out of it.                          *)
Attaches(k, f, g) == k.op = "attach" /\ k.f = f /\ k.g = g
Detaches(k, f, g) ==
  \/ k.op = "detach" /\ k.f = f /\ k.g = g
  \/ k.op = "fclose" /\ k.f = f /\ g \in k.left
Handles(k, f, g) == Attaches(k, f, g) \/ Detaches(k, f, g)

(* f is in g by its own account, or on its way out.                        *)
Member(f, g) == g \in joined[f] \/ Detaching(f, g)

(* What is true of f and g if their calls did not cross: the two maps      *)
(* agree; a call that is to join still finds the group listed, one that is *)
(* to leave does not; no namesake is in the group; there is one call.      *)
Orderly(f, g) ==
  /\ g \in joined[f] => g \in closed \/ f \in updaters[g] \/ Attaching(f, g)
  /\ f \in updaters[g] => Member(f, g)
  /\ Attaching(f, g) => g \in joined[f]
  /\ Detaching(f, g) => g \notin joined[f]
  /\ \A v \in Forwarders : Name[v] = Name[f] /\ Member(v, g) /\ Member(f, g) => v = f
  /\ \A c, d \in Callers : Handles(call[c], f, g) /\ Handles(call[d], f, g) => c = d

InOrder ==
  \A f \in Forwarders, g \in Groups : <<Name[f], g>> \notin crossed => Orderly(f, g)

(* Attaching and Detaching in the terms of a call, now and after a step.   *)
LEMMA OnTheWay ==
  ASSUME NEW f, NEW g
  PROVE  /\ Attaching(f, g) <=> \E c \in Callers : Attaches(call[c], f, g)
         /\ Detaching(f, g) <=> \E c \in Callers : Detaches(call[c], f, g)
         /\ Attaching(f, g)' <=> \E c \in Callers : Attaches(call'[c], f, g)
         /\ Detaching(f, g)' <=> \E c \in Callers : Detaches(call'[c], f, g)
  BY DEF Attaching, Detaching, Attaches, Detaches

(* What becomes of the joining and leaving when the call of c is replaced. *)
LEMMA OthersKept ==
  ASSUME TypeOK, NEW c \in Callers, NEW k, call' = [call EXCEPT ![c] = k], NEW f, NEW g
  PROVE  /\ Attaching(f, g)' <=> Attaches(k, f, g) \/ \E d \in Callers : d # c /\ Attaches(call[d], f, g)
         /\ Detaching(f, g)' <=> Detaches(k, f, g) \/ \E d \in Callers : d # c /\ Detaches(call[d], f, g)
         /\ \A d \in Callers : Handles(call'[d], f, g) <=>
              (d = c /\ Handles(k, f, g)) \/ (d # c /\ Handles(call[d], f, g))
  <1>1. call'[c] = k /\ \A d \in Callers : d # c => call'[d] = call[d]
    BY DEF TypeOK
  <1>2. Attaching(f, g)' <=> Attaches(k, f, g) \/ \E d \in Callers : d # c /\ Attaches(call[d], f, g)
    BY <1>1, OnTheWay
  <1>3. Detaching(f, g)' <=> Detaches(k, f, g) \/ \E d \in Callers : d # c /\ Detaches(call[d], f, g)
    BY <1>1, OnTheWay
  <1>4. QED  BY <1>1, <1>2, <1>3

(* A step of a call that means nothing to f and g changes nothing there.   *)
LEMMA SameOnTheWay ==
  ASSUME TypeOK, NEW c \in Callers, NEW k, call' = [call EXCEPT ![c] = k], NEW f, NEW g,
         Attaches(k, f, g) <=> Attaches(call[c], f, g),
         Detaches(k, f, g) <=> Detaches(call[c], f, g)
  PROVE  /\ Attaching(f, g)' <=> Attaching(f, g)
         /\ Detaching(f, g)' <=> Detaching(f, g)
         /\ \A d \in Callers : Handles(call'[d], f, g) => Handles(call[d], f, g)
  <1>1. Attaching(f, g)' <=> Attaching(f, g)
    BY OthersKept, OnTheWay
  <1>2. Detaching(f, g)' <=> Detaching(f, g)
    BY OthersKept, OnTheWay
  <1>3. \A d \in Callers : Handles(call'[d], f, g) => Handles(call[d], f, g)
    BY OthersKept DEF Handles
  <1>4. QED  BY <1>1, <1>2, <1>3

(* A step that leaves the namesakes of f alone leaves f and g in order.    *)
LEMMA Undisturbed ==
  ASSUME NEW f \in Forwarders, NEW g \in Groups, Orderly(f, g), closed \subseteq closed',
         \A v \in Forwarders : Name[v] = Name[f] =>
           /\ g \in joined'[v] <=> g \in joined[v]
           /\ Detaching(v, g)' <=> Detaching(v, g),
         Attaching(f, g)' <=> Attaching(f, g),
         f \in updaters'[g] => f \in updaters[g],
         f \in updaters[g] => f \in updaters'[g] \/ g \in closed',
         \A c \in Callers : Handles(call'[c], f, g) => Handles(call[c], f, g)
  PROVE  Orderly(f, g)'
  <1>1. \A v \in Forwarders : Name[v] = Name[f] => (Member(v, g)' <=> Member(v, g))
    BY DEF Member
  <1>2. /\ (\A v \in Forwarders : Name[v] = Name[f] /\ Member(v, g) /\ Member(f, g) => v = f)'
        /\ f \in updaters'[g] => Member(f, g)'
    BY <1>1 DEF Orderly
  <1>3. (\A c, d \in Callers : Handles(call[c], f, g) /\ Handles(call[d], f, g) => c = d)'
    <2>1. \A c, d \in Callers : Handles(call'[c], f, g) /\ Handles(call'[d], f, g) => c = d
      BY DEF Orderly
    <2>2. QED  BY <2>1 DEF Handles, Attaches, Detaches
  <1>4. QED  BY <1>2, <1>3 DEF Orderly

(* The call k is to bring f into the groups gs (enters), or out of them,   *)
(* and has done so in the map of f.                                        *)
Moves(f, gs, enters, k) ==
  \A v \in Forwarders, h \in Groups :
    /\ h \in joined'[v] <=> IF v = f /\ h \in gs THEN enters ELSE h \in joined[v]
    /\ Attaches(k, v, h) <=> enters /\ v = f /\ h \in gs
    /\ Detaches(k, v, h) <=> ~enters /\ v = f /\ h \in gs

(* A call that begins to bring f into the groups gs, or out of them,       *)
(* starts in order where it crosses none, and leaves the others alone.     *)
LEMMA InOrderBegins ==
  ASSUME TypeOK, InOrder, NEW f \in Forwarders, NEW gs \in SUBSET Groups, NEW enters \in BOOLEAN,
         NEW c \in Callers, NEW k, call[c] = Idle, call' = [call EXCEPT ![c] = k],
         Moves(f, gs, enters, k), crossed' = CrossedBy(f, gs), updaters' = updaters, closed \subseteq closed'
  PROVE  InOrder'
  <1> USE DEF Moves
  <1>1. \A v, h : ~Attaches(call[c], v, h) /\ ~Detaches(call[c], v, h)
    BY DEF Attaches, Detaches, Idle
  <1>2. SUFFICES ASSUME NEW v \in Forwarders, NEW h \in Groups, <<Name[v], h>> \notin crossed'
                 PROVE  Orderly(v, h)'
    BY DEF InOrder
  <1>3. CASE Name[v] = Name[f] /\ h \in gs
    <2>1. ~Clash(f, h)
      BY <1>2, <1>3 DEF CrossedBy
    <2>2. \A w \in Forwarders : Name[w] = Name[f] =>
            /\ ~Attaching(w, h) /\ ~Detaching(w, h)
            /\ w # f => h \notin joined[w] /\ w \notin updaters[h]
      BY <2>1 DEF Clash
    <2>3. \A w \in Forwarders : Name[w] = Name[f] =>
            /\ Attaching(w, h)' <=> enters /\ w = f
            /\ Detaching(w, h)' <=> ~enters /\ w = f
            /\ h \in joined'[w] <=> enters /\ w = f
            /\ \A d \in Callers : Handles(call'[d], w, h) => d = c
      <3> SUFFICES ASSUME NEW w \in Forwarders, Name[w] = Name[f]
                   PROVE  /\ Attaching(w, h)' <=> enters /\ w = f
                          /\ Detaching(w, h)' <=> ~enters /\ w = f
                          /\ h \in joined'[w] <=> enters /\ w = f
                          /\ \A d \in Callers : Handles(call'[d], w, h) => d = c
        OBVIOUS
      <3>1. \A d \in Callers : ~Attaches(call[d], w, h) /\ ~Detaches(call[d], w, h)
        BY <2>2, OnTheWay
      <3>2. Attaching(w, h)' <=> enters /\ w = f
        BY <1>3, <3>1, OthersKept
      <3>3. Detaching(w, h)' <=> ~enters /\ w = f
        BY <1>3, <3>1, OthersKept
      <3>4. \A d \in Callers : Handles(call'[d], w, h) => d = c
        BY <3>1, OthersKept DEF Handles
      <3>5. QED  BY <1>3, <2>2, <3>2, <3>3, <3>4
    <2>4. \A w \in Forwarders : Name[w] = Name[f] => (Member(w, h)' <=> w = f)
      BY <2>3 DEF Member
    <2>5. (\A d, e \in Callers : Handles(call[d], v, h) /\ Handles(call[e], v, h) => d = e)'
      <3>1. \A d, e \in Callers : Handles(call'[d], v, h) /\ Handles(call'[e], v, h) => d = e
        BY <1>3, <2>3
      <3>2. QED  BY <3>1 DEF Handles, Attaches, Detaches
    <2>6. v \in updaters'[h] => v = f
      BY <1>3, <2>2
    <2>7. QED  BY <1>3, <2>3, <2>4, <2>5, <2>6 DEF Orderly
  <1>4. CASE ~(Name[v] = Name[f] /\ h \in gs)
    <2>1. <<Name[v], h>> \notin crossed
      BY <1>2, <1>4 DEF CrossedBy
    <2>2. Orderly(v, h)
      BY <2>1 DEF InOrder
    <2>3. \A w \in Forwarders : Name[w] = Name[v] =>
            /\ h \in joined'[w] <=> h \in joined[w]
            /\ ~Attaches(k, w, h) /\ ~Detaches(k, w, h)
      BY <1>4
    <2>4. \A w \in Forwarders : Name[w] = Name[v] =>
            /\ Attaching(w, h)' <=> Attaching(w, h)
            /\ Detaching(w, h)' <=> Detaching(w, h)
            /\ \A d \in Callers : Handles(call'[d], w, h) => Handles(call[d], w, h)
      BY <1>1, <2>3, SameOnTheWay
    <2>5. QED  BY <2>2, <2>3, <2>4, Undisturbed
  <1>5. QED  BY <1>3, <1>4

(* A step of a call that has nothing to do with the two maps, or of none,  *)
(* leaves what was in order.                                               *)
LEMMA InOrderApart ==
  ASSUME TypeOK, InOrder, UNCHANGED <<joined, crossed>>, closed \subseteq closed',
         \A f \in Forwarders, g \in Groups :
           /\ f \in updaters'[g] => f \in updaters[g]
           /\ f \in updaters[g] => f \in updaters'[g] \/ g \in closed',
         \/ call' = call
         \/ \E c \in Callers : \E k :
              /\ call' = [call EXCEPT ![c] = k]
              /\ \A f, g : ~Handles(call[c], f, g) /\ ~Handles(k, f, g)
  PROVE  InOrder'
  <1>1. SUFFICES ASSUME NEW f \in Forwarders, NEW g \in Groups, <<Name[f], g>> \notin crossed
                 PROVE  Orderly(f, g)'
    BY DEF InOrder
  <1>2. \A v \in Forwarders :
          /\ Attaching(v, g)' <=> Attaching(v, g)
          /\ Detaching(v, g)' <=> Detaching(v, g)
          /\ \A d \in Callers : Handles(call'[d], v, g) => Handles(call[d], v, g)
    <2>1. CASE call' = call
      BY <2>1, OnTheWay
    <2>2. CASE \E c \in Callers : \E k :
                 /\ call' = [call EXCEPT ![c] = k]
                 /\ \A v, h : ~Handles(call[c], v, h) /\ ~Handles(k, v, h)
      <3>0. PICK c \in Callers : \E k :
              /\ call' = [call EXCEPT ![c] = k]
              /\ \A v, h : ~Handles(call[c], v, h) /\ ~Handles(k, v, h)
        BY <2>2
      <3>1. PICK k :
              /\ call' = [call EXCEPT ![c] = k]
              /\ \A v, h : ~Handles(call[c], v, h) /\ ~Handles(k, v, h)
        BY <3>0
      <3>2. \A v, h : /\ ~Attaches(call[c], v, h) /\ ~Detaches(call[c], v, h)
                      /\ ~Attaches(k, v, h) /\ ~Detaches(k, v, h)
        BY <3>1 DEF Handles
      <3>3. QED  BY <3>1, <3>2, SameOnTheWay
    <2>3. QED  BY <2>1, <2>2
  <1>3. Orderly(f, g)
    BY <1>1 DEF InOrder
  <1>4. QED  BY <1>2, <1>3, Undisturbed

(* AddUpdater ends a call in order: the group feeds the forwarder now, if  *)
(* it is open (backend.go 260-280).                                        *)
LEMMA InOrderAttaches ==
  ASSUME TypeOK, InOrder, NEW c \in Callers, GroupAddUpdater(c)
  PROVE  InOrder'
  <1> DEFINE f == call[c].f
             g == call[c].g
  <1>1. /\ call[c].op = "attach" /\ f \in Forwarders /\ g \in Groups
        /\ call' = [call EXCEPT ![c] = Idle] /\ UNCHANGED <<joined, closed, crossed>>
    BY CallShape DEF GroupAddUpdater, Return, TypeOK, histories
  <1>2. /\ \A v, h : Attaches(call[c], v, h) <=> v = f /\ h = g
        /\ \A v, h : ~Detaches(call[c], v, h) /\ ~Attaches(Idle, v, h) /\ ~Detaches(Idle, v, h)
    BY <1>1 DEF Attaches, Detaches, Idle
  <1>3. \A v \in Forwarders, h \in Groups :
          /\ v \in updaters[h] => v \in updaters'[h]
          /\ v \in updaters'[h] => v \in updaters[h] \/ (v = f /\ h = g)
    <2>1. CASE updaters' = updaters
      BY <2>1
    <2>2. CASE updaters' = [updaters EXCEPT ![g] = @ \cup {f}]
      BY <1>1, <2>2 DEF TypeOK
    <2>3. QED  BY <2>1, <2>2 DEF GroupAddUpdater
  <1>4. \/ \E u \in updaters[g] : Name[u] = Name[f]
        \/ g \in closed
        \/ f \in updaters'[g]
    <2>1. CASE updaters' = [updaters EXCEPT ![g] = @ \cup {f}]
      BY <1>1, <2>1 DEF TypeOK
    <2>2. QED  BY <2>1 DEF GroupAddUpdater
  <1>5. \A v, h : /\ Attaching(v, h)' => Attaching(v, h)
                  /\ Detaching(v, h)' <=> Detaching(v, h)
                  /\ \A d \in Callers : Handles(call'[d], v, h) => Handles(call[d], v, h)
    <2> SUFFICES ASSUME NEW v, NEW h
                 PROVE  /\ Attaching(v, h)' => Attaching(v, h)
                        /\ Detaching(v, h)' <=> Detaching(v, h)
                        /\ \A d \in Callers : Handles(call'[d], v, h) => Handles(call[d], v, h)
      OBVIOUS
    <2>1. Attaching(v, h)' => Attaching(v, h)
      BY <1>1, <1>2, OthersKept, OnTheWay
    <2>2. Detaching(v, h)' <=> Detaching(v, h)
      BY <1>1, <1>2, OthersKept, OnTheWay
    <2>3. \A d \in Callers : Handles(call'[d], v, h) => Handles(call[d], v, h)
      BY <1>1, <1>2, OthersKept DEF Handles
    <2>4. QED  BY <2>1, <2>2, <2>3
  <1>6. Attaching(f, g)
    BY <1>2, OnTheWay
  <1> SUFFICES ASSUME NEW v \in Forwarders, NEW h \in Groups, <<Name[v], h>> \notin crossed
               PROVE  Orderly(v, h)'
    BY <1>1 DEF InOrder
  <1>7. Orderly(v, h)
    BY DEF InOrder
  <1> HIDE DEF f, g
  <1>8. CASE h = g /\ Name[v] = Name[f]
    <2>1. Orderly(f, g) /\ \A u \in Forwarders : Name[u] = Name[f] => Orderly(u, g)
      BY <1>1, <1>8 DEF InOrder
    <2>2. g \in joined[f] /\ Member(f, g)
      BY <1>6, <2>1 DEF Orderly, Member
    <2>3. \A u \in Forwarders : Name[u] = Name[f] /\ Member(u, g) => u = f
      BY <2>1, <2>2 DEF Orderly
    <2>4. \A u \in Forwarders : Name[u] = Name[f] /\ u \in updaters[g] => u = f
      BY <2>1, <2>3 DEF Orderly
    <2>5. g \in closed \/ f \in updaters'[g]
      BY <1>1, <1>3, <1>4, <2>4 DEF TypeOK
    <2>6. \A u \in Forwarders : Member(u, h)' <=> Member(u, h)
      BY <1>1, <1>5 DEF Member
    <2>7. (\A d, e \in Callers : Handles(call[d], v, h) /\ Handles(call[e], v, h) => d = e)'
      <3>1. \A d, e \in Callers : Handles(call'[d], v, h) /\ Handles(call'[e], v, h) => d = e
        BY <1>5, <1>7 DEF Orderly
      <3>2. QED  BY <3>1 DEF Handles, Attaches, Detaches
    <2>8. (\A u \in Forwarders : Name[u] = Name[v] /\ Member(u, h) /\ Member(v, h) => u = v)'
      BY <1>7, <1>8, <2>6 DEF Orderly
    <2>9. v \in updaters'[h] => Member(v, h)'
      BY <1>3, <1>7, <1>8, <2>2, <2>6 DEF Orderly
    <2>10. g \in joined[v] => v = f
      BY <1>8, <2>3 DEF Member
    <2>11. QED
      BY <1>1, <1>5, <1>7, <1>8, <2>5, <2>7, <2>8, <2>9, <2>10 DEF Orderly
  <1>9. CASE ~(h = g /\ Name[v] = Name[f])
    <2>1. Attaching(v, h)' <=> Attaching(v, h)
      <3>1. ~Attaches(call[c], v, h) /\ ~Attaches(Idle, v, h)
        BY <1>2, <1>9
      <3>2. ~Detaches(call[c], v, h) /\ ~Detaches(Idle, v, h)
        BY <1>2
      <3>3. QED  BY <1>1, <3>1, <3>2, SameOnTheWay
    <2>2. v \in updaters'[h] <=> v \in updaters[h]
      BY <1>3, <1>9
    <2>3. QED  BY <1>1, <1>5, <1>7, <2>1, <2>2, Undisturbed
  <1>10. QED  BY <1>8, <1>9

(* DelUpdaterByName leaves things in order: neither map has the forwarder  *)
(* or a namesake any more (backend.go 282-292).                            *)
LEMMA InOrderDetaches ==
  ASSUME TypeOK, InOrder, NEW c \in Callers, NEW k, NEW f \in Forwarders, NEW g \in Groups,
         RemoveUpdater(f, g), Detaches(call[c], f, g), call' = [call EXCEPT ![c] = k],
         \A v, h : Detaches(k, v, h) <=> Detaches(call[c], v, h) /\ ~(v = f /\ h = g),
         \A v, h : ~Attaches(call[c], v, h) /\ ~Attaches(k, v, h),
         UNCHANGED <<joined, closed, crossed>>
  PROVE  InOrder'
  <1>1. \A v \in Forwarders, h \in Groups :
          v \in updaters'[h] <=> v \in updaters[h] /\ ~(h = g /\ Name[v] = Name[f])
    BY DEF RemoveUpdater, TypeOK
  <1>2. \A v, h : /\ Attaching(v, h)' => Attaching(v, h)
                  /\ Detaching(v, h)' => Detaching(v, h)
                  /\ \A d \in Callers : Handles(call'[d], v, h) => Handles(call[d], v, h)
    <2> SUFFICES ASSUME NEW v, NEW h
                 PROVE  /\ Attaching(v, h)' => Attaching(v, h)
                        /\ Detaching(v, h)' => Detaching(v, h)
                        /\ \A d \in Callers : Handles(call'[d], v, h) => Handles(call[d], v, h)
      OBVIOUS
    <2>1. Attaching(v, h)' => Attaching(v, h)
      BY OthersKept, OnTheWay
    <2>2. Detaching(v, h)' => Detaching(v, h)
      BY OthersKept, OnTheWay
    <2>3. \A d \in Callers : Handles(call'[d], v, h) => Handles(call[d], v, h)
      BY OthersKept DEF Handles
    <2>4. QED  BY <2>1, <2>2, <2>3
  <1>3. Detaching(f, g)
    BY OnTheWay
  <1> SUFFICES ASSUME NEW v \in Forwarders, NEW h \in Groups, <<Name[v], h>> \notin crossed
               PROVE  Orderly(v, h)'
    BY DEF InOrder
  <1>4. Orderly(v, h)
    BY DEF InOrder
  <1>5. CASE h = g /\ Name[v] = Name[f]
    <2>1. Orderly(f, g)
      BY <1>5 DEF InOrder
    <2>2. g \notin joined[f] /\ Member(f, g)
      BY <1>3, <2>1 DEF Orderly, Member
    <2>3. \A u \in Forwarders : Name[u] = Name[f] /\ Member(u, g) => u = f
      BY <2>1, <2>2 DEF Orderly
    <2>4. ~Detaching(f, g)'
      <3>1. \A d \in Callers : Detaches(call[d], f, g) => d = c
        BY <2>1 DEF Orderly, Handles
      <3>2. ~Detaches(k, f, g)
        OBVIOUS
      <3>3. QED  BY <3>1, <3>2, OthersKept
    <2>5. \A u \in Forwarders : Name[u] = Name[f] => ~Member(u, g)' /\ g \notin joined'[u]
      BY <1>2, <2>2, <2>3, <2>4 DEF Member
    <2>6. (\A d, e \in Callers : Handles(call[d], v, h) /\ Handles(call[e], v, h) => d = e)'
      <3>1. \A d, e \in Callers : Handles(call'[d], v, h) /\ Handles(call'[e], v, h) => d = e
        BY <1>2, <1>4 DEF Orderly
      <3>2. QED  BY <3>1 DEF Handles, Attaches, Detaches
    <2>7. ~Attaching(v, h)' /\ v \notin updaters'[h]
      BY <1>1, <1>2, <1>4, <1>5, <2>5 DEF Orderly
    <2>8. QED  BY <1>5, <2>5, <2>6, <2>7 DEF Orderly
  <1>6. CASE ~(h = g /\ Name[v] = Name[f])
    <2>1. \A u \in Forwarders : Name[u] = Name[v] =>
            /\ Attaching(u, h)' <=> Attaching(u, h)
            /\ Detaching(u, h)' <=> Detaching(u, h)
      <3> SUFFICES ASSUME NEW u \in Forwarders, Name[u] = Name[v]
                   PROVE  /\ Attaching(u, h)' <=> Attaching(u, h)
                          /\ Detaching(u, h)' <=> Detaching(u, h)
        OBVIOUS
      <3>1. ~(u = f /\ h = g)
        BY <1>6
      <3>2. (Detaches(k, u, h) <=> Detaches(call[c], u, h)) /\ (Attaches(k, u, h) <=> Attaches(call[c], u, h))
        BY <3>1
      <3>3. QED  BY <3>2, SameOnTheWay
    <2>2. v \in updaters'[h] <=> v \in updaters[h]
      BY <1>1, <1>6
    <2>3. QED  BY <1>2, <1>4, <2>1, <2>2, Undisturbed
  <1>7. QED  BY <1>5, <1>6

(* Nothing has crossed, and nobody is in a group, before the first call.   *)
LEMMA InOrderInit == Init => InOrder
  BY OnTheWay DEF Init, InOrder, Orderly, Member, Handles, Attaches, Detaches, Idle

(* The two maps stay in order for whoever does not cross another call: a   *)
(* step that changes one of them is one of a call that changes the other   *)
(* (forward.go 74-90, 168-205, backend.go 159-175, 260-292).               *)
LEMMA InOrderStep == TypeOK /\ InOrder /\ [Next]_vars => InOrder'
  <1> SUFFICES ASSUME TypeOK, InOrder, [Next]_vars
               PROVE  InOrder'
    OBVIOUS
  <1>1. ASSUME UNCHANGED <<joined, updaters, closed, call, crossed>>
        PROVE  InOrder'
    BY <1>1, InOrderApart
  <1>2. ASSUME NEW c \in Callers, NEW k, call' = [call EXCEPT ![c] = k],
               UNCHANGED <<joined, updaters, closed, crossed>>,
               \A f, g : ~Handles(call[c], f, g) /\ ~Handles(k, f, g)
        PROVE  InOrder'
    BY <1>2, InOrderApart
  <1>3. ASSUME NEW c \in Callers, NEW f \in Forwarders, NEW g \in Groups, ForwarderJoinGroup(c, f, g)
        PROVE  InOrder'
    <2> DEFINE k == [op |-> "attach", f |-> f, g |-> g]
    <2>1. /\ call[c] = Idle /\ call' = [call EXCEPT ![c] = k] /\ crossed' = CrossedBy(f, {g})
          /\ UNCHANGED <<updaters, closed>> /\ joined' = [joined EXCEPT ![f] = @ \cup {g}]
      BY <1>3 DEF ForwarderJoinGroup, Begin
    <2>2. Moves(f, {g}, TRUE, k)
      BY <2>1 DEF Moves, TypeOK, Attaches, Detaches
    <2>3. {g} \in SUBSET Groups /\ TRUE \in BOOLEAN /\ closed \subseteq closed'
      BY <2>1
    <2> HIDE DEF k
    <2>4. QED  BY <2>1, <2>2, <2>3, InOrderBegins
  <1>4. ASSUME NEW c \in Callers, NEW f \in Forwarders, NEW g \in Groups, ForwarderLeaveGroup(c, f, g)
        PROVE  InOrder'
    <2> DEFINE k == [op |-> "detach", f |-> f, g |-> g]
    <2>1. /\ call[c] = Idle /\ call' = [call EXCEPT ![c] = k] /\ crossed' = CrossedBy(f, {g})
          /\ UNCHANGED <<updaters, closed>> /\ joined' = [joined EXCEPT ![f] = @ \ {g}]
      BY <1>4 DEF ForwarderLeaveGroup, Begin
    <2>2. Moves(f, {g}, FALSE, k)
      BY <2>1 DEF Moves, TypeOK, Attaches, Detaches
    <2> HIDE DEF k
    <2>3. {g} \in SUBSET Groups /\ FALSE \in BOOLEAN /\ closed \subseteq closed'
      BY <2>1
    <2>4. QED  BY <2>1, <2>2, <2>3, InOrderBegins
  <1>5. ASSUME NEW c \in Callers, NEW f \in Forwarders, ForwarderClose(c, f)
        PROVE  InOrder'
    <2> DEFINE k == [op |-> "fclose", f |-> f, left |-> joined[f]]
    <2>1. /\ call[c] = Idle /\ call' = [call EXCEPT ![c] = k] /\ crossed' = CrossedBy(f, joined[f])
          /\ UNCHANGED updaters /\ joined' = [joined EXCEPT ![f] = {}]
      BY <1>5 DEF ForwarderClose, Begin
    <2>2. Moves(f, joined[f], FALSE, k)
      BY <2>1 DEF Moves, TypeOK, Attaches, Detaches
    <2> HIDE DEF k
    <2>3. joined[f] \in SUBSET Groups /\ FALSE \in BOOLEAN /\ closed \subseteq closed'
      BY <1>5 DEF TypeOK, ForwarderClose
    <2>4. QED  BY <2>1, <2>2, <2>3, InOrderBegins
  <1>6. ASSUME NEW c \in Callers, GroupDelUpdater(c)
        PROVE  InOrder'
    <2>1. /\ call[c].op = "detach" /\ call[c].f \in Forwarders /\ call[c].g \in Groups
          /\ RemoveUpdater(call[c].f, call[c].g)
          /\ call' = [call EXCEPT ![c] = Idle] /\ UNCHANGED <<joined, closed, crossed>>
      BY <1>6, CallShape DEF GroupDelUpdater, Return, TypeOK
    <2>2. /\ \A v, h : Detaches(call[c], v, h) <=> v = call[c].f /\ h = call[c].g
          /\ \A v, h : ~Attaches(call[c], v, h) /\ ~Attaches(Idle, v, h) /\ ~Detaches(Idle, v, h)
      BY <2>1 DEF Detaches, Attaches, Idle
    <2>3. QED  BY <2>1, <2>2, InOrderDetaches
  <1>7. ASSUME NEW c \in Callers, ForwarderCloseGroup(c)
        PROVE  InOrder'
    <2>1. PICK g \in call[c].left :
            RemoveUpdater(call[c].f, g) /\ call' = [call EXCEPT ![c].left = @ \ {g}]
      BY <1>7 DEF ForwarderCloseGroup
    <2> DEFINE k == [call[c] EXCEPT !.left = @ \ {g}]
    <2>2. /\ call[c] \in [op : {"fclose"}, f : Forwarders, left : SUBSET Groups]
          /\ UNCHANGED <<joined, closed, crossed>>
      <3>1. call[c].op = "fclose" /\ call[c] \in PendingCalls
        BY <1>7 DEF ForwarderCloseGroup, TypeOK
      <3>2. QED  BY <1>7, <3>1 DEF PendingCalls, Idle, ForwarderCloseGroup
    <2>3. /\ call' = [call EXCEPT ![c] = k]
          /\ call[c].op = "fclose" /\ call[c].f \in Forwarders /\ g \in Groups
          /\ k.op = "fclose" /\ k.f = call[c].f /\ k.left = call[c].left \ {g}
      BY <2>1, <2>2
    <2> HIDE DEF k
    <2>4. /\ Detaches(call[c], call[c].f, g)
          /\ \A v, h : Detaches(k, v, h) <=> Detaches(call[c], v, h) /\ ~(v = call[c].f /\ h = g)
          /\ \A v, h : ~Attaches(call[c], v, h) /\ ~Attaches(k, v, h)
      BY <2>3 DEF Detaches, Attaches
    <2>5. QED  BY <2>1, <2>2, <2>3, <2>4, InOrderDetaches
  <1>8. ASSUME NEW c \in Callers, ForwarderCloseEnd(c)
        PROVE  InOrder'
    <2>1. /\ call[c].op = "fclose" /\ call[c].left = {} /\ call' = [call EXCEPT ![c] = Idle]
          /\ UNCHANGED <<joined, updaters, closed, crossed>>
      BY <1>8 DEF ForwarderCloseEnd, Return
    <2>2. \A v, h : ~Handles(call[c], v, h) /\ ~Handles(Idle, v, h)
      BY <2>1 DEF Handles, Attaches, Detaches, Idle
    <2>3. QED  BY <1>2, <2>1, <2>2
  <1>9. ASSUME NEW c \in Callers, NEW g \in Groups, GroupClose(c, g)
        PROVE  InOrder'
    <2> DEFINE k == [op |-> "gstop", g |-> g, left |-> updaters[g], ids |-> Registered(g)]
    <2>1. /\ call[c] = Idle /\ call' = [call EXCEPT ![c] = k] /\ UNCHANGED <<joined, crossed>>
          /\ closed' = closed \cup {g} /\ updaters' = [updaters EXCEPT ![g] = {}]
      BY <1>9 DEF GroupClose, Begin
    <2>2. \A v, h : ~Handles(call[c], v, h) /\ ~Handles(k, v, h)
      BY <2>1 DEF Handles, Attaches, Detaches, Idle
    <2> HIDE DEF k
    <2>3. \A v \in Forwarders, h \in Groups :
            /\ v \in updaters'[h] => v \in updaters[h]
            /\ v \in updaters[h] => v \in updaters'[h] \/ h \in closed'
      BY <2>1 DEF TypeOK
    <2>4. QED  BY <2>1, <2>2, <2>3, InOrderApart
  <1>10. ASSUME NEW c \in Callers,
                \/ \E f \in Forwarders, b \in Backends : ForwarderDelBackend(c, f, b)
                \/ \E g \in Groups, b \in Backends : GroupDelBackend(c, g, b)
         PROVE  InOrder'
    <2>1. PICK k : call[c] = Idle /\ call' = [call EXCEPT ![c] = k] /\ k.op \notin {"attach", "detach", "fclose"}
      <3>1. ASSUME NEW f \in Forwarders, NEW b \in Backends, ForwarderDelBackend(c, f, b)
            PROVE  \E k : Begin(c, k) /\ k.op \in {"drop", "forget", "idle"}
        <4>1. /\ Begin(c, [op |-> "drop", f |-> f, b |-> b])
              /\ [op |-> "drop", f |-> f, b |-> b].op = "drop"
          BY <3>1 DEF ForwarderDelBackend
        <4>2. QED  BY <4>1
      <3>2. ASSUME NEW g \in Groups, NEW b \in Backends, GroupDelBackend(c, g, b)
            PROVE  \E k : Begin(c, k) /\ k.op \in {"drop", "forget", "idle"}
        <4>1. Begin(c, IF reg[g][b] = "checked" THEN [op |-> "forget", g |-> g, b |-> b] ELSE Idle)
          BY <3>2 DEF GroupDelBackend
        <4>2. [op |-> "forget", g |-> g, b |-> b].op = "forget" /\ Idle.op = "idle"
          BY DEF Idle
        <4>3. QED  BY <4>1, <4>2
      <3>3. \E k : Begin(c, k) /\ k.op \in {"drop", "forget", "idle"}
        BY <1>10, <3>1, <3>2
      <3>4. QED  BY <3>3 DEF Begin
    <2>2. \A v, h : ~Handles(call[c], v, h) /\ ~Handles(k, v, h)
      BY <2>1 DEF Handles, Attaches, Detaches, Idle
    <2>3. UNCHANGED <<joined, updaters, closed, crossed>>
      BY <1>10 DEF ForwarderDelBackend, GroupDelBackend
    <2>4. QED  BY <1>2, <2>1, <2>2, <2>3
  <1>11. ASSUME NEW c \in Callers,
                ForwarderDropEndpoint(c) \/ GroupForget(c) \/ GroupCloseEnd(c)
         PROVE  InOrder'
    <2>1. /\ call[c].op \in {"drop", "forget", "gclose"} /\ call' = [call EXCEPT ![c] = Idle]
          /\ UNCHANGED <<joined, updaters, closed, crossed>>
      BY <1>11 DEF ForwarderDropEndpoint, GroupForget, GroupCloseEnd, Return
    <2>2. \A v, h : ~Handles(call[c], v, h) /\ ~Handles(Idle, v, h)
      BY <2>1 DEF Handles, Attaches, Detaches, Idle
    <2>3. QED  BY <1>2, <2>1, <2>2
  <1>12. ASSUME NEW c \in Callers, GroupCloseStop(c) \/ GroupCloseUpdater(c)
         PROVE  InOrder'
    <2>1. call[c] \in [op : {"gstop", "gclose"}, g : Groups, left : SUBSET Forwarders,
                       ids : SUBSET Backends]
      BY <1>12, CloseShape DEF GroupCloseStop, GroupCloseUpdater, TypeOK
    <2>2. PICK k : call' = [call EXCEPT ![c] = k] /\ k.op = "gclose"
      <3>1. CASE GroupCloseStop(c)
        <4>1. call' = [call EXCEPT ![c] = [call[c] EXCEPT !.op = "gclose"]]
          BY <3>1 DEF GroupCloseStop, TypeOK
        <4>2. [call[c] EXCEPT !.op = "gclose"].op = "gclose"
          BY <2>1
        <4>3. QED  BY <4>1, <4>2
      <3>2. CASE GroupCloseUpdater(c)
        <4>1. PICK u : call' = [call EXCEPT ![c].left = @ \ {u}]
          BY <3>2 DEF GroupCloseUpdater
        <4>2. call' = [call EXCEPT ![c] = [call[c] EXCEPT !.left = call[c].left \ {u}]]
          BY <4>1 DEF TypeOK
        <4>3. [call[c] EXCEPT !.left = call[c].left \ {u}].op = "gclose"
          BY <2>1, <3>2 DEF GroupCloseUpdater
        <4>4. QED  BY <4>2, <4>3
      <3>3. QED  BY <1>12, <3>1, <3>2
    <2>3. \A v, h : ~Handles(call[c], v, h) /\ ~Handles(k, v, h)
      BY <2>1, <2>2 DEF Handles, Attaches, Detaches
    <2>4. UNCHANGED <<joined, updaters, closed, crossed>>
      BY <1>12 DEF GroupCloseStop, GroupCloseUpdater
    <2>5. QED  BY <1>2, <2>2, <2>3, <2>4
  <1>13. ASSUME NEW c \in Callers, GroupAddUpdater(c)
         PROVE  InOrder'
    BY <1>13, InOrderAttaches
  <1>14. ASSUME \/ \E f \in Forwarders, b \in Backends, m \in Modes : ForwarderAddBackend(f, b, m)
                \/ \E g \in Groups, b \in Backends, m \in Modes : GroupAddBackend(g, b, m)
                \/ Checker
                \/ UNCHANGED vars
         PROVE  InOrder'
    <2>1. UNCHANGED <<joined, updaters, closed, call, crossed>>
      BY <1>14 DEF Checker, vars, ForwarderAddBackend, GroupAddBackend, CheckEndpoint, ReportUp, ReportDown
    <2>2. QED  BY <1>1, <2>1
  <1>15. QED
    BY <1>3, <1>4, <1>5, <1>6, <1>7, <1>8, <1>9, <1>10, <1>11, <1>12, <1>13, <1>14
       DEF Next, Continue

(* The two maps are in order in every state, for whoever has not crossed.  *)
LEMMA InOrderHolds == Spec => []InOrder
  <1>1. Init => TypeOK /\ InOrder
    BY TypeInit, InOrderInit
  <1>2. TypeOK /\ InOrder /\ [Next]_vars => (TypeOK /\ InOrder)'
    BY TypeStep, InOrderStep
  <1>3. QED  BY <1>1, <1>2, PTL DEF Spec

(* A forwarder that lists an open group is one of its updaters once        *)
(* AddBackendGroup has returned, unless its calls crossed others           *)
(* (forward.go 168-205, backend.go 260-292).                               *)
THEOREM ListedFed == Spec => []ListedIsFed
  <1>1. TypeOK /\ InOrder => ListedIsFed
    BY DEF TypeOK, InOrder, Orderly, ListedIsFed
  <1>2. QED  BY <1>1, TypeCorrect, InOrderHolds, PTL

(* A group feeds only forwarders that list it once DelBackendByID or Close *)
(* of the forwarder has returned, unless its calls crossed others          *)
(* (forward.go 74-90, 189-205).                                            *)
THEOREM FedListed == Spec => []FedIsListed
  <1>1. TypeOK /\ InOrder => FedIsListed
    BY DEF TypeOK, InOrder, Orderly, Member, FedIsListed
  <1>2. QED  BY <1>1, TypeCorrect, InOrderHolds, PTL
=============================================================================
