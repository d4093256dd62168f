------------------------- MODULE HostManagersProofs -------------------------
(* Proofs about HostManagers, for any number of callers, hosts and groups. *)
EXTENDS HostManagers, FiniteSetTheorems, TLAPS

USE NoneAssumption, BoundAssumption

-----------------------------------------------------------------------------
(* Calls                                                                   *)

(* The records that the actions build are calls.                           *)
LEMMA CallTypes ==
  /\ Idle \in Calls
  /\ \A h \in Hosts : [op |-> "add", host |-> h] \in Calls /\ [op |-> "delete", host |-> h] \in Calls
  /\ \A m \in Managers : /\ [op |-> "close", mgr |-> m] \in Calls
                         /\ [op |-> "have", mgr |-> m] \in Calls
                         /\ [op |-> "shut", mgr |-> m] \in Calls
                         /\ [op |-> "look", mgr |-> m] \in Calls
  /\ \A l \in SUBSET Groups : /\ [op |-> "closing", left |-> l] \in Calls
                              /\ [op |-> "shutting", left |-> l] \in Calls
  /\ \A m \in Managers, g \in Groups, w \in {"new", "loose"} :
       [op |-> "add group", mgr |-> m, group |-> g, was |-> w] \in Calls
  /\ \A m \in Managers, n \in Names : [op |-> "delete group", mgr |-> m, name |-> n] \in Calls
  BY DEF Calls

(* What a call carries, by its operation.                                  *)
LEMMA CallShape ==
  ASSUME NEW k \in Calls
  PROVE  /\ k.op \in {"idle", "add", "delete", "close", "have", "shut", "look", "closing", "shutting",
                      "add group", "delete group"}
         /\ k.op = "idle" => k = Idle
         /\ k.op \in {"add", "delete"} => k.host \in Hosts
         /\ k.op \in {"close", "have", "shut", "look", "add group", "delete group"} => k.mgr \in Managers
         /\ k.op \in {"closing", "shutting"} =>
              /\ k.left \in SUBSET Groups
              /\ \A g : [k EXCEPT !.left = k.left \ {g}] = [op |-> k.op, left |-> k.left \ {g}]
         /\ k.op = "add group" => k.group \in Groups /\ k.was \in {"new", "loose"}
         /\ k.op = "delete group" => k.name \in Names
  <1>1. CASE k = Idle
    BY <1>1 DEF Idle
  <1>2. CASE k \in [op : {"add", "delete"}, host : Hosts]
    BY <1>2
  <1>3. CASE k \in [op : {"close", "have", "shut", "look"}, mgr : Managers]
    BY <1>3
  <1>4. CASE k \in [op : {"closing", "shutting"}, left : SUBSET Groups]
    <2>1. k = [op |-> k.op, left |-> k.left] /\ k.op \in {"closing", "shutting"} /\ k.left \in SUBSET Groups
      BY <1>4
    <2>2. \A g : [k EXCEPT !.left = k.left \ {g}] = [op |-> k.op, left |-> k.left \ {g}]
      BY <2>1
    <2>3. QED  BY <2>1, <2>2
  <1>5. CASE k \in [op : {"add group"}, mgr : Managers, group : Groups, was : {"new", "loose"}]
    BY <1>5
  <1>6. CASE k \in [op : {"delete group"}, mgr : Managers, name : Names]
    BY <1>6
  <1>7. QED  BY <1>1, <1>2, <1>3, <1>4, <1>5, <1>6 DEF Calls

(* What closing a manager makes of the call.                               *)
After(c) == IF call[c].op = "close" THEN "closing" ELSE "shutting"

(* A manager is closed: the call has its groups in hand.                   *)
LEMMA ClosesManager ==
  ASSUME TypeOK, NEW c \in Callers, CloseManager(c)
  PROVE  /\ call[c].op \in {"close", "shut"} /\ call[c].mgr \in Managers
         /\ groups' = [groups EXCEPT ![call[c].mgr] = None]
         /\ Managed(call[c].mgr) \in SUBSET Groups
         /\ call' = [call EXCEPT ![c] = [op |-> After(c), left |-> Managed(call[c].mgr)]]
         /\ call' = [call EXCEPT ![c] = call'[c]]
         /\ call'[c].op = After(c) /\ call'[c].left = Managed(call[c].mgr)
         /\ UNCHANGED <<hosts, glock, bgms, made, stuck, life, raced>>
  <1>1. call[c].op \in {"close", "shut"}
    BY DEF CloseManager
  <1>2. call[c].mgr \in Managers
    BY <1>1, CallShape DEF TypeOK
  <1>3. Managed(call[c].mgr) \in SUBSET Groups
    BY <1>2 DEF Managed, TypeOK
  <1>4. call' = [call EXCEPT ![c] = [op |-> After(c), left |-> Managed(call[c].mgr)]]
    BY DEF CloseManager, After
  <1>5. call'[c] = [op |-> After(c), left |-> Managed(call[c].mgr)]
    BY <1>4 DEF TypeOK
  <1>6. call' = [call EXCEPT ![c] = call'[c]]
    BY <1>4, <1>5
  <1>7. call'[c].op = After(c) /\ call'[c].left = Managed(call[c].mgr)
    BY <1>5
  <1>8. QED  BY <1>1, <1>2, <1>3, <1>4, <1>6, <1>7 DEF CloseManager

(* A group is closed, and the call goes on.                                *)
LEMMA ClosesGroup ==
  ASSUME TypeOK, NEW c \in Callers, CloseGroup(c)
  PROVE  /\ call[c].op \in {"closing", "shutting"} /\ call[c].left \in SUBSET Groups
         /\ UNCHANGED <<hosts, glock, bgms, made, groups, stuck, raced>>
         /\ call' = [call EXCEPT ![c] = call'[c]] /\ call'[c].op = call[c].op
         /\ \E g \in call[c].left :
              /\ life' = [life EXCEPT ![g] = "closed"]
              /\ call' = [call EXCEPT ![c] = [op |-> call[c].op, left |-> call[c].left \ {g}]]
  <1>1. PICK g \in call[c].left : /\ life' = [life EXCEPT ![g] = "closed"]
                                  /\ call' = [call EXCEPT ![c].left = @ \ {g}]
    BY DEF CloseGroup
  <1>2. call[c].op \in {"closing", "shutting"} /\ call[c] \in Calls
    BY DEF CloseGroup, TypeOK
  <1>3. call[c].left \in SUBSET Groups
    BY <1>2, CallShape
  <1>4. [call[c] EXCEPT !.left = call[c].left \ {g}] = [op |-> call[c].op, left |-> call[c].left \ {g}]
    BY <1>2, CallShape
  <1>5. call' = [call EXCEPT ![c] = [op |-> call[c].op, left |-> call[c].left \ {g}]]
    BY <1>1, <1>4
  <1>6. call' = [call EXCEPT ![c] = call'[c]] /\ call'[c].op = call[c].op
    BY <1>5 DEF TypeOK
  <1>7. QED  BY <1>1, <1>2, <1>3, <1>5, <1>6 DEF CloseGroup

-----------------------------------------------------------------------------
(* Types                                                                   *)

(* The bound leaves a manager for each call that is adding a host.         *)
Adding == {d \in Callers : call[d].op = "add"}
Room == IsFiniteSet(Adding) /\ made + Cardinality(Adding) <= MaxManagers

(* A manager of a host, and one that DelHost is about to close, was made;  *)
(* no two hosts have the same one, and none has one that DelHost is about  *)
(* to close.                                                               *)
Apart ==
  /\ \A h \in Hosts : bgms[h] # None => bgms[h] <= made
  /\ \A g, h \in Hosts : bgms[g] # None /\ bgms[g] = bgms[h] => g = h
  /\ \A c \in Callers : call[c].op = "close" =>
       call[c].mgr <= made /\ \A h \in Hosts : bgms[h] # call[c].mgr

Typed == TypeOK /\ Room

(* The types hold before the first call.                                   *)
LEMMA TypedInit == Init => Typed
  <1> SUFFICES ASSUME Init
               PROVE  Typed
    OBVIOUS
  <1>1. Adding = {}
    BY DEF Init, Adding, Idle
  <1>2. Room
    BY <1>1, FS_EmptySet DEF Room, Init
  <1>3. /\ groups \in [Managers -> [Names -> Groups \cup {None}] \cup {None}]
        /\ call \in [Callers -> Calls]
    BY CallTypes DEF Init, Empty
  <1>4. \A c \in Callers : glock = c <=> call[c].op \in {"close", "closing"}
    BY DEF Init, Idle
  <1>5. /\ hosts \subseteq Hosts
        /\ glock \in Callers \cup {None}
        /\ bgms \in [Hosts -> Managers \cup {None}]
        /\ made \in 0..MaxManagers
        /\ stuck \subseteq Managers
        /\ life \in [Groups -> {"new", "passed", "managed", "loose", "closed"}]
        /\ raced \subseteq Hosts
    BY DEF Init
  <1>6. QED  BY <1>2, <1>3, <1>4, <1>5 DEF Typed, TypeOK

(* A call that is no AddHost takes no room.                                *)
LEMMA RoomKept ==
  ASSUME Room, \A d \in Callers : call'[d].op = "add" <=> call[d].op = "add", made' = made
  PROVE  Room'
  <1>1. Adding' = Adding
    BY DEF Adding
  <1>2. QED  BY <1>1 DEF Room

(* Nobody else holds g.lock.                                               *)
LEMMA OneHolder ==
  ASSUME TypeOK, NEW c \in Callers, call[c].op \in {"close", "closing"}
  PROVE  glock = c /\ \A d \in Callers \ {c} : call[d].op \notin {"close", "closing"}
  BY DEF TypeOK

(* Every step keeps the types, and a call that adds a host leaves room for *)
(* the others that do.                                                     *)
LEMMA TypedStep == Typed /\ [Next]_vars => Typed'
  <1> SUFFICES ASSUME Typed, [Next]_vars
               PROVE  Typed'
    OBVIOUS
  <1> USE DEF Typed
  <1>1. CASE UNCHANGED vars
    BY <1>1 DEF vars, TypeOK, Room, Adding
  <1>2. ASSUME NEW c \in Callers, NEW h \in Hosts, AddHost(c, h)
        PROVE  Typed'
    <2>1. /\ call[c] = Idle /\ made + Cardinality(Adding) < MaxManagers /\ made' = made
          /\ call' = [call EXCEPT ![c] = [op |-> "add", host |-> h]]
      BY <1>2 DEF AddHost, Adding
    <2>2. Adding' = Adding \cup {c} /\ c \notin Adding
      BY <2>1 DEF Adding, TypeOK, Idle
    <2>3. IsFiniteSet(Adding') /\ Cardinality(Adding') = Cardinality(Adding) + 1
      BY <2>2, FS_AddElement DEF Room
    <2>4. Cardinality(Adding) \in Nat
      BY FS_CardinalityType DEF Room
    <2>5. Room'
      BY <2>1, <2>3, <2>4 DEF Room, TypeOK
    <2>6. call' \in [Callers -> Calls] /\ raced' \subseteq Hosts
      <3>1. call'[c] \in Calls /\ call' = [call EXCEPT ![c] = call'[c]]
        BY <2>1, CallTypes DEF TypeOK
      <3>2. call' \in [Callers -> Calls]
        BY <3>1 DEF TypeOK
      <3>3. raced' \subseteq Hosts
        BY <1>2 DEF AddHost, NoteRace, TypeOK
      <3>4. QED  BY <3>2, <3>3
    <2>7. \A d \in Callers : glock' = d <=> call'[d].op \in {"close", "closing"}
      BY <1>2, <2>1 DEF AddHost, TypeOK, Idle
    <2>8. QED  BY <1>2, <2>5, <2>6, <2>7 DEF AddHost, TypeOK
  <1>3. ASSUME NEW c \in Callers, AddManager(c)
        PROVE  Typed'
    <2>1. /\ call[c].op = "add" /\ call[c].host \in Hosts
          /\ call' = [call EXCEPT ![c] = Idle]
          /\ \/ /\ made' = made + 1
                /\ bgms' = [bgms EXCEPT ![call[c].host] = made + 1]
             \/ UNCHANGED <<made, bgms>>
      BY <1>3, CallShape DEF AddManager, TypeOK
    <2>2. Adding' = Adding \ {c} /\ c \in Adding
      BY <2>1 DEF Adding, TypeOK, Idle
    <2>3. IsFiniteSet(Adding') /\ Cardinality(Adding') = Cardinality(Adding) - 1
      BY <2>2, FS_RemoveElement DEF Room
    <2>4. Cardinality(Adding) \in Nat /\ Cardinality(Adding') \in Nat
      BY <2>3, FS_CardinalityType DEF Room
    <2>5. Room' /\ made' \in 0..MaxManagers
      BY <2>1, <2>3, <2>4 DEF Room, TypeOK
    <2>6. bgms' \in [Hosts -> Managers \cup {None}]
      BY <2>1, <2>5 DEF TypeOK, Managers
    <2>7. call' \in [Callers -> Calls]
      BY <2>1, CallTypes DEF TypeOK
    <2>8. \A d \in Callers : glock' = d <=> call'[d].op \in {"close", "closing"}
      BY <1>3, <2>1 DEF AddManager, TypeOK, Idle
    <2>9. QED  BY <1>3, <2>5, <2>6, <2>7, <2>8 DEF AddManager, TypeOK
  <1>4. ASSUME NEW c \in Callers, NEW h \in Hosts, DelHost(c, h)
        PROVE  Typed'
    <2>1. call[c] = Idle /\ call' = [call EXCEPT ![c] = [op |-> "delete", host |-> h]] /\ made' = made
      BY <1>4 DEF DelHost
    <2>2. Room'
      BY <2>1, RoomKept DEF TypeOK, Idle
    <2>3. call' \in [Callers -> Calls] /\ raced' \subseteq Hosts
      <3>1. call'[c] \in Calls /\ call' = [call EXCEPT ![c] = call'[c]]
        BY <2>1, CallTypes DEF TypeOK
      <3>2. call' \in [Callers -> Calls]
        BY <3>1 DEF TypeOK
      <3>3. raced' \subseteq Hosts
        BY <1>4 DEF DelHost, NoteRace, TypeOK
      <3>4. QED  BY <3>2, <3>3
    <2>4. \A d \in Callers : glock' = d <=> call'[d].op \in {"close", "closing"}
      BY <1>4, <2>1 DEF DelHost, TypeOK, Idle
    <2>5. QED  BY <1>4, <2>2, <2>3, <2>4 DEF DelHost, TypeOK
  <1>5. ASSUME NEW c \in Callers, DelManager(c)
        PROVE  Typed'
    <2>1. call[c].op = "delete" /\ call[c].host \in Hosts /\ glock = None /\ made' = made
      BY <1>5, CallShape DEF DelManager, TypeOK
    <2>2. CASE bgms[call[c].host] = None
      <3>1. call' = [call EXCEPT ![c] = Idle] /\ UNCHANGED <<glock, bgms>>
        BY <1>5, <2>2 DEF DelManager
      <3>2. Room'
        BY <2>1, <3>1, RoomKept DEF TypeOK, Idle
      <3>3. call' \in [Callers -> Calls]
        BY <3>1, CallTypes DEF TypeOK
      <3>4. \A d \in Callers : glock' = d <=> call'[d].op \in {"close", "closing"}
        BY <2>1, <3>1 DEF TypeOK, Idle
      <3>5. QED  BY <1>5, <3>1, <3>2, <3>3, <3>4 DEF DelManager, TypeOK
    <2>3. CASE bgms[call[c].host] # None
      <3> DEFINE m == bgms[call[c].host]
      <3>1. /\ glock' = c /\ bgms' = [bgms EXCEPT ![call[c].host] = None] /\ m \in Managers
            /\ call' = [call EXCEPT ![c] = [op |-> "close", mgr |-> m]]
        BY <1>5, <2>1, <2>3 DEF DelManager, ForgetManager, TypeOK
      <3>2. Room'
        BY <2>1, <3>1, RoomKept DEF TypeOK
      <3>3. call' \in [Callers -> Calls]
        BY <3>1, CallTypes DEF TypeOK
      <3>4. \A d \in Callers : glock' = d <=> call'[d].op \in {"close", "closing"}
        BY <2>1, <3>1 DEF TypeOK
      <3>5. QED  BY <1>5, <3>1, <3>2, <3>3, <3>4 DEF DelManager, TypeOK
    <2>4. QED  BY <2>2, <2>3
  <1>6. ASSUME NEW c \in Callers, CloseManager(c)
        PROVE  Typed'
    <2>1. /\ call[c].op \in {"close", "shut"} /\ After(c) # "add"
          /\ groups' = [groups EXCEPT ![call[c].mgr] = None]
          /\ call' = [call EXCEPT ![c] = call'[c]] /\ call'[c].op = After(c)
          /\ UNCHANGED <<hosts, glock, bgms, made, stuck, life, raced>>
      BY <1>6, ClosesManager DEF After
    <2>2. Room'
      BY <2>1, RoomKept DEF TypeOK
    <2>3. call' \in [Callers -> Calls]
      <3>1. call'[c] = [op |-> After(c), left |-> Managed(call[c].mgr)]
        BY <1>6, ClosesManager DEF TypeOK
      <3>2. After(c) \in {"closing", "shutting"} /\ Managed(call[c].mgr) \in SUBSET Groups
        BY <1>6, ClosesManager DEF After
      <3>3. call'[c] \in Calls
        BY <3>1, <3>2, CallTypes
      <3>4. QED  BY <2>1, <3>3 DEF TypeOK
    <2>4. \A d \in Callers : glock' = d <=> call'[d].op \in {"close", "closing"}
      BY <2>1 DEF After, TypeOK
    <2>5. groups' \in [Managers -> [Names -> Groups \cup {None}] \cup {None}]
      BY <2>1 DEF TypeOK
    <2>6. QED  BY <2>1, <2>2, <2>3, <2>4, <2>5 DEF TypeOK
  <1>7. ASSUME NEW c \in Callers, CloseGroup(c)
        PROVE  Typed'
    <2>1. PICK g \in call[c].left :
            /\ life' = [life EXCEPT ![g] = "closed"]
            /\ call' = [call EXCEPT ![c] = [op |-> call[c].op, left |-> call[c].left \ {g}]]
      BY <1>7, ClosesGroup
    <2>2. /\ call[c].op \in {"closing", "shutting"} /\ call[c].left \in SUBSET Groups
          /\ UNCHANGED <<hosts, glock, bgms, made, groups, stuck, raced>>
          /\ call' = [call EXCEPT ![c] = call'[c]] /\ call'[c].op = call[c].op
      BY <1>7, ClosesGroup
    <2>3. Room'
      BY <2>2, RoomKept DEF TypeOK
    <2>4. call' \in [Callers -> Calls]
      <3>1. [op |-> call[c].op, left |-> call[c].left \ {g}] \in Calls
        BY <2>2, CallTypes
      <3>2. QED  BY <2>1, <3>1 DEF TypeOK
    <2>5. \A d \in Callers : glock' = d <=> call'[d].op \in {"close", "closing"}
      BY <2>2 DEF TypeOK
    <2>6. life' \in [Groups -> {"new", "passed", "managed", "loose", "closed"}]
      BY <2>1 DEF TypeOK
    <2>7. QED  BY <2>2, <2>3, <2>4, <2>5, <2>6 DEF TypeOK
  <1>8. ASSUME NEW c \in Callers, DelHostEnd(c)
        PROVE  Typed'
    <2>1. call[c].op = "closing" /\ call' = [call EXCEPT ![c] = Idle] /\ glock' = None /\ made' = made
      BY <1>8 DEF DelHostEnd, Release
    <2>2. Room'
      BY <2>1, RoomKept DEF TypeOK, Idle
    <2>3. call' \in [Callers -> Calls]
      BY <2>1, CallTypes DEF TypeOK
    <2>4. \A d \in Callers : glock' = d <=> call'[d].op \in {"close", "closing"}
      BY <2>1, OneHolder DEF TypeOK, Idle
    <2>5. QED  BY <1>8, <2>1, <2>2, <2>3, <2>4 DEF DelHostEnd, TypeOK
  <1>9. ASSUME NEW c \in Callers, call[c].op \notin {"add", "close", "closing"},
               call' = [call EXCEPT ![c] = call'[c]], call'[c] \in Calls,
               call'[c].op \notin {"add", "close", "closing"},
               life' \in [Groups -> {"new", "passed", "managed", "loose", "closed"}],
               groups' \in [Managers -> [Names -> Groups \cup {None}] \cup {None}],
               stuck' \subseteq Managers,
               UNCHANGED <<hosts, glock, bgms, made, raced>>
        PROVE  Typed'
    <2>1. Room'
      BY <1>9, RoomKept DEF TypeOK
    <2>2. call' \in [Callers -> Calls]
      BY <1>9 DEF TypeOK
    <2>3. \A d \in Callers : glock' = d <=> call'[d].op \in {"close", "closing"}
      BY <1>9 DEF TypeOK
    <2>4. QED  BY <1>9, <2>1, <2>2, <2>3 DEF TypeOK
  <1>10. ASSUME NEW c \in Callers, NEW h \in Hosts, GetBackendGroupManager(c, h)
         PROVE  Typed'
    <2>1. bgms[h] \in Managers /\ call[c].op = "idle"
      BY <1>10 DEF GetBackendGroupManager, TypeOK, Idle
    <2>2. call'[c] = [op |-> "have", mgr |-> bgms[h]] /\ call' = [call EXCEPT ![c] = call'[c]]
      BY <1>10 DEF GetBackendGroupManager, TypeOK
    <2>3. call'[c] \in Calls
      BY <2>1, <2>2, CallTypes
    <2>4. QED  BY <1>9, <1>10, <2>1, <2>2, <2>3 DEF GetBackendGroupManager, TypeOK
  <1>11. ASSUME NEW c \in Callers, NEW g \in Groups, BeginAdd(c, g)
         PROVE  Typed'
    <2>1. call[c].op = "have" /\ call[c].mgr \in Managers /\ life[g] \in {"new", "loose"}
      BY <1>11, CallShape DEF BeginAdd, TypeOK
    <2>2. /\ call'[c] = [op |-> "add group", mgr |-> call[c].mgr, group |-> g, was |-> life[g]]
          /\ call' = [call EXCEPT ![c] = call'[c]]
      BY <1>11 DEF BeginAdd, TypeOK
    <2>3. call'[c] \in Calls
      <3>1. [op |-> "add group", mgr |-> call[c].mgr, group |-> g, was |-> life[g]] \in Calls
        BY <2>1, CallTypes, Zenon
      <3>2. QED  BY <2>2, <3>1
    <2>4. life' \in [Groups -> {"new", "passed", "managed", "loose", "closed"}]
      BY <1>11 DEF BeginAdd, TypeOK
    <2>5. QED  BY <1>9, <1>11, <2>1, <2>2, <2>3, <2>4 DEF BeginAdd, TypeOK
  <1>12. ASSUME NEW c \in Callers, NEW n \in Names, BeginDel(c, n)
         PROVE  Typed'
    <2>1. call[c].op = "have" /\ call[c].mgr \in Managers
      BY <1>12, CallShape DEF BeginDel, TypeOK
    <2>2. /\ call'[c] = [op |-> "delete group", mgr |-> call[c].mgr, name |-> n]
          /\ call' = [call EXCEPT ![c] = call'[c]]
      BY <1>12 DEF BeginDel, TypeOK
    <2>3. call'[c] \in Calls
      BY <2>1, <2>2, CallTypes
    <2>4. QED  BY <1>9, <1>12, <2>1, <2>2, <2>3 DEF BeginDel, TypeOK
  <1>13. ASSUME NEW c \in Callers, BeginLook(c)
         PROVE  Typed'
    <2>1. call[c].op = "have" /\ call[c].mgr \in Managers
      BY <1>13, CallShape DEF BeginLook, TypeOK
    <2>2. call'[c] = [op |-> "look", mgr |-> call[c].mgr] /\ call' = [call EXCEPT ![c] = call'[c]]
      BY <1>13 DEF BeginLook, TypeOK
    <2>3. call'[c] \in Calls
      BY <2>1, <2>2, CallTypes
    <2>4. QED  BY <1>9, <1>13, <2>1, <2>2, <2>3 DEF BeginLook, TypeOK
  <1>14. ASSUME NEW c \in Callers, Return(c)
         PROVE  call'[c] = Idle /\ call' = [call EXCEPT ![c] = call'[c]] /\ call'[c] \in Calls
    BY <1>14, CallTypes DEF Return, TypeOK
  <1>15. ASSUME NEW c \in Callers, call[c].op = "add group", GoesBack(c)
         PROVE  life' \in [Groups -> {"new", "passed", "managed", "loose", "closed"}]
    BY <1>15, CallShape DEF GoesBack, TypeOK
  <1>16. ASSUME NEW m \in Managers, NEW n \in Names, NEW g \in Groups \cup {None}, groups[m] # None, Store(m, n, g)
         PROVE  groups' \in [Managers -> [Names -> Groups \cup {None}] \cup {None}]
    <2>1. [x \in Names |-> IF x = n THEN g ELSE groups[m][x]] \in [Names -> Groups \cup {None}]
      BY <1>16 DEF TypeOK
    <2>2. QED  BY <1>16, <2>1 DEF Store, TypeOK
  <1>17. ASSUME NEW c \in Callers, AddBackendGroup(c)
         PROVE  Typed'
    <2>1. /\ call[c].op = "add group" /\ call[c].mgr \in Managers /\ call[c].group \in Groups
          /\ Name[call[c].group] \in Names
      BY <1>17, CallShape DEF AddBackendGroup, TypeOK, Names
    <2>2. /\ life' \in [Groups -> {"new", "passed", "managed", "loose", "closed"}]
          /\ groups' \in [Managers -> [Names -> Groups \cup {None}] \cup {None}]
      BY <1>15, <1>16, <1>17, <2>1 DEF AddBackendGroup, TypeOK
    <2>3. Return(c) /\ UNCHANGED <<hosts, glock, bgms, made, stuck, raced>>
      BY <1>17 DEF AddBackendGroup
    <2>4. call'[c].op = "idle" /\ call' = [call EXCEPT ![c] = call'[c]] /\ call'[c] \in Calls
      BY <1>14, <2>3 DEF Idle
    <2>5. QED  BY <1>9, <2>1, <2>2, <2>3, <2>4 DEF TypeOK
  <1>18. ASSUME NEW c \in Callers, AddPanics(c)
         PROVE  Typed'
    <2>1. call[c].op = "add group" /\ call[c].mgr \in Managers
      BY <1>18, CallShape DEF AddPanics, TypeOK
    <2>2. Return(c) /\ stuck' \subseteq Managers /\ UNCHANGED <<hosts, glock, bgms, made, groups, raced>>
      BY <1>18, <2>1 DEF AddPanics, TypeOK
    <2>3. life' \in [Groups -> {"new", "passed", "managed", "loose", "closed"}]
      BY <1>15, <1>18, <2>1 DEF AddPanics
    <2>4. call'[c].op = "idle" /\ call' = [call EXCEPT ![c] = call'[c]] /\ call'[c] \in Calls
      BY <1>14, <2>2 DEF Idle
    <2>5. QED  BY <1>9, <2>1, <2>2, <2>3, <2>4 DEF TypeOK
  <1>19. ASSUME NEW c \in Callers, DelBackendGroupByName(c)
         PROVE  Typed'
    <2>1. call[c].op = "delete group" /\ call[c].mgr \in Managers /\ call[c].name \in Names
      BY <1>19, CallShape DEF DelBackendGroupByName, TypeOK
    <2>2. Return(c) /\ UNCHANGED <<hosts, glock, bgms, made, stuck, raced>>
      BY <1>19 DEF DelBackendGroupByName, Unlock
    <2>3. /\ life' \in [Groups -> {"new", "passed", "managed", "loose", "closed"}]
          /\ groups' \in [Managers -> [Names -> Groups \cup {None}] \cup {None}]
      BY <1>16, <1>19, <2>1 DEF DelBackendGroupByName, TypeOK
    <2>4. call'[c].op = "idle" /\ call' = [call EXCEPT ![c] = call'[c]] /\ call'[c] \in Calls
      BY <1>14, <2>2 DEF Idle
    <2>5. QED  BY <1>9, <2>1, <2>2, <2>3, <2>4 DEF TypeOK
  <1>20. ASSUME NEW c \in Callers, Look(c) \/ Drop(c) \/ CloseEnd(c)
         PROVE  Typed'
    BY <1>9, <1>14, <1>20 DEF Look, Drop, CloseEnd, TypeOK, Idle
  <1>21. ASSUME NEW c \in Callers, BeginClose(c)
         PROVE  Typed'
    <2>1. call[c].op = "have" /\ call[c].mgr \in Managers
      BY <1>21, CallShape DEF BeginClose, TypeOK
    <2>2. call'[c] = [op |-> "shut", mgr |-> call[c].mgr] /\ call' = [call EXCEPT ![c] = call'[c]]
      BY <1>21 DEF BeginClose, TypeOK
    <2>3. call'[c] \in Calls
      BY <2>1, <2>2, CallTypes
    <2>4. QED  BY <1>9, <1>21, <2>1, <2>2, <2>3 DEF BeginClose, TypeOK
  <1>22. QED
    BY <1>1, <1>2, <1>3, <1>4, <1>5, <1>6, <1>7, <1>8, <1>10, <1>11, <1>12, <1>13, <1>17, <1>18, <1>19, <1>20, <1>21
       DEF Next, Start, TakeLock, Continue

(* There are no managers before the first call.                            *)
LEMMA ApartInit == Init => Apart
  BY DEF Init, Apart, Idle

(* A host gets a new manager, and DelHost closes only one that it took     *)
(* from its host (forward/lb/gateway.go 66-91).                            *)
LEMMA ApartStep == Typed /\ Apart /\ [Next]_vars => Apart'
  <1> SUFFICES ASSUME Typed, Apart, [Next]_vars
               PROVE  Apart'
    OBVIOUS
  <1> USE DEF Typed
  <1>1. ASSUME UNCHANGED <<bgms, made>>,
               \A c \in Callers : call'[c].op = "close" => call'[c] = call[c]
        PROVE  Apart'
    BY <1>1 DEF Apart
  <1>2. CASE UNCHANGED vars
    BY <1>1, <1>2 DEF vars
  <1>3. ASSUME NEW c \in Callers, NEW h \in Hosts, AddHost(c, h) \/ DelHost(c, h) \/ GetBackendGroupManager(c, h)
        PROVE  Apart'
    BY <1>1, <1>3 DEF AddHost, DelHost, GetBackendGroupManager, TypeOK
  <1>4. ASSUME NEW c \in Callers, AddManager(c)
        PROVE  Apart'
    <2>1. /\ call[c].host \in Hosts
          /\ call' = [call EXCEPT ![c] = Idle]
          /\ \/ /\ bgms[call[c].host] = None
                /\ made' = made + 1
                /\ bgms' = [bgms EXCEPT ![call[c].host] = made + 1]
             \/ UNCHANGED <<made, bgms>>
      BY <1>4, CallShape DEF AddManager, Missing, TypeOK
    <2>2. \A d \in Callers : call'[d].op = "close" => call'[d] = call[d]
      BY <2>1 DEF TypeOK, Idle
    <2>3. CASE UNCHANGED <<made, bgms>>
      BY <1>1, <2>2, <2>3
    <2>4. CASE made' = made + 1 /\ bgms' = [bgms EXCEPT ![call[c].host] = made + 1]
      <3>1. made \in Nat
        BY DEF TypeOK
      <3>2. \A h \in Hosts : bgms[h] # None => bgms[h] \in Nat /\ bgms[h] <= made
        BY DEF Apart, TypeOK, Managers
      <3>3. \A h \in Hosts : bgms'[h] = IF h = call[c].host THEN made + 1 ELSE bgms[h]
        BY <2>1, <2>4 DEF TypeOK
      <3>4. \A d \in Callers : call'[d].op # "close"
        BY <1>4, <2>1 DEF AddManager, TypeOK, Idle
      <3>5. \A h \in Hosts : bgms'[h] # None => bgms'[h] <= made'
        BY <2>4, <3>1, <3>2, <3>3
      <3>6. \A g, h \in Hosts : bgms'[g] # None /\ bgms'[g] = bgms'[h] => g = h
        BY <3>1, <3>2, <3>3 DEF Apart
      <3>7. QED  BY <3>4, <3>5, <3>6 DEF Apart
    <2>5. QED  BY <2>1, <2>3, <2>4
  <1>5. ASSUME NEW c \in Callers, DelManager(c)
        PROVE  Apart'
    <2>1. /\ call[c].op = "delete" /\ call[c].host \in Hosts /\ glock = None /\ UNCHANGED made
      BY <1>5, CallShape DEF DelManager, TypeOK
    <2>2. \A d \in Callers : call[d].op # "close"
      BY <2>1 DEF TypeOK
    <2>3. CASE bgms[call[c].host] = None
      <3>1. call' = [call EXCEPT ![c] = Idle] /\ bgms' = bgms
        BY <1>5, <2>3 DEF DelManager
      <3>2. \A d \in Callers : call'[d].op # "close"
        BY <2>2, <3>1 DEF TypeOK, Idle
      <3>3. QED  BY <1>1, <2>1, <3>1, <3>2
    <2>4. CASE bgms[call[c].host] # None
      <3> DEFINE m == bgms[call[c].host]
      <3>1. /\ bgms' = [bgms EXCEPT ![call[c].host] = None] /\ m \in Managers
            /\ call' = [call EXCEPT ![c] = [op |-> "close", mgr |-> m]]
        BY <1>5, <2>1, <2>4 DEF DelManager, ForgetManager, TypeOK
      <3>2. \A d \in Callers : call'[d].op = "close" => call'[d].mgr = m
        BY <2>2, <3>1 DEF TypeOK
      <3>3. \A h \in Hosts : bgms'[h] = (IF h = call[c].host THEN None ELSE bgms[h]) /\ bgms'[h] # m
        BY <2>1, <2>4, <3>1 DEF Apart, TypeOK
      <3>4. m <= made
        BY <2>1, <2>4 DEF Apart
      <3>5. QED  BY <2>1, <3>2, <3>3, <3>4 DEF Apart
    <2>5. QED  BY <2>3, <2>4
  <1>6. ASSUME NEW c \in Callers, call' = [call EXCEPT ![c] = call'[c]], call'[c].op # "close",
               UNCHANGED <<bgms, made>>
        PROVE  Apart'
    BY <1>1, <1>6 DEF TypeOK
  <1>7. ASSUME NEW c \in Callers, CloseManager(c)
        PROVE  Apart'
    BY <1>6, <1>7, ClosesManager DEF After
  <1>8. ASSUME NEW c \in Callers, CloseGroup(c)
        PROVE  Apart'
    BY <1>6, <1>8, ClosesGroup
  <1>9. ASSUME NEW c \in Callers,
               \/ DelHostEnd(c) \/ CloseEnd(c) \/ Look(c) \/ Drop(c) \/ AddPanics(c)
               \/ AddBackendGroup(c) \/ DelBackendGroupByName(c)
        PROVE  Apart'
    <2>1. call' = [call EXCEPT ![c] = Idle] /\ UNCHANGED <<made, bgms>>
      BY <1>9 DEF DelHostEnd, CloseEnd, Look, Drop, AddPanics, AddBackendGroup, DelBackendGroupByName, Return
    <2>2. \A d \in Callers : call'[d].op = "close" => call'[d] = call[d]
      BY <2>1 DEF TypeOK, Idle
    <2>3. QED  BY <1>1, <2>1, <2>2
  <1>10. ASSUME NEW c \in Callers, NEW g \in Groups, BeginAdd(c, g)
         PROVE  Apart'
    BY <1>1, <1>10 DEF BeginAdd, TypeOK
  <1>11. ASSUME NEW c \in Callers, NEW n \in Names, BeginDel(c, n)
         PROVE  Apart'
    BY <1>1, <1>11 DEF BeginDel, TypeOK
  <1>12. ASSUME NEW c \in Callers, BeginLook(c) \/ BeginClose(c)
         PROVE  Apart'
    BY <1>1, <1>12 DEF BeginLook, BeginClose, TypeOK
  <1>13. QED
    BY <1>2, <1>3, <1>4, <1>5, <1>7, <1>8, <1>9, <1>10, <1>11, <1>12
       DEF Next, Start, TakeLock, Continue

(* The types hold, and hosts have managers of their own, in every state.   *)
THEOREM TypedHolds == Spec => [](Typed /\ Apart)
  BY TypedInit, TypedStep, ApartInit, ApartStep, PTL DEF Spec

(* The types; g.lock is held by the call that closes a manager; and the    *)
(* managers do not run out under the bound (gateway.go 66-91).             *)
THEOREM TypeCorrect == Spec => []TypeOK
  <1>1. Typed => TypeOK
    BY DEF Typed
  <1>2. QED  BY TypedHolds, <1>1, PTL

-----------------------------------------------------------------------------
(* A manager for each host                                                 *)

On(c, h) == call[c].op \in {"add", "delete"} /\ call[c].host = h

(* On a host that is not raced for there is at most one call, and what     *)
(* that call has done and has yet to do tells what the host has.           *)
Followed ==
  \A h \in Hosts \ raced :
    /\ \A c, d \in Callers : On(c, h) /\ On(d, h) => c = d
    /\ \A c \in Callers : On(c, h) => (h \in hosts <=> call[c].op = "add")
    /\ (\A c \in Callers : ~On(c, h)) => (h \in hosts <=> bgms[h] # None)

(* A call alone on its host does both of its steps: first the host, then   *)
(* the manager, or the other way round (forward/lb/gateway.go 66-91).      *)
LEMMA FollowedStep == Typed /\ Followed /\ [Next]_vars => Followed'
  <1> SUFFICES ASSUME Typed, Followed, [Next]_vars
               PROVE  Followed'
    OBVIOUS
  <1> USE DEF Typed
  <1>1. ASSUME UNCHANGED <<hosts, bgms, raced>>,
               \A c \in Callers : IF call[c].op \in {"add", "delete"}
                                 THEN call'[c] = call[c]
                                 ELSE call'[c].op \notin {"add", "delete"}
        PROVE  Followed'
    <2>1. \A c \in Callers : \A h : On(c, h)' <=> On(c, h)
      BY <1>1 DEF On
    <2>2. \A c \in Callers : \A h : On(c, h) => call'[c] = call[c]
      BY <1>1 DEF On
    <2>3. QED  BY <1>1, <2>1, <2>2 DEF Followed
  <1>2. CASE UNCHANGED vars
    BY <1>1, <1>2 DEF vars
  <1>3. ASSUME NEW c \in Callers, NEW h \in Hosts, NEW op \in {"add", "delete"},
               call[c] = Idle, NoteRace(h), bgms' = bgms,
               hosts' = IF op = "add" THEN hosts \cup {h} ELSE hosts \ {h},
               call' = [call EXCEPT ![c] = [op |-> op, host |-> h]]
        PROVE  Followed'
    <2>1. \A g : ~On(c, g)
      BY <1>3 DEF On, Idle
    <2>2. \A d \in Callers : \A g : On(d, g)' <=> IF d = c THEN g = h ELSE On(d, g)
      BY <1>3 DEF On, TypeOK
    <2>3. /\ \A g : g # h => (g \in raced' <=> g \in raced)
          /\ h \notin raced' => \A d \in Callers : ~On(d, h)
      BY <1>3 DEF NoteRace, Midway, On
    <2>4. call'[c].op = op /\ \A d \in Callers : d # c => call'[d] = call[d]
      BY <1>3 DEF TypeOK
    <2>5. ASSUME NEW g \in Hosts \ raced', g # h
          PROVE  /\ \A d, e \in Callers : On(d, g)' /\ On(e, g)' => d = e
                 /\ \A d \in Callers : On(d, g)' => (g \in hosts' <=> call'[d].op = "add")
                 /\ (\A d \in Callers : ~On(d, g)') => (g \in hosts' <=> bgms'[g] # None)
      BY <1>3, <2>1, <2>2, <2>3, <2>4, <2>5 DEF Followed
    <2>6. ASSUME h \notin raced'
          PROVE  /\ \A d, e \in Callers : On(d, h)' /\ On(e, h)' => d = e
                 /\ \A d \in Callers : On(d, h)' => (h \in hosts' <=> call'[d].op = "add")
                 /\ On(c, h)'
      BY <1>3, <2>2, <2>3, <2>4, <2>6
    <2>7. QED  BY <2>5, <2>6 DEF Followed
  <1>4. ASSUME NEW c \in Callers, NEW h \in Hosts, AddHost(c, h)
        PROVE  Followed'
    BY <1>3, <1>4 DEF AddHost
  <1>5. ASSUME NEW c \in Callers, NEW h \in Hosts, DelHost(c, h)
        PROVE  Followed'
    BY <1>3, <1>5 DEF DelHost
  <1>6. ASSUME NEW c \in Callers, NEW h \in Hosts, On(c, h),
               UNCHANGED <<hosts, raced>>,
               call' = [call EXCEPT ![c] = call'[c]], call'[c].op \notin {"add", "delete"},
               \A g \in Hosts : g # h => bgms'[g] = bgms[g],
               call[c].op = "add" <=> bgms'[h] # None
        PROVE  Followed'
    <2>1. \A d \in Callers : \A g : On(d, g)' <=> d # c /\ On(d, g)
      BY <1>6 DEF On, TypeOK
    <2>2. \A g : On(c, g) => g = h
      BY <1>6 DEF On
    <2>3. \A d \in Callers : d # c => call'[d] = call[d]
      BY <1>6 DEF TypeOK
    <2>4. QED  BY <1>6, <2>1, <2>2, <2>3 DEF Followed
  <1>7. ASSUME NEW c \in Callers, AddManager(c)
        PROVE  Followed'
    <2>1. /\ call[c].op = "add" /\ call[c].host \in Hosts /\ call' = [call EXCEPT ![c] = Idle]
          /\ UNCHANGED <<hosts, raced>>
      BY <1>7, CallShape DEF AddManager, TypeOK
    <2>2. /\ \A g \in Hosts : g # call[c].host => bgms'[g] = bgms[g]
          /\ bgms'[call[c].host] # None
      <3>1. CASE bgms[call[c].host] = None
        BY <1>7, <2>1, <3>1 DEF AddManager, Missing, TypeOK
      <3>2. CASE bgms[call[c].host] # None
        BY <1>7, <3>2 DEF AddManager, Missing
      <3>3. QED  BY <3>1, <3>2
    <2>3. call'[c].op \notin {"add", "delete"} /\ call' = [call EXCEPT ![c] = call'[c]]
      BY <2>1 DEF TypeOK, Idle
    <2>4. QED  BY <1>6, <2>1, <2>2, <2>3 DEF On
  <1>8. ASSUME NEW c \in Callers, DelManager(c)
        PROVE  Followed'
    <2>1. call[c].op = "delete" /\ call[c].host \in Hosts /\ UNCHANGED <<hosts, raced>>
      BY <1>8, CallShape DEF DelManager, TypeOK
    <2>2. /\ \A g \in Hosts : g # call[c].host => bgms'[g] = bgms[g]
          /\ bgms'[call[c].host] = None
      <3>1. CASE bgms[call[c].host] = None
        BY <1>8, <3>1 DEF DelManager
      <3>2. CASE bgms[call[c].host] # None
        BY <1>8, <2>1, <3>2 DEF DelManager, ForgetManager, TypeOK
      <3>3. QED  BY <3>1, <3>2
    <2>3. call'[c].op \notin {"add", "delete"} /\ call' = [call EXCEPT ![c] = call'[c]]
      BY <1>8 DEF DelManager, TypeOK, Idle
    <2>4. QED  BY <1>6, <2>1, <2>2, <2>3 DEF On
  <1>9. ASSUME NEW c \in Callers, call[c].op \notin {"add", "delete"},
               call' = [call EXCEPT ![c] = call'[c]], call'[c].op \notin {"add", "delete"},
               UNCHANGED <<hosts, bgms, raced>>
        PROVE  Followed'
    BY <1>1, <1>9 DEF TypeOK
  <1>10. ASSUME NEW c \in Callers, CloseManager(c)
         PROVE  Followed'
    BY <1>9, <1>10, ClosesManager DEF After
  <1>11. ASSUME NEW c \in Callers, CloseGroup(c)
         PROVE  Followed'
    BY <1>9, <1>11, ClosesGroup
  <1>12. ASSUME NEW c \in Callers, NEW h \in Hosts, GetBackendGroupManager(c, h)
         PROVE  Followed'
    <2>1. /\ call[c] = Idle /\ call' = [call EXCEPT ![c] = [op |-> "have", mgr |-> bgms[h]]]
          /\ UNCHANGED <<hosts, bgms, raced>>
      BY <1>12 DEF GetBackendGroupManager
    <2>2. /\ call[c].op = "idle" /\ call'[c].op = "have"
          /\ call' = [call EXCEPT ![c] = call'[c]]
      BY <2>1 DEF TypeOK, Idle
    <2>3. QED  BY <1>9, <2>1, <2>2
  <1>13. ASSUME NEW c \in Callers, NEW g \in Groups, BeginAdd(c, g)
         PROVE  Followed'
    BY <1>9, <1>13 DEF BeginAdd, TypeOK
  <1>14. ASSUME NEW c \in Callers, NEW n \in Names, BeginDel(c, n)
         PROVE  Followed'
    BY <1>9, <1>14 DEF BeginDel, TypeOK
  <1>15. ASSUME NEW c \in Callers, BeginLook(c) \/ BeginClose(c)
         PROVE  Followed'
    BY <1>9, <1>15 DEF BeginLook, BeginClose, TypeOK
  <1>16. ASSUME NEW c \in Callers,
                \/ DelHostEnd(c) \/ CloseEnd(c) \/ Look(c) \/ Drop(c) \/ AddPanics(c)
                \/ AddBackendGroup(c) \/ DelBackendGroupByName(c)
         PROVE  Followed'
    <2>1. /\ call' = [call EXCEPT ![c] = Idle] /\ UNCHANGED <<hosts, bgms, raced>>
          /\ call[c].op \notin {"add", "delete"}
      BY <1>16 DEF DelHostEnd, CloseEnd, Look, Drop, AddPanics, AddBackendGroup, DelBackendGroupByName, Return
    <2>2. call'[c].op \notin {"add", "delete"} /\ call' = [call EXCEPT ![c] = call'[c]]
      BY <2>1 DEF TypeOK, Idle
    <2>3. QED  BY <1>9, <2>1, <2>2
  <1>17. QED
    BY <1>2, <1>4, <1>5, <1>7, <1>8, <1>10, <1>11, <1>12, <1>13, <1>14, <1>15, <1>16
       DEF Next, Start, TakeLock, Continue

(* The hosts of the wrapped gateway are those with a manager, but for what *)
(* is under way and for the hosts on which calls overlapped (gateway.go    *)
(* 66-91).                                                                 *)
THEOREM HostsHaveManagers == Spec => []HostHasManager
  <1>1. Init => Followed
    BY DEF Init, Followed, On, Idle
  <1>2. Followed => HostHasManager
    BY DEF Followed, HostHasManager, Midway, On
  <1>3. QED  BY TypedHolds, <1>1, <1>2, FollowedStep, PTL DEF Spec

(* No manager is forgotten while it is open (gateway.go 68-91).            *)
THEOREM NoneForgotten == Spec => []OpenIsReachable
  <1>1. Init => OpenIsReachable
    BY DEF Init, OpenIsReachable
  <1>2. Typed /\ OpenIsReachable /\ [Next]_vars => OpenIsReachable'
    <2> SUFFICES ASSUME Typed, OpenIsReachable, [Next]_vars
                 PROVE  OpenIsReachable'
      OBVIOUS
    <2> USE DEF Typed
    <2>1. ASSUME UNCHANGED <<bgms, made>>,
                 \A m \in Managers : groups'[m] # None => groups[m] # None,
                 \A c \in Callers : call[c].op = "close" => call'[c] = call[c]
          PROVE  OpenIsReachable'
      BY <2>1 DEF OpenIsReachable, TypeOK, Managers
    <2>2. CASE UNCHANGED vars
      BY <2>1, <2>2 DEF vars
    <2>3. ASSUME NEW c \in Callers, AddManager(c)
          PROVE  OpenIsReachable'
      <3>1. /\ call[c].host \in Hosts /\ call[c].op = "add" /\ groups' = groups /\ call' = [call EXCEPT ![c] = Idle]
            /\ \/ /\ bgms[call[c].host] = None
                  /\ made' = made + 1
                  /\ bgms' = [bgms EXCEPT ![call[c].host] = made + 1]
               \/ UNCHANGED <<made, bgms>>
        BY <2>3, CallShape DEF AddManager, Missing, TypeOK
      <3>2. \A d \in Callers : call[d].op = "close" => call'[d] = call[d]
        BY <3>1 DEF TypeOK
      <3>3. CASE UNCHANGED <<made, bgms>>
        BY <2>1, <3>1, <3>2, <3>3
      <3>4. CASE /\ bgms[call[c].host] = None
                 /\ made' = made + 1
                 /\ bgms' = [bgms EXCEPT ![call[c].host] = made + 1]
        <4>1. made \in Nat /\ bgms'[call[c].host] = made + 1
          BY <3>1, <3>4 DEF TypeOK
        <4>2. \A h \in Hosts : bgms[h] # None => bgms'[h] = bgms[h]
          BY <3>1, <3>4 DEF TypeOK
        <4>3. ASSUME NEW m \in 1..made', groups'[m] # None
              PROVE  \/ \E h \in Hosts : bgms'[h] = m
                     \/ \E d \in Callers : call'[d].op = "close" /\ call'[d].mgr = m
          <5>1. CASE m = made + 1
            BY <3>1, <4>1, <5>1
          <5>2. CASE m # made + 1
            <6>1. m \in 1..made /\ m # None
              BY <3>4, <4>1, <5>2
            <6>2. QED  BY <3>1, <3>2, <4>2, <4>3, <6>1 DEF OpenIsReachable
          <5>3. QED  BY <5>1, <5>2
        <4>4. QED  BY <4>3 DEF OpenIsReachable
      <3>5. QED  BY <3>1, <3>3, <3>4
    <2>4. ASSUME NEW c \in Callers, DelManager(c)
          PROVE  OpenIsReachable'
      <3>1. call[c].op = "delete" /\ call[c].host \in Hosts /\ UNCHANGED <<made, groups>>
        BY <2>4, CallShape DEF DelManager, TypeOK
      <3>2. CASE bgms[call[c].host] = None
        BY <2>1, <2>4, <3>1, <3>2 DEF DelManager, TypeOK
      <3>3. CASE bgms[call[c].host] # None
        <4> DEFINE m == bgms[call[c].host]
        <4>1. /\ bgms' = [bgms EXCEPT ![call[c].host] = None]
              /\ call' = [call EXCEPT ![c] = [op |-> "close", mgr |-> m]]
          BY <2>4, <3>3 DEF DelManager, ForgetManager
        <4>2. \A h \in Hosts : bgms[h] # m => bgms'[h] = bgms[h]
          BY <4>1 DEF TypeOK
        <4>3. call'[c].op = "close" /\ call'[c].mgr = m
          BY <4>1 DEF TypeOK
        <4>4. \A d \in Callers : call[d].op = "close" => call'[d] = call[d]
          BY <3>1, <4>1 DEF TypeOK
        <4>5. QED  BY <3>1, <4>2, <4>3, <4>4 DEF OpenIsReachable
      <3>4. QED  BY <3>2, <3>3
    <2>5. ASSUME NEW c \in Callers, CloseManager(c)
          PROVE  OpenIsReachable'
      <3> DEFINE m == call[c].mgr
      <3>1. /\ m \in Managers /\ UNCHANGED <<made, bgms>>
            /\ groups' = [groups EXCEPT ![m] = None]
            /\ call' = [call EXCEPT ![c] = call'[c]]
        BY <2>5, ClosesManager
      <3>2. \A l \in Managers : groups'[l] # None => groups[l] # None /\ l # m
        BY <3>1 DEF TypeOK
      <3>3. \A d \in Callers : d # c => call'[d] = call[d]
        BY <3>1 DEF TypeOK
      <3>4. QED  BY <3>1, <3>2, <3>3 DEF OpenIsReachable, TypeOK, Managers
    <2>6. ASSUME NEW c \in Callers, call[c].op # "close", call' = [call EXCEPT ![c] = call'[c]],
                 UNCHANGED <<bgms, made>>,
                 \A m \in Managers : groups'[m] # None => groups[m] # None
          PROVE  OpenIsReachable'
      BY <2>1, <2>6 DEF TypeOK
    <2>7. ASSUME NEW c \in Callers, NEW h \in Hosts, AddHost(c, h) \/ DelHost(c, h) \/ GetBackendGroupManager(c, h)
          PROVE  OpenIsReachable'
      BY <2>6, <2>7 DEF AddHost, DelHost, GetBackendGroupManager, TypeOK, Idle
    <2>8. ASSUME NEW c \in Callers, CloseGroup(c)
          PROVE  OpenIsReachable'
      BY <2>6, <2>8, ClosesGroup
    <2>9. ASSUME NEW c \in Callers, NEW g \in Groups, BeginAdd(c, g)
          PROVE  OpenIsReachable'
      BY <2>6, <2>9 DEF BeginAdd, TypeOK
    <2>10. ASSUME NEW c \in Callers, NEW n \in Names, BeginDel(c, n)
           PROVE  OpenIsReachable'
      BY <2>6, <2>10 DEF BeginDel, TypeOK
    <2>11. ASSUME NEW c \in Callers, BeginLook(c) \/ BeginClose(c)
           PROVE  OpenIsReachable'
      BY <2>6, <2>11 DEF BeginLook, BeginClose, TypeOK
    <2>12. ASSUME NEW m \in Managers, NEW n, NEW g, groups[m] # None, Store(m, n, g)
           PROVE  \A l \in Managers : groups'[l] # None => groups[l] # None
      BY <2>12 DEF Store, TypeOK
    <2>13. ASSUME NEW c \in Callers, AddBackendGroup(c)
           PROVE  OpenIsReachable'
      <3>1. call[c].op = "add group" /\ call[c].mgr \in Managers /\ call' = [call EXCEPT ![c] = call'[c]]
        BY <2>13, CallShape DEF AddBackendGroup, Return, TypeOK
      <3>2. \A l \in Managers : groups'[l] # None => groups[l] # None
        BY <2>12, <2>13, <3>1 DEF AddBackendGroup
      <3>3. QED  BY <2>6, <2>13, <3>1, <3>2 DEF AddBackendGroup
    <2>14. ASSUME NEW c \in Callers, DelBackendGroupByName(c)
           PROVE  OpenIsReachable'
      <3>1. call[c].op = "delete group" /\ call[c].mgr \in Managers /\ call' = [call EXCEPT ![c] = call'[c]]
        <4>1. call[c].op = "delete group" /\ call' = [call EXCEPT ![c] = call'[c]]
          BY <2>14 DEF DelBackendGroupByName, Return, TypeOK
        <4>2. call[c] \in Calls
          BY DEF TypeOK
        <4>3. QED  BY <4>1, <4>2, CallShape
      <3>2. \A l \in Managers : groups'[l] # None => groups[l] # None
        BY <2>12, <2>14, <3>1 DEF DelBackendGroupByName
      <3>3. QED  BY <2>6, <2>14, <3>1, <3>2 DEF DelBackendGroupByName
    <2>15. ASSUME NEW c \in Callers, DelHostEnd(c) \/ CloseEnd(c) \/ Look(c) \/ Drop(c) \/ AddPanics(c)
           PROVE  OpenIsReachable'
      BY <2>6, <2>15 DEF DelHostEnd, CloseEnd, Look, Drop, AddPanics, Return, TypeOK
    <2>16. QED
      BY <2>2, <2>3, <2>4, <2>5, <2>7, <2>8, <2>9, <2>10, <2>11, <2>13, <2>14, <2>15
         DEF Next, Start, TakeLock, Continue
  <1>3. QED  BY TypedHolds, <1>1, <1>2, PTL DEF Spec

-----------------------------------------------------------------------------
(* Groups                                                                  *)

In(m, g) == groups[m] # None /\ groups[m][Name[g]] = g
ToClose(c, g) == call[c].op \in {"closing", "shutting"} /\ g \in call[c].left

(* A manager holds a group under its name.                                 *)
Named ==
  \A m \in Managers, n \in Names :
    groups[m] # None /\ groups[m][n] # None => Name[groups[m][n]] = n

(* A managed group is in a manager or is to be closed, and never in two    *)
(* managers, nor in one and to be closed, nor to be closed by two calls.   *)
Placed ==
  \A g \in Groups :
    /\ life[g] = "managed" <=> (\E m \in Managers : In(m, g)) \/ (\E c \in Callers : ToClose(c, g))
    /\ \A m, l \in Managers : In(m, g) /\ In(l, g) => m = l
    /\ \A m \in Managers, c \in Callers : ToClose(c, g) => ~In(m, g)
    /\ \A c, d \in Callers : ToClose(c, g) /\ ToClose(d, g) => c = d

(* A group that a call brings along is with no other call.                 *)
Handed(c) == call[c].op = "add group"
Held ==
  /\ \A c \in Callers : Handed(c) => life[call[c].group] = "passed"
  /\ \A c, d \in Callers : Handed(c) /\ Handed(d) /\ call[c].group = call[d].group => c = d

(* A step that moves no group keeps them placed.                           *)
LEMMA PlacedKept ==
  ASSUME Placed, groups' = groups,
         \A g \in Groups : life'[g] = "managed" <=> life[g] = "managed",
         \A g \in Groups, c \in Callers : ToClose(c, g)' <=> ToClose(c, g)
  PROVE  Placed'
  BY DEF Placed, In

(* A group that is stored in a manager or taken out of it.                 *)
LEMMA StoreEffect ==
  ASSUME TypeOK, NEW m \in Managers, groups[m] # None, NEW n \in Names,
         NEW g \in Groups \cup {None}, Store(m, n, g)
  PROVE  /\ groups'[m] \in [Names -> Groups \cup {None}] /\ groups'[m] # None
         /\ groups'[m][n] = g
         /\ \A x \in Names : x # n => groups'[m][x] = groups[m][x]
         /\ \A l \in Managers : l # m => groups'[l] = groups[l]
  <1>1. groups'[m] = [x \in Names |-> IF x = n THEN g ELSE groups[m][x]]
    BY DEF Store, TypeOK
  <1>2. groups[m] \in [Names -> Groups \cup {None}]
    BY DEF TypeOK
  <1>3. groups'[m] \in [Names -> Groups \cup {None}]
    BY <1>1, <1>2
  <1>4. \A l \in Managers : l # m => groups'[l] = groups[l]
    BY DEF Store, TypeOK
  <1>5. QED  BY <1>1, <1>3, <1>4

(* Managers keep their groups under their names.                           *)
LEMMA NamedStep == Typed /\ Named /\ [Next]_vars => Named'
  <1> SUFFICES ASSUME TypeOK, Named, [Next]_vars
               PROVE  Named'
    BY DEF Typed
  <1>1. CASE UNCHANGED groups
    BY <1>1 DEF Named
  <1>2. ASSUME NEW c \in Callers, CloseManager(c)
        PROVE  Named'
    <2>1. groups' = [groups EXCEPT ![call[c].mgr] = None]
      BY <1>2 DEF CloseManager
    <2>2. \A l \in Managers : groups'[l] = groups[l] \/ groups'[l] = None
      BY <2>1 DEF TypeOK
    <2>3. QED  BY <2>2 DEF Named
  <1>3. ASSUME NEW c \in Callers, AddBackendGroup(c)
        PROVE  Named'
    <2>1. /\ call[c].mgr \in Managers /\ call[c].group \in Groups
          /\ groups[call[c].mgr] # None
      BY <1>3, CallShape DEF AddBackendGroup, TypeOK
    <2>2. Name[call[c].group] \in Names
      BY <2>1 DEF Names
    <2>3. CASE Vacant(call[c].mgr, Name[call[c].group])
      <3>1. Store(call[c].mgr, Name[call[c].group], call[c].group)
        BY <1>3, <2>3 DEF AddBackendGroup
      <3>2. QED  BY <2>1, <2>2, <3>1, StoreEffect DEF Named
    <2>4. CASE ~Vacant(call[c].mgr, Name[call[c].group])
      BY <1>1, <1>3, <2>4 DEF AddBackendGroup
    <2>5. QED  BY <2>3, <2>4
  <1>4. ASSUME NEW c \in Callers, DelBackendGroupByName(c)
        PROVE  Named'
    <2>1. call[c].mgr \in Managers /\ call[c].name \in Names
      BY <1>4, CallShape DEF DelBackendGroupByName, TypeOK
    <2>2. CASE UNCHANGED groups
      BY <1>1, <2>2
    <2>3. CASE groups[call[c].mgr] # None /\ Store(call[c].mgr, call[c].name, None)
      BY <2>1, <2>3, StoreEffect DEF Named
    <2>4. QED  BY <1>4, <2>2, <2>3 DEF DelBackendGroupByName
  <1>5. QED
    BY <1>1, <1>2, <1>3, <1>4
       DEF Next, Start, TakeLock, Continue, vars, AddHost, DelHost, AddManager, DelManager,
           CloseGroup, DelHostEnd, CloseEnd, GetBackendGroupManager, BeginAdd, BeginDel,
           BeginClose, BeginLook, AddPanics, Look, Drop

(* What a call is about to close, when it is replaced.                     *)
LEMMA ToCloseKept ==
  ASSUME TypeOK, NEW c \in Callers, call' = [call EXCEPT ![c] = call'[c]],
         call[c].op \notin {"closing", "shutting"}, call'[c].op \notin {"closing", "shutting"}
  PROVE  \A g \in Groups, d \in Callers : ToClose(d, g)' <=> ToClose(d, g)
  BY DEF ToClose, TypeOK

(* Each group stays in one place, whichever step is taken.                 *)
LEMMA PlacedStep == Typed /\ Named /\ Placed /\ Held /\ [Next]_vars => Placed'
  <1> SUFFICES ASSUME TypeOK, Named, Placed, Held, [Next]_vars
               PROVE  Placed'
    BY DEF Typed
  <1>1. CASE UNCHANGED vars
    BY <1>1, PlacedKept DEF vars, ToClose
  <1>2. ASSUME NEW c \in Callers, call[c].op \notin {"closing", "shutting"},
               call' = [call EXCEPT ![c] = call'[c]],
               call'[c].op \notin {"closing", "shutting"}, groups' = groups,
               \A g \in Groups : life'[g] = "managed" <=> life[g] = "managed"
        PROVE  Placed'
    BY <1>2, PlacedKept, ToCloseKept
  <1>3. ASSUME NEW c \in Callers, CloseManager(c)
        PROVE  Placed'
    <2> DEFINE m == call[c].mgr
    <2>1. /\ call[c].op \in {"close", "shut"} /\ m \in Managers /\ UNCHANGED life
          /\ groups' = [groups EXCEPT ![m] = None]
          /\ call' = [call EXCEPT ![c] = call'[c]]
          /\ call'[c].op \in {"closing", "shutting"} /\ call'[c].left = Managed(m)
      BY <1>3, ClosesManager DEF After
    <2>2. \A g \in Groups : g \in Managed(m) <=> In(m, g)
      BY <2>1 DEF In, Named, Names, Managed
    <2>3. \A g \in Groups, l \in Managers : In(l, g)' <=> In(l, g) /\ l # m
      BY <2>1 DEF In, TypeOK
    <2>4. \A g \in Groups, d \in Callers : ToClose(d, g)' <=> ToClose(d, g) \/ (d = c /\ In(m, g))
      <3>1. \A d \in Callers : d # c => call'[d] = call[d]
        BY <2>1 DEF TypeOK
      <3>2. QED  BY <2>1, <2>2, <3>1 DEF ToClose
    <2>5. QED  BY <2>1, <2>3, <2>4 DEF Placed
  <1>4. ASSUME NEW c \in Callers, CloseGroup(c)
        PROVE  Placed'
    <2>1. PICK g \in call[c].left :
            /\ life' = [life EXCEPT ![g] = "closed"]
            /\ call' = [call EXCEPT ![c] = [op |-> call[c].op, left |-> call[c].left \ {g}]]
      BY <1>4, ClosesGroup
    <2>2. /\ call[c].op \in {"closing", "shutting"} /\ call[c].left \in SUBSET Groups
          /\ groups' = groups
      BY <1>4, ClosesGroup
    <2>3. ToClose(c, g) /\ g \in Groups
      BY <2>2 DEF ToClose
    <2>4. \A d \in Callers : d # c => ~ToClose(d, g)
      BY <2>3 DEF Placed
    <2>5. \A h \in Groups, d \in Callers : ToClose(d, h)' <=> ToClose(d, h) /\ h # g
      BY <2>1, <2>2, <2>4 DEF ToClose, TypeOK
    <2>6. \A h \in Groups, l \in Managers : In(l, h)' <=> In(l, h)
      BY <2>2 DEF In
    <2>7. \A h \in Groups : life'[h] = IF h = g THEN "closed" ELSE life[h]
      BY <2>1 DEF TypeOK
    <2>8. QED  BY <2>3, <2>5, <2>6, <2>7 DEF Placed
  <1>5. ASSUME NEW c \in Callers, DelHostEnd(c) \/ CloseEnd(c)
        PROVE  Placed'
    <2>1. /\ call[c].left = {} /\ UNCHANGED <<groups, life>>
          /\ call' = [call EXCEPT ![c] = Idle]
      BY <1>5 DEF DelHostEnd, CloseEnd, Return
    <2>2. \A g \in Groups, d \in Callers : ToClose(d, g)' <=> ToClose(d, g)
      BY <2>1 DEF ToClose, TypeOK, Idle
    <2>3. QED  BY <2>1, <2>2, PlacedKept
  <1>6. ASSUME NEW c \in Callers, call[c].op = "add group", GoesBack(c), Return(c), groups' = groups
        PROVE  Placed'
    <2>1. /\ call[c].group \in Groups /\ call[c].was \in {"new", "loose"}
          /\ life[call[c].group] = "passed"
      BY <1>6, CallShape DEF TypeOK, Held, Handed
    <2>2. \A g \in Groups : life'[g] = "managed" <=> life[g] = "managed"
      BY <1>6, <2>1 DEF GoesBack, TypeOK
    <2>3. call'[c].op = "idle" /\ call' = [call EXCEPT ![c] = call'[c]]
      BY <1>6 DEF Return, TypeOK, Idle
    <2>4. QED  BY <1>2, <1>6, <2>2, <2>3
  <1>7. ASSUME NEW c \in Callers, AddBackendGroup(c)
        PROVE  Placed'
    <2> DEFINE m == call[c].mgr
               g == call[c].group
    <2>1. call[c].op = "add group" /\ m \in Managers /\ g \in Groups /\ groups[m] # None
      BY <1>7, CallShape DEF AddBackendGroup, TypeOK
    <2>2. CASE ~Vacant(m, Name[g])
      BY <1>6, <1>7, <2>1, <2>2 DEF AddBackendGroup
    <2>3. CASE Vacant(m, Name[g])
      <3>1. Store(m, Name[g], g) /\ life' = [life EXCEPT ![g] = "managed"] /\ Return(c)
        BY <1>7, <2>3 DEF AddBackendGroup
      <3>2. Name[g] \in Names /\ groups[m][Name[g]] = None
        BY <2>1, <2>3 DEF Names, Vacant
      <3>3. \A h \in Groups, l \in Managers : In(l, h)' <=> In(l, h) \/ (l = m /\ h = g)
        <4>1. \A h \in Groups : Name[h] \in Names
          BY DEF Names
        <4>2. \A h \in Groups : groups'[m][Name[h]] = IF Name[h] = Name[g] THEN g ELSE groups[m][Name[h]]
          <5>1. groups'[m] = [x \in Names |-> IF x = Name[g] THEN g ELSE groups[m][x]]
            BY <2>1, <3>1 DEF Store, TypeOK
          <5>2. QED  BY <4>1, <5>1
        <4>3. groups'[m] # None /\ \A l \in Managers : l # m => groups'[l] = groups[l]
          BY <2>1, <3>1, <3>2, StoreEffect
        <4>4. QED  BY <2>1, <3>2, <4>1, <4>2, <4>3 DEF In
      <3>4. \A h \in Groups, d \in Callers : ToClose(d, h)' <=> ToClose(d, h)
        <4>1. call'[c].op = "idle" /\ call' = [call EXCEPT ![c] = call'[c]]
          BY <3>1 DEF Return, TypeOK, Idle
        <4>2. QED  BY <2>1, <4>1, ToCloseKept
      <3>5. \A h \in Groups : life'[h] = IF h = g THEN "managed" ELSE life[h]
        BY <3>1 DEF TypeOK
      <3>6. life[g] = "passed"
        BY <2>1 DEF Held, Handed
      <3>7. ~(\E l \in Managers : In(l, g)) /\ ~(\E d \in Callers : ToClose(d, g))
        BY <2>1, <3>6 DEF Placed
      <3>8. QED
        <4> SUFFICES ASSUME NEW h \in Groups
                     PROVE  /\ life'[h] = "managed" <=> (\E l \in Managers : In(l, h)') \/ (\E d \in Callers : ToClose(d, h)')
                            /\ \A k, l \in Managers : In(k, h)' /\ In(l, h)' => k = l
                            /\ \A l \in Managers, d \in Callers : ToClose(d, h)' => ~In(l, h)'
                            /\ \A d, e \in Callers : ToClose(d, h)' /\ ToClose(e, h)' => d = e
          BY DEF Placed
        <4>1. CASE h = g
          BY <2>1, <3>3, <3>4, <3>5, <3>7, <4>1
        <4>2. CASE h # g
          BY <3>3, <3>4, <3>5, <4>2 DEF Placed
        <4>3. QED  BY <4>1, <4>2
    <2>4. QED  BY <2>2, <2>3
  <1>8. ASSUME NEW c \in Callers, AddPanics(c)
        PROVE  Placed'
    BY <1>6, <1>8 DEF AddPanics
  <1>9. ASSUME NEW c \in Callers, DelBackendGroupByName(c)
        PROVE  Placed'
    <2> DEFINE m == call[c].mgr
               n == call[c].name
               g == groups[m][n]
    <2>1. /\ call[c].op = "delete group" /\ m \in Managers /\ n \in Names
          /\ call'[c].op = "idle" /\ call' = [call EXCEPT ![c] = call'[c]]
      <3>1. call[c].op = "delete group" /\ call[c] \in Calls
        BY <1>9 DEF DelBackendGroupByName, TypeOK
      <3>2. call'[c].op = "idle" /\ call' = [call EXCEPT ![c] = call'[c]]
        BY <1>9 DEF DelBackendGroupByName, Return, TypeOK, Idle
      <3>3. QED  BY <3>1, <3>2, CallShape
    <2>2. CASE UNCHANGED <<groups, life>>
      BY <1>2, <2>1, <2>2
    <2>3. CASE /\ groups[m] # None /\ groups[m][n] # None
               /\ life' = [life EXCEPT ![g] = "loose"] /\ Store(m, n, None)
      <3>1. g \in Groups /\ Name[g] = n
        <4>1. groups[m] \in [Names -> Groups \cup {None}]
          BY <2>1, <2>3 DEF TypeOK
        <4>2. QED  BY <2>1, <2>3, <4>1 DEF Named
      <3>2. In(m, g)
        BY <2>3, <3>1 DEF In
      <3>3. \A h \in Groups, l \in Managers : In(l, h)' <=> In(l, h) /\ h # g
        <4>1. \A h \in Groups : Name[h] \in Names
          BY DEF Names
        <4>2. \A h \in Groups : groups'[m][Name[h]] = IF Name[h] = n THEN None ELSE groups[m][Name[h]]
          <5>1. groups'[m] = [x \in Names |-> IF x = n THEN None ELSE groups[m][x]]
            BY <2>1, <2>3 DEF Store, TypeOK
          <5>2. QED  BY <4>1, <5>1
        <4>3. groups'[m] # None /\ \A l \in Managers : l # m => groups'[l] = groups[l]
          BY <2>1, <2>3, StoreEffect
        <4>4. \A h \in Groups, l \in Managers : l = m => (In(l, h)' <=> In(l, h) /\ h # g)
          <5> SUFFICES ASSUME NEW h \in Groups, NEW l \in Managers, l = m
                       PROVE  In(l, h)' <=> In(l, h) /\ h # g
            OBVIOUS
          <5>1. In(l, h)' <=> groups'[m][Name[h]] = h
            BY <4>3 DEF In
          <5>2. In(l, h) <=> groups[m][Name[h]] = h
            BY <2>3 DEF In
          <5>3. h # None
            OBVIOUS
          <5>4. groups'[m][Name[h]] = IF Name[h] = n THEN None ELSE groups[m][Name[h]]
            BY <4>2
          <5>5. CASE Name[h] = n
            BY <5>1, <5>2, <5>3, <5>4, <5>5
          <5>6. CASE Name[h] # n
            BY <3>1, <5>1, <5>2, <5>4, <5>6
          <5>7. QED  BY <5>5, <5>6
        <4>5. \A h \in Groups, l \in Managers : l # m => (In(l, h)' <=> In(l, h))
          BY <4>3 DEF In
        <4>6. \A l \in Managers : l # m => ~In(l, g)
          BY <2>1, <3>1, <3>2 DEF Placed
        <4>7. SUFFICES ASSUME NEW h \in Groups, NEW l \in Managers
                       PROVE  In(l, h)' <=> In(l, h) /\ h # g
          OBVIOUS
        <4>8. CASE l = m
          BY <4>4, <4>8
        <4>9. CASE l # m
          BY <4>5, <4>6, <4>9
        <4>10. QED  BY <4>8, <4>9
      <3>4. \A h \in Groups, d \in Callers : ToClose(d, h)' <=> ToClose(d, h)
        BY <2>1, ToCloseKept
      <3>5. \A h \in Groups : life'[h] = IF h = g THEN "loose" ELSE life[h]
        BY <2>3 DEF TypeOK
      <3>6. \A d \in Callers : ~ToClose(d, g)
        BY <2>1, <3>1, <3>2 DEF Placed
      <3>7. QED
        <4> SUFFICES ASSUME NEW h \in Groups
                     PROVE  /\ life'[h] = "managed" <=> (\E l \in Managers : In(l, h)') \/ (\E d \in Callers : ToClose(d, h)')
                            /\ \A k, l \in Managers : In(k, h)' /\ In(l, h)' => k = l
                            /\ \A l \in Managers, d \in Callers : ToClose(d, h)' => ~In(l, h)'
                            /\ \A d, e \in Callers : ToClose(d, h)' /\ ToClose(e, h)' => d = e
          BY DEF Placed
        <4>1. CASE h = g
          BY <3>3, <3>4, <3>5, <3>6, <4>1
        <4>2. CASE h # g
          BY <3>3, <3>4, <3>5, <4>2 DEF Placed
        <4>3. QED  BY <4>1, <4>2
    <2>4. QED  BY <1>9, <2>2, <2>3 DEF DelBackendGroupByName
  <1>10. ASSUME NEW c \in Callers, NEW g \in Groups, BeginAdd(c, g)
         PROVE  Placed'
    <2>1. \A h \in Groups : life'[h] = "managed" <=> life[h] = "managed"
      BY <1>10 DEF BeginAdd, TypeOK
    <2>2. call[c].op = "have" /\ call'[c].op = "add group" /\ call' = [call EXCEPT ![c] = call'[c]]
      BY <1>10 DEF BeginAdd, TypeOK
    <2>3. QED  BY <1>2, <1>10, <2>1, <2>2 DEF BeginAdd
  <1>11. ASSUME NEW c \in Callers, NEW h \in Hosts,
                AddHost(c, h) \/ DelHost(c, h) \/ GetBackendGroupManager(c, h)
         PROVE  Placed'
    <2>1. /\ call[c].op = "idle" /\ call'[c].op \notin {"closing", "shutting"} /\ call' = [call EXCEPT ![c] = call'[c]]
          /\ UNCHANGED <<groups, life>>
      BY <1>11 DEF AddHost, DelHost, GetBackendGroupManager, TypeOK, Idle
    <2>2. QED  BY <1>2, <2>1
  <1>12. ASSUME NEW c \in Callers, AddManager(c) \/ DelManager(c)
         PROVE  Placed'
    <2>1. /\ call[c].op \in {"add", "delete"} /\ UNCHANGED <<groups, life>>
          /\ \/ call' = [call EXCEPT ![c] = Idle]
             \/ call' = [call EXCEPT ![c] = [op |-> "close", mgr |-> bgms[call[c].host]]]
      BY <1>12 DEF AddManager, DelManager
    <2>2. call'[c].op \notin {"closing", "shutting"} /\ call' = [call EXCEPT ![c] = call'[c]]
      BY <2>1 DEF TypeOK, Idle
    <2>3. QED  BY <1>2, <2>1, <2>2
  <1>13. ASSUME NEW c \in Callers,
                Look(c) \/ Drop(c) \/ BeginLook(c) \/ BeginClose(c) \/ \E n \in Names : BeginDel(c, n)
         PROVE  Placed'
    <2>1. call[c].op \in {"have", "look"} /\ UNCHANGED <<groups, life>>
      BY <1>13 DEF Look, Drop, BeginLook, BeginClose, BeginDel
    <2>2. call'[c].op \notin {"closing", "shutting"} /\ call' = [call EXCEPT ![c] = call'[c]]
      <3>1. CASE call' = [call EXCEPT ![c] = Idle]
        BY <3>1 DEF TypeOK, Idle
      <3>2. CASE BeginLook(c) \/ BeginClose(c)
        BY <3>2 DEF BeginLook, BeginClose, TypeOK
      <3>3. ASSUME NEW n \in Names, BeginDel(c, n)
            PROVE  call'[c].op \notin {"closing", "shutting"} /\ call' = [call EXCEPT ![c] = call'[c]]
        BY <3>3 DEF BeginDel, TypeOK
      <3>4. QED  BY <1>13, <3>1, <3>2, <3>3 DEF Look, Drop, Return
    <2>3. QED  BY <1>2, <2>1, <2>2
  <1>14. QED
    BY <1>1, <1>3, <1>4, <1>5, <1>7, <1>8, <1>9, <1>10, <1>11, <1>12, <1>13
       DEF Next, Start, TakeLock, Continue

(* Nobody else brings along what a call brings along.                      *)
LEMMA HeldStep == Typed /\ Named /\ Placed /\ Held /\ [Next]_vars => Held'
  <1> SUFFICES ASSUME TypeOK, Named, Placed, Held, [Next]_vars
               PROVE  Held'
    BY DEF Typed
  <1>1. ASSUME \A c \in Callers : Handed(c)' => Handed(c) /\ call'[c] = call[c],
               \A c \in Callers : Handed(c)' => life'[call[c].group] = life[call[c].group]
        PROVE  Held'
    BY <1>1 DEF Held
  <1>2. ASSUME NEW c \in Callers, call' = [call EXCEPT ![c] = call'[c]],
               call'[c].op # "add group",
               \A d \in Callers : d # c /\ Handed(d) => life'[call[d].group] = life[call[d].group]
        PROVE  Held'
    <2>1. \A d \in Callers : Handed(d)' => d # c /\ call'[d] = call[d] /\ Handed(d)
      BY <1>2 DEF Handed, TypeOK
    <2>2. QED  BY <1>1, <1>2, <2>1
  <1>3. CASE UNCHANGED vars
    BY <1>1, <1>3 DEF vars, Handed
  <1>4. \A d \in Callers : Handed(d) => call[d].group \in Groups /\ life[call[d].group] = "passed"
    BY CallShape DEF Held, Handed, TypeOK
  <1>5. ASSUME NEW c \in Callers, CloseGroup(c)
        PROVE  Held'
    <2>1. PICK g \in call[c].left : life' = [life EXCEPT ![g] = "closed"]
      BY <1>5, ClosesGroup
    <2>2. /\ call[c].op \in {"closing", "shutting"} /\ g \in Groups
          /\ call'[c].op # "add group" /\ call' = [call EXCEPT ![c] = call'[c]]
      BY <1>5, <2>1, ClosesGroup
    <2>3. life[g] = "managed"
      BY <2>2 DEF Placed, ToClose
    <2>4. \A d \in Callers : Handed(d) => life'[call[d].group] = life[call[d].group]
      BY <1>4, <2>1, <2>3 DEF TypeOK
    <2>5. QED  BY <1>2, <2>2, <2>4
  <1>6. ASSUME NEW c \in Callers, AddBackendGroup(c) \/ AddPanics(c)
        PROVE  Held'
    <2>1. Handed(c) /\ call' = [call EXCEPT ![c] = Idle]
      BY <1>6 DEF AddBackendGroup, AddPanics, Return, Handed
    <2>2. call'[c].op # "add group" /\ call' = [call EXCEPT ![c] = call'[c]]
      BY <2>1 DEF TypeOK, Idle
    <2>3. life' = [life EXCEPT ![call[c].group] = life'[call[c].group]]
      BY <1>6, <1>4, <2>1 DEF AddBackendGroup, AddPanics, GoesBack, TypeOK
    <2>4. \A d \in Callers : d # c /\ Handed(d) => call[d].group # call[c].group
      BY <2>1 DEF Held
    <2>5. \A d \in Callers : d # c /\ Handed(d) => life'[call[d].group] = life[call[d].group]
      BY <1>4, <2>3, <2>4 DEF TypeOK
    <2>6. QED  BY <1>2, <2>2, <2>5
  <1>7. ASSUME NEW c \in Callers, DelBackendGroupByName(c)
        PROVE  Held'
    <2> DEFINE m == call[c].mgr
               n == call[c].name
               g == groups[m][n]
    <2>1. /\ call[c].op = "delete group" /\ m \in Managers /\ n \in Names
          /\ call'[c].op = "idle" /\ call' = [call EXCEPT ![c] = call'[c]]
      <3>1. call[c].op = "delete group" /\ call[c] \in Calls
        BY <1>7 DEF DelBackendGroupByName, TypeOK
      <3>2. call'[c].op = "idle" /\ call' = [call EXCEPT ![c] = call'[c]]
        BY <1>7 DEF DelBackendGroupByName, Return, TypeOK, Idle
      <3>3. QED  BY <3>1, <3>2, CallShape
    <2>2. CASE UNCHANGED life
      BY <1>2, <2>1, <2>2
    <2>3. CASE groups[m] # None /\ groups[m][n] # None /\ life' = [life EXCEPT ![g] = "loose"]
      <3>1. g \in Groups /\ Name[g] = n
        <4>1. groups[m] \in [Names -> Groups \cup {None}]
          BY <2>1, <2>3 DEF TypeOK
        <4>2. QED  BY <2>1, <2>3, <4>1 DEF Named
      <3>2. life[g] = "managed"
        BY <2>1, <2>3, <3>1 DEF Placed, In
      <3>3. \A d \in Callers : Handed(d) => life'[call[d].group] = life[call[d].group]
        BY <1>4, <2>3, <3>2 DEF TypeOK
      <3>4. QED  BY <1>2, <2>1, <3>3
    <2>4. QED  BY <1>7, <2>2, <2>3 DEF DelBackendGroupByName
  <1>8. ASSUME NEW c \in Callers, NEW g \in Groups, BeginAdd(c, g)
        PROVE  Held'
    <2>1. /\ life[g] # "passed" /\ life' = [life EXCEPT ![g] = "passed"]
          /\ call' = [call EXCEPT ![c] = call'[c]] /\ call'[c].group = g
      BY <1>8 DEF BeginAdd, TypeOK
    <2>2. \A d \in Callers : d # c => call'[d] = call[d]
      BY <2>1 DEF TypeOK
    <2>3. \A d \in Callers : Handed(d) => call[d].group # g
      BY <1>4, <2>1
    <2>4. life'[g] = "passed" /\ \A h \in Groups : h # g => life'[h] = life[h]
      BY <2>1 DEF TypeOK
    <2>5. \A d \in Callers : d # c => (Handed(d)' <=> Handed(d))
      BY <2>2 DEF Handed
    <2>6. QED  BY <1>4, <2>1, <2>2, <2>3, <2>4, <2>5 DEF Held
  <1>9. ASSUME NEW c \in Callers, call'[c].op # "add group", call' = [call EXCEPT ![c] = call'[c]],
               life' = life
        PROVE  Held'
    BY <1>2, <1>9
  <1>10. ASSUME NEW c \in Callers, NEW h \in Hosts,
                AddHost(c, h) \/ DelHost(c, h) \/ GetBackendGroupManager(c, h)
         PROVE  Held'
    <2>1. /\ call'[c].op # "add group" /\ call' = [call EXCEPT ![c] = call'[c]]
          /\ life' = life
      <3>1. CASE AddHost(c, h)
        BY <3>1 DEF AddHost, TypeOK
      <3>2. CASE DelHost(c, h)
        BY <3>2 DEF DelHost, TypeOK
      <3>3. CASE GetBackendGroupManager(c, h)
        BY <3>3 DEF GetBackendGroupManager, TypeOK
      <3>4. QED  BY <1>10, <3>1, <3>2, <3>3
    <2>2. QED  BY <1>9, <2>1
  <1>11. ASSUME NEW c \in Callers, AddManager(c) \/ DelManager(c)
         PROVE  Held'
    <2>1. /\ life' = life
          /\ \/ call' = [call EXCEPT ![c] = Idle]
             \/ call' = [call EXCEPT ![c] = [op |-> "close", mgr |-> bgms[call[c].host]]]
      BY <1>11 DEF AddManager, DelManager
    <2>2. call'[c].op # "add group" /\ call' = [call EXCEPT ![c] = call'[c]]
      <3>1. CASE call' = [call EXCEPT ![c] = Idle]
        BY <3>1 DEF TypeOK, Idle
      <3>2. CASE call' = [call EXCEPT ![c] = [op |-> "close", mgr |-> bgms[call[c].host]]]
        BY <3>2 DEF TypeOK
      <3>3. QED  BY <2>1, <3>1, <3>2
    <2>3. QED  BY <1>9, <2>1, <2>2
  <1>12. ASSUME NEW c \in Callers,
                \/ Look(c) \/ Drop(c) \/ BeginLook(c) \/ BeginClose(c) \/ DelHostEnd(c)
                \/ CloseEnd(c) \/ CloseManager(c) \/ \E n \in Names : BeginDel(c, n)
         PROVE  Held'
    <2>1. life' = life
      BY <1>12 DEF Look, Drop, BeginLook, BeginClose, BeginDel, DelHostEnd, CloseEnd, CloseManager
    <2>2. call'[c].op # "add group" /\ call' = [call EXCEPT ![c] = call'[c]]
      <3>1. CASE call' = [call EXCEPT ![c] = Idle]
        BY <3>1 DEF TypeOK, Idle
      <3>2. ASSUME NEW op \in {"look", "shut"}, call' = [call EXCEPT ![c] = [op |-> op, mgr |-> call[c].mgr]]
            PROVE  call'[c].op # "add group" /\ call' = [call EXCEPT ![c] = call'[c]]
        BY <3>2 DEF TypeOK
      <3>3. ASSUME NEW n \in Names, BeginDel(c, n)
            PROVE  call'[c].op # "add group" /\ call' = [call EXCEPT ![c] = call'[c]]
        BY <3>3 DEF BeginDel, TypeOK
      <3>4. CASE CloseManager(c)
        BY <3>4, ClosesManager DEF After
      <3>5. QED
        BY <1>12, <3>1, <3>2, <3>3, <3>4 DEF Look, Drop, BeginLook, BeginClose, DelHostEnd, CloseEnd, Return
    <2>3. QED  BY <1>9, <2>1, <2>2
  <1>13. QED
    BY <1>3, <1>5, <1>6, <1>7, <1>8, <1>10, <1>11, <1>12
       DEF Next, Start, TakeLock, Continue

(* A managed group is in one place, and no other group is in any           *)
(* (backend_group_manager.go 39-81, 128-138).                              *)
THEOREM GroupHasOnePlace == Spec => []GroupInOnePlace
  <1>1. Init => Named /\ Placed /\ Held
    <2> SUFFICES ASSUME Init
                 PROVE  Named /\ Placed /\ Held
      OBVIOUS
    <2>1. Held
      BY DEF Init, Idle, Held, Handed
    <2>2. \A m \in Managers, n \in Names : groups[m][n] = None
      BY DEF Init, Empty
    <2>3. Named
      BY <2>2 DEF Named
    <2>4. \A g \in Groups, c \in Callers : ~ToClose(c, g)
      BY DEF Init, Idle, ToClose
    <2>5. \A g \in Groups, m \in Managers : ~In(m, g)
      BY <2>2 DEF In, Names
    <2>6. QED  BY <2>1, <2>3, <2>4, <2>5 DEF Init, Placed
  <1>2. TypeOK /\ Placed => GroupInOnePlace
    <2> SUFFICES ASSUME TypeOK, Placed, NEW g \in Groups
                 PROVE  IF life[g] = "managed" THEN \E p \in Places(g) : Places(g) = {p}
                                               ELSE Places(g) = {}
      BY DEF GroupInOnePlace
    <2>1. Places(g) = {m \in Managers : In(m, g)} \cup {c \in Callers : ToClose(c, g)}
      BY DEF Places, In, ToClose
    <2>2. CASE life[g] # "managed"
      BY <2>1, <2>2 DEF Placed
    <2>3. ASSUME life[g] = "managed", NEW m \in Managers, In(m, g)
          PROVE  Places(g) = {m}
      BY <2>1, <2>3 DEF Placed
    <2>4. ASSUME life[g] = "managed", NEW c \in Callers, ToClose(c, g)
          PROVE  Places(g) = {c}
      <3>1. \A d \in Callers : ToClose(d, g) => d = c
        BY <2>4 DEF Placed
      <3>2. QED  BY <2>1, <2>4, <3>1 DEF Placed
    <2>5. CASE life[g] = "managed"
      <3>1. (\E m \in Managers : In(m, g)) \/ (\E c \in Callers : ToClose(c, g))
        BY <2>5 DEF Placed
      <3>2. QED  BY <2>3, <2>4, <2>5, <3>1
    <2>6. QED  BY <2>2, <2>5
  <1>3. QED
    BY TypedHolds, <1>1, <1>2, NamedStep, PlacedStep, HeldStep, PTL DEF Spec, Typed
=============================================================================
