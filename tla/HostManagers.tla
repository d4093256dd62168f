---------------------------- MODULE HostManagers ----------------------------
(***************************************************************************)
(* The gateway of the load balancer (forward/lb/gateway.go), which keeps a *)
(* manager of backend groups for each host of the gateway it wraps, and    *)
(* the managers (backend_group_manager.go).  AddHost and DelHost call the  *)
(* wrapped gateway first and take g.lock afterwards.                       *)
(*                                                                         *)
(* Closing a manager sets its map to nil.  A later store into it panics    *)
(* with m.lock held and no deferred unlock; the goroutine is taken to      *)
(* recover, as the handlers of net/http do, so that the lock stays locked. *)
(***************************************************************************)
EXTENDS Integers, FiniteSets

CONSTANTS
  Callers,      \* the goroutines that call the gateway and the managers
  Hosts,
  Groups,       \* the backend groups that are ever made
  Name,         \* Name[g]: the name of the group g
  None,
  MaxManagers   \* bound: the managers that are ever made

Names == {Name[g] : g \in Groups}
Managers == 1..MaxManagers

ASSUME NoneAssumption ==
  /\ None \notin Callers \cup Groups \cup Nat
  /\ None \notin [Names -> Groups \cup {None}]
ASSUME BoundAssumption == MaxManagers \in Nat

VARIABLES
  hosts,    \* the hosts of the wrapped gateway
  glock,    \* who holds g.lock for writing
  bgms,     \* g.bgms[h]
  made,     \* how many managers were made
  groups,   \* groups[m]: m.groups, None when it is nil
  stuck,    \* the managers whose lock a panic left locked
  life,     \* the life of a group
  call,     \* call[c]: the call that c is in
  raced     \* history: hosts whose last call began while another was under way

vars == <<hosts, glock, bgms, made, groups, stuck, life, call, raced>>

Idle == [op |-> "idle"]
Empty == [n \in Names |-> None]

Init ==
  /\ hosts = {}
  /\ glock = None
  /\ bgms = [h \in Hosts |-> None]
  /\ made = 0
  /\ groups = [m \in Managers |-> Empty]
  /\ stuck = {}
  /\ life = [g \in Groups |-> "new"]
  /\ call = [c \in Callers |-> Idle]
  /\ raced = {}

-----------------------------------------------------------------------------
(* Hosts *)

Changing(c) == call[c].op \in {"add", "delete", "close", "closing"}

(* Another call is between its two steps on the host h.                    *)
Midway(h) == \E d \in Callers : call[d].op \in {"add", "delete"} /\ call[d].host = h
NoteRace(h) == raced' = IF Midway(h) THEN raced \cup {h} ELSE raced \ {h}

(* g.Gateway.AddHost(host); on an error AddHost returns.  The bound leaves  *)
(* a manager for each call that is under way.                              *)
AddHost(c, h) ==
  /\ call[c] = Idle
  /\ NoteRace(h)
  /\ made + Cardinality({d \in Callers : call[d].op = "add"}) < MaxManagers
  /\ hosts' = hosts \cup {h}
  /\ call' = [call EXCEPT ![c] = [op |-> "add", host |-> h]]
  /\ UNCHANGED <<glock, bgms, made, groups, stuck, life>>

(* Variant: the map is not looked at first.                                *)
MissingAlways(h) == TRUE

Missing(h) == bgms[h] = None

(* The rest of AddHost, under g.lock.                                      *)
AddManager(c) ==
  /\ call[c].op = "add" /\ glock = None
  /\ IF Missing(call[c].host)
       THEN /\ made' = made + 1
            /\ bgms' = [bgms EXCEPT ![call[c].host] = made + 1]
       ELSE UNCHANGED <<made, bgms>>
  /\ call' = [call EXCEPT ![c] = Idle]
  /\ UNCHANGED <<hosts, glock, groups, stuck, life, raced>>

(* g.Gateway.DelHost(host), which succeeds for an unknown host, too.       *)
DelHost(c, h) ==
  /\ call[c] = Idle
  /\ NoteRace(h)
  /\ hosts' = hosts \ {h}
  /\ call' = [call EXCEPT ![c] = [op |-> "delete", host |-> h]]
  /\ UNCHANGED <<glock, bgms, made, groups, stuck, life>>

(* Variant: the manager is closed, but stays in the map.                   *)
ForgetManagerNot(h) == UNCHANGED bgms

ForgetManager(h) == bgms' = [bgms EXCEPT ![h] = None]

(* DelHost takes g.lock and keeps it until the manager is closed.          *)
DelManager(c) ==
  /\ call[c].op = "delete" /\ glock = None
  /\ LET m == bgms[call[c].host] IN
       IF m = None
         THEN /\ call' = [call EXCEPT ![c] = Idle]
              /\ UNCHANGED <<glock, bgms>>
         ELSE /\ glock' = c
              /\ ForgetManager(call[c].host)
              /\ call' = [call EXCEPT ![c] = [op |-> "close", mgr |-> m]]
  /\ UNCHANGED <<hosts, made, groups, stuck, life, raced>>

Unlocked(m) == m \notin stuck

(* What a manager that is open has; one that is closed has nothing.        *)
Managed(m) == IF groups[m] = None THEN {} ELSE {groups[m][n] : n \in Names} \ {None}

(* BackendGroupManager.Close, called by DelHost ("close") or by who has    *)
(* the manager ("shut"): the map is taken and set to nil under m.lock.     *)
CloseManager(c) ==
  /\ call[c].op \in {"close", "shut"} /\ Unlocked(call[c].mgr)
  /\ groups' = [groups EXCEPT ![call[c].mgr] = None]
  /\ call' = [call EXCEPT ![c] =
       [op |-> IF call[c].op = "close" THEN "closing" ELSE "shutting",
        left |-> Managed(call[c].mgr)]]
  /\ UNCHANGED <<hosts, glock, bgms, made, stuck, life, raced>>

CloseGroup(c) ==
  /\ call[c].op \in {"closing", "shutting"}
  /\ \E g \in call[c].left :
       /\ life' = [life EXCEPT ![g] = "closed"]
       /\ call' = [call EXCEPT ![c].left = @ \ {g}]
  /\ UNCHANGED <<hosts, glock, bgms, made, groups, stuck, raced>>

(* Variant: g.lock is not released.                                        *)
ReleaseNot == UNCHANGED glock

Release == glock' = None

DelHostEnd(c) ==
  /\ call[c].op = "closing" /\ call[c].left = {}
  /\ Release
  /\ call' = [call EXCEPT ![c] = Idle]
  /\ UNCHANGED <<hosts, bgms, made, groups, stuck, life, raced>>

-----------------------------------------------------------------------------
(* Groups: a caller gets a manager and then calls it.                      *)

GetBackendGroupManager(c, h) ==
  /\ call[c] = Idle /\ glock = None
  /\ bgms[h] # None
  /\ call' = [call EXCEPT ![c] = [op |-> "have", mgr |-> bgms[h]]]
  /\ UNCHANGED <<hosts, glock, bgms, made, groups, stuck, life, raced>>

(* A call of the manager begins; it goes on when it gets m.lock.  The two  *)
(* that add a group bring one along: AddOrNewBackendGroup one that it will *)
(* have made if it finds none, AddBackendGroup one that was taken out.     *)
BeginAdd(c, g) ==
  /\ call[c].op = "have"
  /\ life[g] \in {"new", "loose"}
  /\ life' = [life EXCEPT ![g] = "passed"]
  /\ call' = [call EXCEPT ![c] =
       [op |-> "add group", mgr |-> call[c].mgr, group |-> g, was |-> life[g]]]
  /\ UNCHANGED <<hosts, glock, bgms, made, groups, stuck, raced>>

BeginClose(c) ==
  /\ call[c].op = "have"
  /\ call' = [call EXCEPT ![c] = [op |-> "shut", mgr |-> call[c].mgr]]
  /\ UNCHANGED <<hosts, glock, bgms, made, groups, stuck, life, raced>>

BeginDel(c, n) ==
  /\ call[c].op = "have"
  /\ call' = [call EXCEPT ![c] = [op |-> "delete group", mgr |-> call[c].mgr, name |-> n]]
  /\ UNCHANGED <<hosts, glock, bgms, made, groups, stuck, life, raced>>

(* The calls that need m.lock and change no manager: the getters, and      *)
(* DelUpdaterByName, which is BackendRouting's for each group.             *)
BeginLook(c) ==
  /\ call[c].op = "have"
  /\ call' = [call EXCEPT ![c] = [op |-> "look", mgr |-> call[c].mgr]]
  /\ UNCHANGED <<hosts, glock, bgms, made, groups, stuck, life, raced>>

Return(c) == call' = [call EXCEPT ![c] = Idle]
GoesBack(c) == life' = [life EXCEPT ![call[c].group] = call[c].was]

Store(m, n, g) == groups' = [groups EXCEPT ![m] = [x \in Names |-> IF x = n THEN g ELSE groups[m][x]]]

(* Variant: stores without looking.                                        *)
VacantAlways(m, n) == TRUE

Vacant(m, n) == groups[m][n] = None

(* AddOrNewBackendGroup and AddBackendGroup: the name is looked up, and    *)
(* the group stored only if nothing is there.                              *)
AddBackendGroup(c) ==
  /\ call[c].op = "add group" /\ Unlocked(call[c].mgr)
  /\ groups[call[c].mgr] # None
  /\ LET m == call[c].mgr  g == call[c].group IN
       IF Vacant(m, Name[g])
         THEN /\ Store(m, Name[g], g)
              /\ life' = [life EXCEPT ![g] = "managed"]
         ELSE GoesBack(c) /\ UNCHANGED groups
  /\ Return(c)
  /\ UNCHANGED <<hosts, glock, bgms, made, stuck, raced>>

(* The store into the nil map panics, and m.lock stays locked.             *)
AddPanics(c) ==
  /\ call[c].op = "add group" /\ Unlocked(call[c].mgr)
  /\ groups[call[c].mgr] = None
  /\ stuck' = stuck \cup {call[c].mgr}
  /\ GoesBack(c)
  /\ Return(c)
  /\ UNCHANGED <<hosts, glock, bgms, made, groups, raced>>

(* Variant: returns early, with m.lock held, if the name is not there.     *)
UnlockIfFound(m, found) == stuck' = IF found THEN stuck ELSE stuck \cup {m}

Unlock(m, found) == UNCHANGED stuck

(* DelBackendGroupByName.  The group is returned, and is not closed.       *)
DelBackendGroupByName(c) ==
  /\ call[c].op = "delete group" /\ Unlocked(call[c].mgr)
  /\ LET m == call[c].mgr
         n == call[c].name
         found == groups[m] # None /\ groups[m][n] # None
     IN  /\ Unlock(m, found)
         /\ IF found
              THEN life' = [life EXCEPT ![groups[m][n]] = "loose"] /\ Store(m, n, None)
              ELSE UNCHANGED <<groups, life>>
  /\ Return(c)
  /\ UNCHANGED <<hosts, glock, bgms, made, raced>>

Look(c) ==
  /\ call[c].op = "look" /\ Unlocked(call[c].mgr)
  /\ Return(c)
  /\ UNCHANGED <<hosts, glock, bgms, made, groups, stuck, life, raced>>

CloseEnd(c) ==
  /\ call[c].op = "shutting" /\ call[c].left = {}
  /\ Return(c)
  /\ UNCHANGED <<hosts, glock, bgms, made, groups, stuck, life, raced>>

(* The manager is put aside.                                               *)
Drop(c) ==
  /\ call[c].op = "have"
  /\ Return(c)
  /\ UNCHANGED <<hosts, glock, bgms, made, groups, stuck, life, raced>>

-----------------------------------------------------------------------------
TakeLock(c) == AddManager(c) \/ DelManager(c)

Continue(c) ==
  \/ CloseManager(c) \/ CloseGroup(c) \/ DelHostEnd(c) \/ CloseEnd(c)
  \/ AddBackendGroup(c) \/ AddPanics(c) \/ DelBackendGroupByName(c) \/ Look(c)

Start(c) ==
  \/ \E h \in Hosts : AddHost(c, h) \/ DelHost(c, h) \/ GetBackendGroupManager(c, h)
  \/ \E g \in Groups : BeginAdd(c, g)
  \/ \E n \in Names : BeginDel(c, n)
  \/ BeginClose(c) \/ BeginLook(c) \/ Drop(c)

Next == \E c \in Callers : Start(c) \/ TakeLock(c) \/ Continue(c)

Spec == Init /\ [][Next]_vars

(* Every goroutine keeps running, and Go's locks are fair to those that    *)
(* wait: g.lock is taken again and again, a manager's lock is held for one *)
(* step or for ever.  Nobody is bound to start a call.                     *)
FairSpec ==
  Spec /\ \A c \in Callers : SF_vars(TakeLock(c)) /\ WF_vars(Continue(c))

-----------------------------------------------------------------------------
Calls ==
  {Idle}
    \cup [op : {"add", "delete"}, host : Hosts]
    \cup [op : {"close", "have", "shut", "look"}, mgr : Managers]
    \cup [op : {"closing", "shutting"}, left : SUBSET Groups]
    \cup [op : {"add group"}, mgr : Managers, group : Groups, was : {"new", "loose"}]
    \cup [op : {"delete group"}, mgr : Managers, name : Names]

TypeOK ==
  /\ hosts \subseteq Hosts
  /\ glock \in Callers \cup {None}
  /\ bgms \in [Hosts -> Managers \cup {None}]
  /\ made \in 0..MaxManagers
  /\ groups \in [Managers -> [Names -> Groups \cup {None}] \cup {None}]
  /\ stuck \subseteq Managers
  /\ life \in [Groups -> {"new", "passed", "managed", "loose", "closed"}]
  /\ call \in [Callers -> Calls]
  /\ raced \subseteq Hosts
  /\ \A c \in Callers : glock = c <=> call[c].op \in {"close", "closing"}

(* A host of the wrapped gateway has a manager, and no other host has one, *)
(* when no call is between its two steps on the host.  The only exception  *)
(* is a host on which AddHost and DelHost, or two of them, have overlapped *)
(* (raced), until a call begins while no other is under way on it: calls   *)
(* on other hosts never disturb it, and the next call heals it;            *)
(* forward/lb/gateway.go 66-91: "AddHost replaces the method               *)
(* g.Gateway.AddHost to also add the backend group manager.".              *)
HostHasManager ==
  \A h \in Hosts \ raced : ~Midway(h) => (h \in hosts <=> bgms[h] # None)

(* Where a group is: in a manager, or among those a call is to close.      *)
Places(g) ==
  {m \in Managers : groups[m] # None /\ groups[m][Name[g]] = g}
    \cup {c \in Callers : call[c].op \in {"closing", "shutting"} /\ g \in call[c].left}

(* A managed group is in one place, and a group that is not is in none: a  *)
(* call that adds one while the manager is being closed neither leaves it  *)
(* open in a manager that nobody will close again, nor has it closed twice *)
(* (backend_group_manager.go 39-81, 128-138).                              *)
GroupInOnePlace ==
  \A g \in Groups :
    IF life[g] = "managed" THEN \E p \in Places(g) : Places(g) = {p}
                           ELSE Places(g) = {}

(* A manager that is open belongs to a host, or is about to be closed: no  *)
(* manager is forgotten with its groups open (gateway.go 68-91).           *)
OpenIsReachable ==
  \A m \in 1..made :
    groups[m] # None =>
      \/ \E h \in Hosts : bgms[h] = m
      \/ \E c \in Callers : call[c].op = "close" /\ call[c].mgr = m

(* AddHost and DelHost return, unless a DelHost waits, with g.lock held,   *)
(* for the lock of a manager that a panic has left locked: nothing else    *)
(* blocks them (forward/lb/gateway.go 68-91).                              *)
HostCallsReturn ==
  \A c \in Callers :
    Changing(c) ~>
      \/ ~Changing(c)
      \/ \E d \in Callers : call[d].op = "close" /\ ~Unlocked(call[d].mgr)

(* A call of a manager returns, unless a panic leaves the manager locked;  *)
(* and that takes a manager that was closed                                *)
(* (backend_group_manager.go 39-138).                                      *)
GroupCallsReturn ==
  \A c \in Callers :
    LET calling == call[c].op \in {"add group", "delete group", "look", "shut"} IN
    calling ~>
      \/ ~calling
      \/ ~Unlocked(call[c].mgr) /\ groups[call[c].mgr] = None
=============================================================================
