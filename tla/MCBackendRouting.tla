-------------------------- MODULE MCBackendRouting --------------------------
(* Small instances of BackendRouting for TLC.                              *)
EXTENDS BackendRouting, TLC

CONSTANTS f1, f2, g1, b1, b2, c1, c2

OwnName == [f \in Forwarders |-> f]

(* Groups only: every backend belongs to g1.                               *)
IdsOfOneGroup == [o \in Owners |-> IF o = g1 THEN Backends ELSE {}]

(* Backends configured on the forwarders only.                             *)
IdsOfForwarders == [o \in Owners |-> IF o \in Forwarders THEN Backends ELSE {}]

(* b1 belongs to the groups, b2 to the forwarders.                         *)
IdsMixed == [o \in Owners |-> IF o \in Groups THEN {b1} ELSE {b2}]

CallerSymmetry == Permutations(Callers)
=============================================================================
