--------------------------- MODULE AdmissionLimit ---------------------------
(* What a limited backend promises: never more than Limit requests are     *)
(* being served at once, and 0 stands for no limit.                        *)
EXTENDS Integers, FiniteSets

CONSTANTS Requests, Limit

VARIABLE inside   \* the requests that are being served

Init == inside = {}

Admit(r) ==
  /\ r \notin inside
  /\ Limit = 0 \/ Cardinality(inside) < Limit
  /\ inside' = inside \cup {r}

Release(r) == r \in inside /\ inside' = inside \ {r}

Next == \E r \in Requests : Admit(r) \/ Release(r)

Spec == Init /\ [][Next]_inside
=============================================================================
