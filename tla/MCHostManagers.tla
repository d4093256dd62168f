--------------------------- MODULE MCHostManagers ---------------------------
(* Small instances of HostManagers for TLC.                                *)
EXTENDS HostManagers

CONSTANTS c1, c2, h1, h2, g1, g2

(* Both groups have one name, so that they compete for it.                 *)
OneName == [g \in Groups |-> "upstream"]
=============================================================================
