-------------------------- MODULE MCGatewayRoutes --------------------------
(* Small instances of GatewayRoutes for TLC: an exact host, which requests *)
(* ask for by its name, and a pattern that matches the same name.          *)
EXTENDS GatewayRoutes, TLC

CONSTANTS c1, c2, r1, r2, www, re, get, post, f1, f2, f3, m1, m2, n1

Symmetry ==
  Permutations(Callers) \cup Permutations(Forwarders) \cup Permutations(Mdws)
    \cup Permutations(Requests) \cup Permutations(Keys)
=============================================================================
