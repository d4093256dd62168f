--------------------------- MODULE MCGatewayNames ---------------------------
EXTENDS GatewayNames, TLC
CONSTANTS g1, g2, n1, n2, c1, c2
Symmetry == Permutations({g1, g2}) \cup Permutations({c1, c2}) \cup Permutations({n1, n2})
=============================================================================
