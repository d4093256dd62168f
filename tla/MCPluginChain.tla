---------------------------- MODULE MCPluginChain ----------------------------
(* A small instance of PluginChain for TLC.                                *)
EXTENDS PluginChain, TLC

CONSTANTS token, token2, log, limit, k1, k2

(* Two plugins compete for a name, with different priorities.              *)
NameOf == token :> "token" @@ token2 :> "token" @@ log :> "log" @@ limit :> "limit"
PriorityOf == token :> 1 @@ token2 :> 3 @@ log :> 2 @@ limit :> 2

Symmetry == Permutations(Configs)
=============================================================================
