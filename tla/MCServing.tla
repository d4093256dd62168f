----------------------------- MODULE MCServing -----------------------------
(* Small instances of Serving for TLC: a request declares no length, one   *)
(* at the limit or one beyond it.                                          *)
EXTENDS Serving

LengthsDef == {-1, 1, 2}
=============================================================================
