--------------------------- MODULE MCMultiKeyCalls ---------------------------
(* TLC instance of MultiKeyCalls. *)
EXTENDS MultiKeyCalls
=============================================================================
