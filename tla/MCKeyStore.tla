----------------------------- MODULE MCKeyStore -----------------------------
(* TLC instances of KeyStore. *)
EXTENDS KeyStore
=============================================================================
