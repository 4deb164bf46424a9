------------------------- MODULE MCCachedRepository -------------------------
(* TLC instances of CachedRepository.  Their runs check liveness, so none of them uses *)
(* symmetry. *)
EXTENDS CachedRepository, TLC
=============================================================================
