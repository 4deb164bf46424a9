----------------------- MODULE MCKeyRotationPipeline ------------------------
(* TLC instances of KeyRotationPipeline.  Their runs check liveness, so none of them uses *)
(* symmetry. *)
EXTENDS KeyRotationPipeline, TLC
=============================================================================
