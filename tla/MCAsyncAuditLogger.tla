------------------------- MODULE MCAsyncAuditLogger -------------------------
(* TLC instances of AsyncAuditLogger.  Their runs check liveness, so none of them uses *)
(* symmetry. *)
EXTENDS AsyncAuditLogger, TLC
=============================================================================
