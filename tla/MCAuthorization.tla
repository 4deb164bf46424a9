---------------------------- MODULE MCAuthorization ----------------------------
(* TLC instance of Authorization. *)
EXTENDS Authorization, TLC

MCRoleOps == [admin |-> {"*"}, reader |-> {"keys:read"}]

\* A file with two readers, who may not create keys; one that makes the first an
\* administrator and no longer lists the second.
MCClientFiles == {[u1 |-> {"reader"}, u2 |-> {"reader"}], [u1 |-> {"admin"}]}

\* No action or property tells one request from another.
Symmetry == Permutations(Reqs)
=============================================================================
