--------------------------- MODULE MCAuthentication ---------------------------
(* TLC instance of Authentication. *)
EXTENDS Authentication, TLC

\* A file with two members; one that makes the first an administrator and no
\* longer lists the second; and one that is refused.
MCClientFiles ==
    {[u1 |-> {"member"}, u2 |-> {"member"}], [u1 |-> {"admin"}], [u1 |-> {}]}

\* No action or property tells one token id or one request from another.
Symmetry == Permutations(Tokens) \cup Permutations(Reqs)
=============================================================================
