----------------------------- MODULE VersionedKeys -----------------------------
(***************************************************************************)
(* What the key store promises: every key has a history of versions, and   *)
(* creation and rotation each change it in one atomic step.  A revocation  *)
(* is two steps: it looks, which fixes the versions it covers, and it      *)
(* revokes exactly these; a rotation in between counts as one after the    *)
(* revocation.  There are no transactions, locks, retries or metadata.     *)
(* KeyStore implements this specification.                                 *)
(***************************************************************************)
EXTENDS Integers

CONSTANTS Keys,    \* key ids
          Deks,    \* data encryption keys
          Callers  \* who revokes keys

VARIABLES versions,  \* versions[k][v], v \in 1..n: the n versions of key k
          revoking   \* revoking[c]: the versions the revocation of c covers

vars == <<versions, revoking>>

NoVersions == [v \in {} |-> 0]

Absent == {k \in Keys : versions[k] = NoVersions}

Init ==
    /\ versions = [k \in Keys |-> NoVersions]
    /\ revoking = [c \in Callers |-> {}]

\* Some keys that do not exist get their first version.
Create ==
    /\ \E S \in SUBSET Absent, d \in Deks :
        versions' = [k \in Keys |->
                        IF k \in S THEN [v \in 1..1 |-> [status |-> "active", dek |-> d]]
                        ELSE versions[k]]
    /\ UNCHANGED revoking

\* The history h of n versions after a rotation: the latest version is demoted,
\* a new active one follows.
Rotated(h, n, d) ==
    [v \in 1..(n + 1) |->
        IF v = n + 1 THEN [status |-> "active", dek |-> d]
        ELSE IF v = n THEN [status |-> "rotated", dek |-> h[v].dek]
        ELSE h[v]]

\* A rotation brings a DEK the key has never had.
Rotate ==
    /\ \E k \in Keys \ Absent :
        LET h == versions[k]
            n == CHOOSE v \in DOMAIN h : v + 1 \notin DOMAIN h
        IN  \E d \in Deks \ {h[v].dek : v \in DOMAIN h} :
                versions' = [versions EXCEPT ![k] = Rotated(h, n, d)]
    /\ UNCHANGED revoking

\* All versions there are of the keys S.
AllVersions(S) == UNION {{k} \X DOMAIN versions[k] : k \in S}

\* A revocation of the keys S looks: it covers every version there is now.
Look(c, S) ==
    /\ revoking[c] = {}
    /\ revoking' = [revoking EXCEPT ![c] = AllVersions(S)]
    /\ UNCHANGED versions

\* The history h of key k after a revocation of the versions in R.
Revoked(k, h, R) ==
    [v \in DOMAIN h |->
        IF <<k, v>> \in R THEN [status |-> "revoked", dek |-> h[v].dek] ELSE h[v]]

\* It revokes all that it covers at once.
Revoke(c) ==
    /\ versions' = [k \in Keys |-> Revoked(k, versions[k], revoking[c])]
    /\ revoking' = [revoking EXCEPT ![c] = {}]

\* It fails, and revokes nothing.
GiveUp(c) ==
    /\ revoking' = [revoking EXCEPT ![c] = {}]
    /\ UNCHANGED versions

Next ==
    \/ Create \/ Rotate
    \/ \E c \in Callers : \/ \E S \in SUBSET Keys : Look(c, S)
                          \/ Revoke(c) \/ GiveUp(c)

Spec == Init /\ [][Next]_vars
=============================================================================
