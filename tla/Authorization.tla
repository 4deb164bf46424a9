----------------------------- MODULE Authorization -----------------------------
(***************************************************************************)
(* How a method of the gRPC service is authorised: the request validator,  *)
(* the scope of the method against the roles of the token, the identity    *)
(* checks, the cache of positive decisions, and the check of the key's     *)
(* authorised contexts and storage profile; then the method runs.          *)
(*                                                                         *)
(* Requests are processes whose steps are the accesses to shared state:    *)
(* the decision cache and the key repository.  A request that is rejected  *)
(* before its first access changes nothing, so its checks are the guard of *)
(* the step.  A token is a grant here, a user with roles; that grants end  *)
(* and are revoked is the subject of module Authentication.  Of a key only *)
(* what the authoriser reads is kept, which no operation but the creation  *)
(* sets: a rotation copies it, and a metadata update, which ignores the    *)
(* contexts to add and to remove in the request, writes it back.           *)
(***************************************************************************)
EXTENDS Naturals

CONSTANTS Users,
          RoleOps,      \* config: the operations of each role
          ClientFiles,  \* client files the server may be started with
          Keys,
          Reqs,         \* concurrent requests
          Methods,      \* methods that are called
          Tiers,        \* client tiers requests claim
          EnforceMTLS,  \* config: the certificate must name the user
          NoKey         \* the zero key id

\* constants.MethodScopes.
MethodScopes ==
    [GetKey |-> "keys:read", CreateKey |-> "keys:create", ListKeys |-> "keys:list",
     RotateKey |-> "keys:rotate", RevokeKey |-> "keys:revoke",
     UpdateKeyMetadata |-> "keys:update", GetKeyMetadata |-> "keys:read"]

\* PolykeyService: the scope each method is called with, and whether it is
\* authorised for one key (execWithAuth) or for none (execWithoutKey).
MethodTable ==
    LET M(name, keyed) == [scope |-> MethodScopes[name], keyed |-> keyed]
    IN  [GetKey                 |-> M("GetKey", TRUE),
         GetKeyMetadata         |-> M("GetKeyMetadata", TRUE),
         RotateKey              |-> M("RotateKey", TRUE),
         RevokeKey              |-> M("RevokeKey", TRUE),
         UpdateKeyMetadata      |-> M("UpdateKeyMetadata", TRUE),
         CreateKey              |-> M("CreateKey", FALSE),
         ListKeys               |-> M("ListKeys", FALSE),
         BatchCreateKeys        |-> M("CreateKey", FALSE),
         BatchGetKeys           |-> M("GetKey", FALSE),
         BatchGetKeyMetadata    |-> M("GetKeyMetadata", FALSE),
         BatchRotateKeys        |-> M("RotateKey", FALSE),
         BatchRevokeKeys        |-> M("RevokeKey", FALSE),
         BatchUpdateKeyMetadata |-> M("UpdateKeyMetadata", FALSE)]

\* The methods whose validator insists on a requester context.
ContextRequired == {"GetKey", "GetKeyMetadata", "RotateKey", "RevokeKey"}

ASSUME AuthorizationAssumption ==
    /\ NoKey \notin Keys
    /\ Methods \subseteq DOMAIN MethodTable
    /\ Tiers \subseteq {"free", "pro", "enterprise", "unknown"}
    /\ \A f \in ClientFiles : DOMAIN f \subseteq Users

VARIABLES clients,  \* FileClientStore: the roles of each client in the file
          issued,   \* grants in circulation
          policy,   \* policyCache: the operations found to be allowed
          keys,     \* the authorised contexts and profile of each key
          req,      \* the progress of each request
          byAdmin   \* history: keys' operations allowed to administrators since the start

vars == <<clients, issued, policy, keys, req, byAdmin>>

-----------------------------------------------------------------------------
(* What is called *)

NoContext == "no requester context"

Profiles == {1, 2}  \* STANDARD, HARDENED

\* Mutant: the lower tiers have the unspecified profile.
GetStorageProfileForTierUnset(tier) == IF tier \in {"pro", "enterprise"} THEN 2 ELSE 0

GetStorageProfileForTier(tier) == IF tier \in {"pro", "enterprise"} THEN 2 ELSE 1

Grant == [user: Users, roles: UNION {{f[u] : u \in DOMAIN f} : f \in ClientFiles}]

Request == [pc: {"decide", "store", "run"},
            grant: Grant,
            cn: Users,  \* the common name of the certificate
            method: Methods,
            key: Keys \cup {NoKey},
            tier: Tiers \cup {NoContext}]

NoRequest == [pc |-> "idle"]

Key == [contexts: SUBSET Users, profile: Profiles]

Missing == [profile |-> 0]  \* no such key

Decisions == [user: Users, scope: {MethodTable[m].scope : m \in Methods},
              key: Keys \cup {NoKey}]

\* Decisions, grants and requests have their types; a key that exists has one of the
\* two storage profiles.
TypeOK ==
    /\ clients \in ClientFiles
    /\ issued \subseteq Grant
    /\ policy \subseteq Decisions
    /\ byAdmin \subseteq Decisions
    /\ keys \in [Keys -> Key \cup {Missing}]
    /\ req \in [Reqs -> Request \cup {NoRequest}]

-----------------------------------------------------------------------------
(* The checks *)

\* authenticateAndAuthorize and checkAuthorization: a role that allows all.
Admin(roles) ==
    \/ "*" \in roles
    \/ \E x \in roles \cap DOMAIN RoleOps : "*" \in RoleOps[x]

\* authenticateAndAuthorize.
Permits(roles, scope) ==
    \/ Admin(roles)
    \/ \E x \in roles \cap DOMAIN RoleOps : scope \in RoleOps[x]

\* Mutant: the decision is remembered without the user it was made for.
DecisionShared(q) ==
    [user |-> CHOOSE u \in Users : TRUE, scope |-> MethodTable[q.method].scope, key |-> q.key]

\* getCacheKey.
Decision(q) ==
    [user |-> q.grant.user, scope |-> MethodTable[q.method].scope, key |-> q.key]

ValidateTierForProfile(tier, profile) == profile <= GetStorageProfileForTier(tier)

\* The resource check of checkAuthorization, on a key that was found.
Allowed(q, key) ==
    \/ Admin(q.grant.roles)
    \/ q.key = NoKey
    \/ /\ key # Missing
       /\ q.grant.user \in key.contexts
       /\ q.tier # NoContext
       /\ ValidateTierForProfile(q.tier, key.profile)

-----------------------------------------------------------------------------
(* Actions *)

\* A client of the file gets a token.
Authenticate(u) ==
    /\ u \in DOMAIN clients
    /\ issued' = issued \cup {[user |-> u, roles |-> clients[u]]}
    /\ UNCHANGED <<clients, policy, keys, req, byAdmin>>

\* Up to the lookup in the decision cache.  identity is the client identity the
\* requester context claims, "" if it has none.  A method on one key may be called
\* with the zero id, which is a well-formed one.
Lookup(r, q, identity) ==
    /\ req[r] = NoRequest
    /\ q.key # NoKey => MethodTable[q.method].keyed
    /\ q.method \in ContextRequired => q.tier # NoContext
    /\ Permits(q.grant.roles, MethodTable[q.method].scope)
    /\ q.tier # NoContext => identity \in {"", q.grant.user}
    /\ EnforceMTLS => q.cn = q.grant.user
    /\ req' = [req EXCEPT ![r] =
                 [q EXCEPT !.pc = IF Decision(q) \in policy THEN "run" ELSE "decide"]]
    /\ UNCHANGED <<clients, issued, policy, keys, byAdmin>>

\* checkAuthorization; the repository may fail instead of finding the key.
Decide(r, failed) ==
    LET q == req[r]
        key == IF failed \/ q.key = NoKey THEN Missing ELSE keys[q.key]
    IN  /\ q.pc = "decide"
        /\ req' = [req EXCEPT ![r] =
                     IF Allowed(q, key) THEN [q EXCEPT !.pc = "store"] ELSE NoRequest]
        /\ byAdmin' = IF Admin(q.grant.roles) /\ q.key # NoKey
                      THEN byAdmin \cup {Decision(q)} ELSE byAdmin
        /\ UNCHANGED <<clients, issued, policy, keys>>

\* The positive decision is cached.
Store(r) ==
    /\ req[r].pc = "store"
    /\ policy' = policy \cup {Decision(req[r])}
    /\ req' = [req EXCEPT ![r] = [req[r] EXCEPT !.pc = "run"]]
    /\ UNCHANGED <<clients, issued, keys, byAdmin>>

\* The method.  A creation needs a requester context with an identity and makes
\* keys, new ones each time, for the contexts the request names; it may also
\* fail.  No other method changes what authorisation depends on.
Run(r, K, contexts) ==
    LET q == req[r]
        creates == q.method \in {"CreateKey", "BatchCreateKeys"} /\ q.tier # NoContext
    IN  /\ q.pc = "run"
        /\ \A k \in K : keys[k] = Missing
        /\ K # {} => creates
        /\ keys' = [k \in Keys |->
                      IF k \in K
                      THEN [contexts |-> contexts, profile |-> GetStorageProfileForTier(q.tier)]
                      ELSE keys[k]]
        /\ req' = [req EXCEPT ![r] = NoRequest]
        /\ UNCHANGED <<clients, issued, policy, byAdmin>>

\* A cached decision reaches its TTL.
Expire(d) ==
    /\ policy' = policy \ {d}
    /\ UNCHANGED <<clients, issued, keys, req, byAdmin>>

\* The server is stopped and started again, perhaps with another client file.
Restart(f) ==
    /\ clients' = f
    /\ policy' = {}
    /\ byAdmin' = {}
    /\ req' = [r \in Reqs |-> NoRequest]
    /\ UNCHANGED <<issued, keys>>

Init ==
    /\ clients \in ClientFiles
    /\ issued = {}
    /\ policy = {}
    /\ keys = [k \in Keys |-> Missing]
    /\ req = [r \in Reqs |-> NoRequest]
    /\ byAdmin = {}

Receive(r) ==
    \E g \in issued, cn \in Users, m \in Methods, k \in Keys \cup {NoKey},
       tier \in Tiers \cup {NoContext}, identity \in Users \cup {""} :
        Lookup(r, [pc |-> "decide", grant |-> g, cn |-> cn, method |-> m, key |-> k,
                   tier |-> tier], identity)

Handle(r) ==
    \/ Receive(r)
    \/ \E failed \in BOOLEAN : Decide(r, failed)
    \/ Store(r)
    \/ \E K \in SUBSET Keys, contexts \in SUBSET Users : Run(r, K, contexts)

Next ==
    \/ \E u \in Users : Authenticate(u)
    \/ \E r \in Reqs : Handle(r)
    \/ \E d \in policy : Expire(d)
    \/ \E f \in ClientFiles : Restart(f)

Spec == Init /\ [][Next]_vars

-----------------------------------------------------------------------------
(* Properties *)

\* The request runs on a key without an administrator's roles having decided:
\* neither those of its own token, nor those of another token of the user whose
\* decision for the operation on the key may still be cached.
UnprivilegedRun(q) ==
    /\ q.pc = "run" /\ q.key # NoKey
    /\ ~Admin(q.grant.roles) /\ Decision(q) \notin byAdmin

\* A method on a key that runs without an administrator's roles having decided
\* runs for a user of the key's authorised contexts, of a key that exists: a
\* cached decision serves no other user, key or operation than it was made for,
\* what it rested on is not taken back while it is cached, and what an
\* administrator's token was allowed is forgotten with the restart that changes
\* the roles.  This says nothing of the tier, of the operations without a key or
\* of what an administrator's decision permits the user's other tokens: the key
\* of the cache has neither tier nor roles.
RunAuthorised ==
    \A r \in Reqs : UnprivilegedRun(req[r]) =>
        /\ keys[req[r].key] # Missing
        /\ req[r].grant.user \in keys[req[r].key].contexts
=============================================================================
