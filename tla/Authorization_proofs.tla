------------------------- MODULE Authorization_proofs -------------------------
(***************************************************************************)
(* Proofs about module Authorization.  The inductive invariant says what a *)
(* cached decision and a request under way already stand for; it lasts     *)
(* because nothing a decision rests on is taken back before the decision   *)
(* is dropped: contexts are set once, and a restart forgets the decisions  *)
(* with the requests.                                                      *)
(***************************************************************************)
EXTENDS Authorization, TLAPS

\* What a decision rests on.
Backed(d) ==
    \/ d.key = NoKey
    \/ d \in byAdmin
    \/ keys[d.key] # Missing /\ d.user \in keys[d.key].contexts

\* Every cached decision, and the decision of every request past it, is backed.
Sound ==
    /\ \A d \in policy : Backed(d)
    /\ \A r \in Reqs : req[r].pc \in {"store", "run"} => Backed(Decision(req[r]))

IInv == TypeOK /\ Sound

\* What the steps between two starts have in common.
Grows ==
    /\ byAdmin \subseteq byAdmin'
    /\ \A k \in Keys : keys[k] # Missing => keys'[k] = keys[k]

-----------------------------------------------------------------------------

\* What backs a decision is not lost: no step but a restart removes a context from
\* a key or forgets what an administrator decided.
LEMMA BackedStays ==
    ASSUME Grows, NEW d, d.key \in Keys \cup {NoKey}, Backed(d)
    PROVE  Backed(d)'
  BY DEF Grows, Backed

\* A request that is not idle is a request, for a decision that can be cached.
LEMMA RequestType ==
    ASSUME TypeOK, NEW r \in Reqs, req[r].pc # "idle"
    PROVE  req[r] \in Request /\ Decision(req[r]) \in Decisions
<1>1. /\ req[r] \in Request
      /\ req[r].grant.user \in Users
      /\ req[r].method \in Methods
      /\ req[r].key \in Keys \cup {NoKey}
  BY DEF TypeOK, Request, NoRequest, Grant
<1>2. QED
  BY <1>1 DEF Decision, Decisions

\* The key a decision names.
LEMMA DecisionType ==
    ASSUME NEW d \in Decisions
    PROVE  d.key \in Keys \cup {NoKey}
  BY DEF Decisions

\* The decision does not depend on how far the request has come.
LEMMA DecisionOf ==
    ASSUME NEW q \in Request, NEW pc \in {"decide", "store", "run"}
    PROVE  LET n == [q EXCEPT !.pc = pc]
           IN  n \in Request /\ n.pc = pc /\ Decision(n) = Decision(q)
  BY DEF Request, Decision

\* The initial states.
LEMMA InitIInv == Init => IInv
  BY DEF Init, IInv, TypeOK, Sound, NoRequest, Key, Missing

\* Steps that change nothing a request depends on leave the invariant alone.
LEMMA StutterStep == IInv /\ UNCHANGED vars => IInv'
  BY DEF IInv, TypeOK, Sound, Backed, Decision, vars

\* A step between two starts that moves one request, if any, and caches at most
\* backed decisions.
LEMMA SoundStays ==
    ASSUME IInv, Grows,
           \A d \in policy' \ policy : Backed(d)',
           \A x \in Reqs : \/ req'[x] = req[x]
                           \/ req'[x].pc \in {"store", "run"} => Backed(Decision(req[x]))'
    PROVE  Sound'
<1>1. ASSUME NEW d \in policy' PROVE Backed(d)'
  <2>1. CASE d \in policy
    BY <2>1, BackedStays, DecisionType DEF IInv, TypeOK, Sound
  <2>2. QED
    BY <1>1, <2>1
<1>2. ASSUME NEW x \in Reqs, req'[x].pc \in {"store", "run"} PROVE Backed(Decision(req[x]))'
  <2>1. CASE req'[x] = req[x]
    <3>1. Backed(Decision(req[x])) /\ Decision(req[x]).key \in Keys \cup {NoKey}
      BY <1>2, <2>1, RequestType, DecisionType DEF IInv, Sound
    <3>2. Decision(req[x])' = Decision(req[x])
      BY <2>1 DEF Decision
    <3>3. QED
      BY <3>1, <3>2 DEF Backed, Grows
  <2>2. QED
    BY <1>2, <2>1
<1>3. QED
  BY <1>1, <1>2 DEF Sound

-----------------------------------------------------------------------------
(* One lemma per action *)

\* A new grant.
LEMMA AuthenticateStep ==
    ASSUME IInv, NEW u \in Users, Authenticate(u)
    PROVE  IInv'
<1>1. TypeOK'
  BY AuthorizationAssumption DEF IInv, TypeOK, Authenticate, Grant
<1>2. Sound'
  BY SoundStays DEF Authenticate, Grows
<1>3. QED
  BY <1>1, <1>2 DEF IInv

\* A request passes the first checks, and perhaps finds a decision.
LEMMA LookupStep ==
    ASSUME IInv, NEW r \in Reqs, NEW q \in Request, NEW identity, Lookup(r, q, identity)
    PROVE  IInv'
<1> DEFINE pc == IF Decision(q) \in policy THEN "run" ELSE "decide"
           n == [q EXCEPT !.pc = pc]
<1>1. req' = [req EXCEPT ![r] = n] /\ UNCHANGED <<clients, issued, policy, keys, byAdmin>>
  BY DEF Lookup
<1>2. n \in Request /\ n.pc = pc /\ Decision(n) = Decision(q)
  BY DecisionOf
<1>3. n.pc = "run" => Backed(Decision(n))
  BY <1>2 DEF IInv, Sound
<1>4. n.pc # "store"
  BY <1>2
<1> HIDE DEF n, pc
<1>5. TypeOK'
  BY <1>1, <1>2 DEF IInv, TypeOK
<1>6. \A x \in Reqs : req'[x] = IF x = r THEN n ELSE req[x]
  BY <1>1 DEF IInv, TypeOK
<1>7. req'[r].pc \in {"store", "run"} => Backed(Decision(req[r]))'
  BY <1>1, <1>3, <1>4, <1>6 DEF Backed, Decision
<1>8. Sound'
  BY <1>1, <1>6, <1>7, SoundStays DEF Grows
<1>9. QED
  BY <1>5, <1>8 DEF IInv

\* A decision is made, for or against.
LEMMA DecideStep ==
    ASSUME IInv, NEW r \in Reqs, NEW failed \in BOOLEAN, Decide(r, failed)
    PROVE  IInv'
<1> DEFINE q == req[r]
           key == IF failed \/ q.key = NoKey THEN Missing ELSE keys[q.key]
           n == IF Allowed(q, key) THEN [q EXCEPT !.pc = "store"] ELSE NoRequest
           byAdm == IF Admin(q.grant.roles) /\ q.key # NoKey THEN byAdmin \cup {Decision(q)}
                    ELSE byAdmin
<1>0. q \in Request /\ q.pc = "decide" /\ Decision(q) \in Decisions
  BY RequestType DEF IInv, Decide
<1>1. /\ req' = [req EXCEPT ![r] = n]
      /\ byAdmin' = byAdm
      /\ UNCHANGED <<clients, issued, policy, keys>>
  BY DEF Decide
<1>2. /\ n \in Request \cup {NoRequest}
      /\ n.pc # "idle" => Allowed(q, key) /\ Decision(n) = Decision(q)
  BY <1>0, DecisionOf DEF NoRequest
<1>3. Decision(q).key = q.key /\ Decision(q).user = q.grant.user
  BY DEF Decision
<1>4. ASSUME Allowed(q, key)
      PROVE  \/ q.key = NoKey
             \/ Decision(q) \in byAdm
             \/ keys[q.key] # Missing /\ q.grant.user \in keys[q.key].contexts
  BY <1>4 DEF Allowed
<1>5. byAdm \subseteq Decisions /\ byAdmin \subseteq byAdm
  BY <1>0 DEF IInv, TypeOK
<1> HIDE DEF n, byAdm
<1>6. TypeOK'
  BY <1>1, <1>2, <1>5 DEF IInv, TypeOK
<1>7. \A x \in Reqs : req'[x] = IF x = r THEN n ELSE req[x]
  BY <1>1 DEF IInv, TypeOK
<1>8. ASSUME req'[r].pc \in {"store", "run"} PROVE Backed(Decision(req[r]))'
  <2>1. Allowed(q, key) /\ Decision(req[r])' = Decision(q)
    BY <1>2, <1>7, <1>8 DEF Decision
  <2>2. QED
    BY <1>1, <1>3, <1>4, <2>1 DEF Backed
<1>9. Sound'
  BY <1>1, <1>5, <1>7, <1>8, SoundStays DEF Grows
<1>10. QED
  BY <1>6, <1>9 DEF IInv

\* A positive decision is cached.
LEMMA StoreStep ==
    ASSUME IInv, NEW r \in Reqs, Store(r)
    PROVE  IInv'
<1> DEFINE q == req[r]
           n == [q EXCEPT !.pc = "run"]
<1>0. q \in Request /\ Backed(Decision(q)) /\ Decision(q) \in Decisions
  BY RequestType DEF IInv, Sound, Store
<1>1. /\ req' = [req EXCEPT ![r] = n]
      /\ policy' = policy \cup {Decision(q)}
      /\ UNCHANGED <<clients, issued, keys, byAdmin>>
  BY DEF Store
<1>2. n \in Request /\ Decision(n) = Decision(q)
  BY <1>0, DecisionOf
<1> HIDE DEF n
<1>3. TypeOK'
  BY <1>0, <1>1, <1>2 DEF IInv, TypeOK
<1>4. \A x \in Reqs : req'[x] = IF x = r THEN n ELSE req[x]
  BY <1>1 DEF IInv, TypeOK
<1>5. Grows
  BY <1>1 DEF Grows
<1>6. \A d \in policy' \ policy : Backed(d)'
  BY <1>0, <1>1 DEF Backed
<1>7. Backed(Decision(req[r]))'
  <2>1. Decision(req[r])' = Decision(q)
    BY <1>2, <1>4 DEF Decision
  <2>2. QED
    BY <1>0, <1>1, <2>1 DEF Backed
<1>8. Sound'
  BY <1>4, <1>5, <1>6, <1>7, SoundStays
<1>9. QED
  BY <1>3, <1>8 DEF IInv

\* A method runs, and may create keys.
LEMMA RunStep ==
    ASSUME IInv, NEW r \in Reqs, NEW K \in SUBSET Keys, NEW contexts \in SUBSET Users,
           Run(r, K, contexts)
    PROVE  IInv'
<1> DEFINE new == [contexts |-> contexts, profile |-> GetStorageProfileForTier(req[r].tier)]
<1>1. /\ req' = [req EXCEPT ![r] = NoRequest]
      /\ keys' = [k \in Keys |-> IF k \in K THEN new ELSE keys[k]]
      /\ \A k \in K : keys[k] = Missing
      /\ UNCHANGED <<clients, issued, policy, byAdmin>>
  BY DEF Run
<1>2. new \in Key
  BY DEF Key, Profiles, GetStorageProfileForTier
<1> HIDE DEF new
<1>3. Grows
  BY <1>1 DEF Grows
<1>4. TypeOK'
  BY <1>1, <1>2 DEF IInv, TypeOK
<1>5. \A x \in Reqs : req'[x] = IF x = r THEN NoRequest ELSE req[x]
  BY <1>1 DEF IInv, TypeOK
<1>6. Sound'
  BY <1>1, <1>3, <1>5, SoundStays DEF NoRequest
<1>7. QED
  BY <1>4, <1>6 DEF IInv

\* A decision expires.
LEMMA ExpireStep ==
    ASSUME IInv, NEW d \in policy, Expire(d)
    PROVE  IInv'
<1>1. TypeOK'
  BY DEF IInv, TypeOK, Expire
<1>2. Sound'
  BY SoundStays DEF Expire, Grows
<1>3. QED
  BY <1>1, <1>2 DEF IInv

\* The server is restarted.
LEMMA RestartStep ==
    ASSUME IInv, NEW f \in ClientFiles, Restart(f)
    PROVE  IInv'
  BY DEF IInv, TypeOK, Sound, Restart, NoRequest

-----------------------------------------------------------------------------
(* The theorems *)

\* The inductive invariant: cached decisions and requests under way are sound.
THEOREM InductiveInvariant == Spec => []IInv
<1>1. IInv /\ [Next]_vars => IInv'
  <2> SUFFICES ASSUME IInv, [Next]_vars
               PROVE  IInv'
    OBVIOUS
  <2>1. CASE \E u \in Users : Authenticate(u)
    BY <2>1, AuthenticateStep
  <2>2. ASSUME NEW r \in Reqs, Handle(r)
        PROVE  IInv'
    <3>1. CASE Receive(r)
      <4>1. PICK g \in issued, cn \in Users, m \in Methods, k \in Keys \cup {NoKey},
                 tier \in Tiers \cup {NoContext}, identity \in Users \cup {""} :
              Lookup(r, [pc |-> "decide", grant |-> g, cn |-> cn, method |-> m, key |-> k,
                         tier |-> tier], identity)
        BY <3>1 DEF Receive
      <4> DEFINE q == [pc |-> "decide", grant |-> g, cn |-> cn, method |-> m, key |-> k,
                       tier |-> tier]
      <4>2. q \in Request
        BY DEF Request, IInv, TypeOK
      <4>3. QED
        BY <4>1, <4>2, LookupStep
    <3>2. CASE \E failed \in BOOLEAN : Decide(r, failed)
      BY <3>2, DecideStep
    <3>3. CASE Store(r)
      BY <3>3, StoreStep
    <3>4. CASE \E K \in SUBSET Keys, contexts \in SUBSET Users : Run(r, K, contexts)
      BY <3>4, RunStep
    <3>5. QED
      BY <2>2, <3>1, <3>2, <3>3, <3>4 DEF Handle
  <2>3. CASE \E d \in policy : Expire(d)
    BY <2>3, ExpireStep
  <2>4. CASE \E f \in ClientFiles : Restart(f)
    BY <2>4, RestartStep
  <2>5. CASE UNCHANGED vars
    BY <2>5, StutterStep
  <2>6. QED
    BY <2>1, <2>2, <2>3, <2>4, <2>5 DEF Next
<1>2. QED
  BY <1>1, InitIInv, PTL DEF Spec

\* Type correctness, for any number of users, keys and requests.
THEOREM TypeCorrect == Spec => []TypeOK
<1>1. IInv => TypeOK
  BY DEF IInv
<1>2. QED
  BY <1>1, InductiveInvariant, PTL

\* A method on a key that runs without an administrator's roles having decided
\* runs for a user of the key's contexts, wherever the decision came from, for any
\* number of users, keys, roles, client files and concurrent requests.
THEOREM Authorised == Spec => []RunAuthorised
<1>1. ASSUME IInv PROVE RunAuthorised
  <2> SUFFICES ASSUME NEW r \in Reqs, UnprivilegedRun(req[r])
               PROVE  /\ keys[req[r].key] # Missing
                      /\ req[r].grant.user \in keys[req[r].key].contexts
    BY DEF RunAuthorised
  <2>1. Backed(Decision(req[r]))
    BY <1>1 DEF IInv, Sound, UnprivilegedRun
  <2>2. Decision(req[r]).key = req[r].key /\ Decision(req[r]).user = req[r].grant.user
    BY DEF Decision
  <2>3. QED
    BY <2>1, <2>2 DEF Backed, UnprivilegedRun
<1>2. QED
  BY <1>1, InductiveInvariant, PTL
=============================================================================
