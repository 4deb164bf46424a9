------------------------ MODULE Authentication_proofs ------------------------
(***************************************************************************)
(* Proofs about module Authentication.  Three independent arguments share  *)
(* one inductive invariant: an entry of the revocation list lasts as long  *)
(* as its token; the buckets are the ideal ones; and a token that does not *)
(* agree with the client file was issued before the server was started.    *)
(***************************************************************************)
EXTENDS Authentication, TLAPS

\* A lifetime that was computed, or stored, is not shorter than the token's.
EntriesLast ==
    \A t \in Tokens :
        /\ revoking[t] # 0 => tokens[t].issued /\ tokens[t].left <= revoking[t]
        /\ revoked[t] # Gone => tokens[t].issued /\ tokens[t].left <= revoked[t]

\* A request with a token that was revoked on arrival is still to be checked
\* against an entry that is there, or its token has expired.
LateCaught ==
    \A r \in Reqs : (req[r].pc # "idle" /\ req[r].late) =>
        \/ tokens[req[r].token].left = 0
        \/ req[r].pc = "check" /\ revoked[req[r].token] # Gone

\* The limiters count exactly what the ideal bucket counts, a missing one as full.
BucketsExact ==
    \A u \in Users : credit[u] = IF bucket[u] = NoBucket THEN Burst ELSE bucket[u]

\* The token has what the client file says.
Current(t) ==
    /\ tokens[t].user \in DOMAIN clients
    /\ tokens[t].roles = clients[tokens[t].user]

\* A token that does not is from an earlier start, so the server is at least as
\* old as the part of its lifetime that has passed.
Dated == \A t \in Tokens : tokens[t].issued => tokens[t].left + age <= TokenTTL \/ Current(t)

IInv == TypeOK /\ EntriesLast /\ LateCaught /\ BucketsExact /\ Dated

-----------------------------------------------------------------------------
(* Types *)

\* An issued token has the fields of a token.
LEMMA TokenType ==
    ASSUME TypeOK, NEW t \in Tokens, tokens[t].issued
    PROVE  /\ tokens[t] \in Token /\ tokens[t].issued = TRUE
           /\ tokens[t].user \in Users /\ tokens[t].left \in 0..TokenTTL
<1>1. tokens[t] \in Token \cup {NoToken}
  BY DEF TypeOK
<1>2. ~ NoToken.issued
  BY Zenon DEF NoToken
<1>3. tokens[t] \in Token
  BY <1>1, <1>2, Zenon
<1>4. QED
  BY <1>3 DEF Token

\* A token that ages keeps its claims.
LEMMA AgedToken ==
    ASSUME NEW c \in Token, c.left > 0
    PROVE  LET n == [c EXCEPT !.left = c.left - 1]
           IN  /\ n \in Token /\ n.left = c.left - 1
               /\ n.issued = TRUE /\ n.user = c.user /\ n.roles = c.roles
<1> DEFINE n == [c EXCEPT !.left = c.left - 1]
<1>1. c.left - 1 \in 0..TokenTTL
  BY AuthenticationAssumption DEF Token
<1>2. n \in Token
  BY <1>1 DEF Token
<1>3. n.left = c.left - 1 /\ n.user = c.user /\ n.roles = c.roles
  BY DEF Token
<1>4. n.issued = TRUE
  BY <1>2 DEF Token
<1>5. QED
  BY <1>2, <1>3, <1>4

\* A request under way has the fields of a request.
LEMMA RequestType ==
    ASSUME TypeOK, NEW r \in Reqs, req[r].pc # "idle"
    PROVE  /\ req[r] \in Request
           /\ req[r].token \in Tokens /\ req[r].late \in BOOLEAN
           /\ tokens[req[r].token].issued
  BY DEF TypeOK, Request, NoRequest

\* Refilling never exceeds the burst and takes nothing away.
LEMMA RefillType ==
    ASSUME NEW n \in 0..Burst
    PROVE  Refill(n) \in 0..Burst
  BY AuthenticationAssumption DEF Refill

\* A full bucket stays full.
LEMMA RefillFull == Refill(Burst) = Burst
  BY AuthenticationAssumption DEF Refill

\* The initial states.
LEMMA InitIInv == Init => IInv
<1> SUFFICES ASSUME Init PROVE IInv
  OBVIOUS
<1>1. TypeOK
  BY AuthenticationAssumption DEF Init, TypeOK, NoRequest, NoToken, Gone, NoBucket
<1>2. EntriesLast /\ LateCaught /\ BucketsExact /\ Dated
  BY DEF Init, EntriesLast, LateCaught, BucketsExact, Dated, NoRequest, NoToken
<1>3. QED
  BY <1>1, <1>2 DEF IInv

-----------------------------------------------------------------------------
(* One lemma per action *)

\* A token is issued under an id nothing refers to any more.
LEMMA AuthenticateStep ==
    ASSUME IInv, NEW u \in Users, NEW t \in Tokens, Authenticate(u, t)
    PROVE  IInv'
<1> DEFINE n == GenerateToken(u)
<1>1. /\ n \in Token /\ n.issued /\ n.left = TokenTTL
      /\ n.user = u /\ n.roles = clients[u] /\ u \in DOMAIN clients
  BY AuthenticationAssumption DEF IInv, TypeOK, Authenticate, GenerateToken, Token
<1>2. /\ tokens' = [tokens EXCEPT ![t] = n]
      /\ UNCHANGED <<clients, age, revoking, revoked, bucket, req, credit>>
  BY DEF Authenticate
<1>3. /\ revoking[t] = 0 /\ revoked[t] = Gone
      /\ \A r \in Reqs : req[r].pc # "idle" => req[r].token # t
  BY RequestType DEF IInv, TypeOK, EntriesLast, Authenticate, Spent
<1> HIDE DEF n
<1>4. tokens' \in [Tokens -> Token \cup {NoToken}]
  BY <1>1, <1>2 DEF IInv, TypeOK
<1>5. \A x \in Tokens : tokens'[x] = IF x = t THEN n ELSE tokens[x]
  BY <1>2 DEF IInv, TypeOK
<1>6. TypeOK'
  BY <1>1, <1>2, <1>3, <1>4, <1>5, RequestType DEF IInv, TypeOK
<1>7. EntriesLast'
  BY <1>2, <1>3, <1>5 DEF IInv, EntriesLast
<1>8. LateCaught'
  BY <1>2, <1>3, <1>5, RequestType DEF IInv, LateCaught
<1>9. Dated'
  BY <1>1, <1>2, <1>5 DEF IInv, Dated, Current
<1>10. QED
  BY <1>2, <1>6, <1>7, <1>8, <1>9 DEF IInv, BucketsExact

\* The lifetime of a revocation is computed.
LEMMA RevokeStartStep ==
    ASSUME IInv, NEW t \in Tokens, RevokeStart(t)
    PROVE  IInv'
<1>1. /\ revoking' = [revoking EXCEPT ![t] = tokens[t].left]
      /\ tokens[t].issued /\ tokens[t].left \in 0..TokenTTL
      /\ UNCHANGED <<clients, age, tokens, revoked, bucket, req, credit>>
  BY TokenType DEF IInv, RevokeStart
<1>2. TypeOK'
  BY <1>1 DEF IInv, TypeOK
<1>3. EntriesLast'
  BY <1>1 DEF IInv, TypeOK, EntriesLast
<1>4. QED
  BY <1>1, <1>2, <1>3 DEF IInv, LateCaught, BucketsExact, Dated, Current

\* The entry is stored, perhaps later than its lifetime was computed.
LEMMA RevokeSetStep ==
    ASSUME IInv, NEW t \in Tokens, RevokeSet(t)
    PROVE  IInv'
<1>1. /\ revoked' = [revoked EXCEPT ![t] = revoking[t]]
      /\ revoking' = [revoking EXCEPT ![t] = 0]
      /\ revoking[t] \in 1..TokenTTL
      /\ UNCHANGED <<clients, age, tokens, bucket, req, credit>>
  BY DEF IInv, TypeOK, RevokeSet
<1>2. TypeOK'
  BY <1>1, AuthenticationAssumption DEF IInv, TypeOK, Gone
<1>3. EntriesLast'
  BY <1>1 DEF IInv, TypeOK, EntriesLast
<1>4. \A x \in Tokens : revoked[x] # Gone => revoked'[x] # Gone
  BY <1>1, AuthenticationAssumption DEF IInv, TypeOK, Gone
<1>5. LateCaught'
  BY <1>1, <1>4, RequestType DEF IInv, LateCaught
<1>6. QED
  BY <1>1, <1>2, <1>3, <1>5 DEF IInv, BucketsExact, Dated, Current

\* What the steps of a request have in common: it goes on or ends, and only the
\* limiters may change.
LEMMA RequestStep ==
    ASSUME IInv, NEW r \in Reqs, NEW n \in Request \cup {NoRequest},
           req' = [req EXCEPT ![r] = n],
           n.pc # "idle" => tokens[n.token].issued,
           (n.pc # "idle" /\ n.late) => \/ tokens[n.token].left = 0
                                        \/ n.pc = "check" /\ revoked[n.token] # Gone,
           UNCHANGED <<clients, age, tokens, revoking, revoked>>,
           bucket' \in [Users -> NoBucket..Burst], credit' \in [Users -> Int],
           BucketsExact'
    PROVE  IInv'
<1>1. \A x \in Reqs : req'[x] = IF x = r THEN n ELSE req[x]
  BY DEF IInv, TypeOK
<1>2. req' \in [Reqs -> Request \cup {NoRequest}]
  BY DEF IInv, TypeOK
<1>3. \A x \in Reqs : req'[x].pc # "idle" => tokens'[req'[x].token].issued
  BY <1>1 DEF IInv, TypeOK
<1>4. TypeOK'
  BY <1>2, <1>3 DEF IInv, TypeOK
<1>5. LateCaught'
  BY <1>1 DEF IInv, LateCaught
<1>6. QED
  BY <1>4, <1>5 DEF IInv, EntriesLast, Dated, Current

\* A request arrives.
LEMMA ReceiveStep ==
    ASSUME IInv, NEW r \in Reqs, NEW t \in Tokens, Receive(r, t)
    PROVE  IInv'
<1> DEFINE n == [pc |-> "check", token |-> t, late |-> revoked[t] # Gone]
<1>1. n \in Request /\ n.pc = "check" /\ n.token = t /\ n.late = (revoked[t] # Gone)
  BY DEF Request
<1>2. /\ req' = [req EXCEPT ![r] = n] /\ tokens[t].issued
      /\ UNCHANGED <<clients, age, tokens, revoking, revoked, bucket, credit>>
  BY DEF Receive, Parses
<1> HIDE DEF n
<1>3. BucketsExact' /\ bucket' \in [Users -> NoBucket..Burst] /\ credit' \in [Users -> Int]
  BY <1>2 DEF IInv, TypeOK, BucketsExact
<1>4. QED
  BY <1>1, <1>2, <1>3, RequestStep

\* The check against the revocation list.
LEMMA CheckRevokedStep ==
    ASSUME IInv, NEW r \in Reqs, CheckRevoked(r)
    PROVE  IInv'
<1> DEFINE q == req[r]
           n == IF ~IsRevoked(q.token) THEN [q EXCEPT !.pc = "limit"] ELSE NoRequest
<1>1. q \in Request /\ q.pc = "check" /\ q.token \in Tokens /\ tokens[q.token].issued
  BY RequestType DEF IInv, CheckRevoked
<1>2. /\ n \in Request \cup {NoRequest}
      /\ n.pc # "idle" => /\ n.token = q.token /\ n.late = q.late /\ n.pc = "limit"
                          /\ revoked[q.token] = Gone
  BY <1>1 DEF Request, NoRequest, IsRevoked
<1>3. /\ req' = [req EXCEPT ![r] = n]
      /\ UNCHANGED <<clients, age, tokens, revoking, revoked, bucket, credit>>
  BY DEF CheckRevoked, Proceed
<1> HIDE DEF n
<1>4. (n.pc # "idle" /\ n.late) => tokens[n.token].left = 0
  BY <1>1, <1>2 DEF IInv, LateCaught
<1>5. BucketsExact' /\ bucket' \in [Users -> NoBucket..Burst] /\ credit' \in [Users -> Int]
  BY <1>3 DEF IInv, TypeOK, BucketsExact
<1>6. QED
  BY <1>1, <1>2, <1>3, <1>4, <1>5, RequestStep

\* The rate limiter.
LEMMA AllowStep ==
    ASSUME IInv, NEW r \in Reqs, Allow(r)
    PROVE  IInv'
<1> DEFINE q == req[r]
           u == tokens[q.token].user
           b == IF bucket[u] = NoBucket THEN Burst ELSE bucket[u]
           n == IF b > 0 THEN [q EXCEPT !.pc = "handle"] ELSE NoRequest
<1>1. /\ q \in Request /\ q.pc = "limit" /\ q.token \in Tokens /\ tokens[q.token].issued
      /\ u \in Users
  BY RequestType, TokenType DEF IInv, Allow
<1>2. /\ n \in Request \cup {NoRequest}
      /\ n.pc # "idle" => n.token = q.token /\ n.late = q.late /\ n.pc = "handle"
  BY <1>1 DEF Request, NoRequest
<1>3. /\ req' = [req EXCEPT ![r] = n]
      /\ bucket' = [bucket EXCEPT ![u] = IF b > 0 THEN b - 1 ELSE 0]
      /\ credit' = [credit EXCEPT ![u] = IF b > 0 THEN credit[u] - 1 ELSE credit[u]]
      /\ UNCHANGED <<clients, age, tokens, revoking, revoked>>
  BY DEF Allow, Proceed, Remaining
<1>4. b \in 0..Burst /\ credit[u] = b
  BY <1>1, AuthenticationAssumption DEF IInv, TypeOK, BucketsExact, NoBucket
<1> HIDE DEF n, b, u
<1>5. bucket' \in [Users -> NoBucket..Burst] /\ credit' \in [Users -> Int]
  BY <1>1, <1>3, <1>4, AuthenticationAssumption DEF IInv, TypeOK, NoBucket
<1>6. BucketsExact'
  BY <1>1, <1>3, <1>4, AuthenticationAssumption DEF IInv, TypeOK, BucketsExact, NoBucket
<1>7. (n.pc # "idle" /\ n.late) => tokens[n.token].left = 0
  BY <1>1, <1>2 DEF IInv, LateCaught
<1>8. QED
  BY <1>1, <1>2, <1>3, <1>5, <1>6, <1>7, RequestStep

\* A request ends.
LEMMA DoneStep ==
    ASSUME IInv, NEW r \in Reqs, Done(r)
    PROVE  IInv'
<1>1. /\ req' = [req EXCEPT ![r] = NoRequest] /\ NoRequest.pc = "idle"
      /\ UNCHANGED <<clients, age, tokens, revoking, revoked, bucket, credit>>
  BY DEF Done, NoRequest
<1>2. BucketsExact' /\ bucket' \in [Users -> NoBucket..Burst] /\ credit' \in [Users -> Int]
  BY <1>1 DEF IInv, TypeOK, BucketsExact
<1>3. QED
  BY <1>1, <1>2, RequestStep

\* Time passes for tokens, entries, limiters and the server alike.
LEMMA TickStep ==
    ASSUME IInv, Tick
    PROVE  IInv'
<1>1. ASSUME NEW t \in Tokens
      PROVE  /\ tokens'[t] \in Token \cup {NoToken}
             /\ tokens'[t].issued = tokens[t].issued
             /\ tokens[t].issued =>
                  /\ tokens'[t].user = tokens[t].user /\ tokens'[t].roles = tokens[t].roles
                  /\ tokens[t].left \in 0..TokenTTL
                  /\ tokens'[t].left = IF tokens[t].left > 0 THEN tokens[t].left - 1 ELSE 0
  <2>1. CASE ~tokens[t].issued
    <3>1. tokens'[t] = tokens[t]
      BY <2>1 DEF Tick
    <3>2. QED
      BY <2>1, <3>1 DEF IInv, TypeOK
  <2>2. CASE tokens[t].issued
    <3>1. tokens[t] \in Token /\ tokens[t].issued = TRUE /\ tokens[t].left \in 0..TokenTTL
      BY <2>2, TokenType DEF IInv
    <3> DEFINE n == [tokens[t] EXCEPT !.left = tokens[t].left - 1]
    <3>2. tokens[t].left > 0 => /\ n \in Token /\ n.left = tokens[t].left - 1
                                /\ n.issued = TRUE /\ n.user = tokens[t].user
                                /\ n.roles = tokens[t].roles
      BY <3>1, AgedToken, Zenon
    <3>3. tokens'[t] = IF tokens[t].left > 0 THEN n ELSE tokens[t]
      BY <2>2 DEF Tick
    <3> HIDE DEF n
    <3>4. CASE tokens[t].left > 0
      BY <3>1, <3>2, <3>3, <3>4
    <3>5. CASE tokens[t].left = 0
      BY <3>1, <3>3, <3>5
    <3>6. QED
      BY <3>1, <3>4, <3>5, AuthenticationAssumption
  <2>3. QED
    BY <2>1, <2>2
<1>2. tokens' \in [Tokens -> Token \cup {NoToken}]
  <2>1. tokens' = [t \in Tokens |-> tokens'[t]]
    BY DEF Tick
  <2>2. QED
    BY <1>1, <2>1
<1>3. /\ \A t \in Tokens : revoked'[t] = IF revoked[t] = Gone THEN Gone ELSE revoked[t] - 1
      /\ revoked' \in [Tokens -> Gone..TokenTTL]
  BY AuthenticationAssumption DEF IInv, TypeOK, Tick, Gone
<1>4. /\ \A u \in Users : bucket'[u] = IF bucket[u] = NoBucket THEN NoBucket
                                       ELSE Refill(bucket[u])
      /\ \A u \in Users : credit'[u] = Refill(credit[u])
      /\ \A u \in Users : bucket[u] # NoBucket => bucket[u] \in 0..Burst
      /\ bucket' = [u \in Users |-> bucket'[u]] /\ credit' = [u \in Users |-> credit'[u]]
  BY DEF IInv, TypeOK, Tick, NoBucket
<1>5. BucketsExact'
  BY <1>4, RefillFull, RefillType DEF IInv, BucketsExact, NoBucket
<1>6. bucket' \in [Users -> NoBucket..Burst]
  <2>1. \A u \in Users : bucket'[u] \in NoBucket..Burst
    BY <1>4, RefillType, AuthenticationAssumption DEF NoBucket
  <2>2. QED
    BY <1>4, <2>1
<1>7. credit' \in [Users -> Int]
  <2>1. \A u \in Users : credit'[u] \in Int
    BY <1>5, <1>6, AuthenticationAssumption DEF BucketsExact, NoBucket
  <2>2. QED
    BY <1>4, <2>1
<1>8. /\ age \in 0..TokenTTL
      /\ age' = IF age < TokenTTL THEN age + 1 ELSE age
      /\ UNCHANGED <<clients, revoking, req>>
  BY DEF IInv, TypeOK, Tick
<1>9. TypeOK'
  BY <1>1, <1>2, <1>3, <1>6, <1>7, <1>8, RequestType, AuthenticationAssumption
     DEF IInv, TypeOK
<1>10. EntriesLast'
  <2> SUFFICES ASSUME NEW t \in Tokens
               PROVE  /\ revoking'[t] # 0 => /\ tokens'[t].issued
                                             /\ tokens'[t].left <= revoking'[t]
                      /\ revoked'[t] # Gone => /\ tokens'[t].issued
                                               /\ tokens'[t].left <= revoked'[t]
    BY DEF EntriesLast
  <2>1. revoking[t] \in 0..TokenTTL /\ revoked[t] \in Gone..TokenTTL
    BY DEF IInv, TypeOK
  <2>2. QED
    BY <2>1, <1>1, <1>3, <1>8, AuthenticationAssumption DEF IInv, EntriesLast, Gone
<1>11. LateCaught'
  <2> SUFFICES ASSUME NEW r \in Reqs, req[r].pc # "idle", req[r].late
               PROVE  \/ tokens'[req[r].token].left = 0
                      \/ req[r].pc = "check" /\ revoked'[req[r].token] # Gone
    BY <1>8 DEF LateCaught
  <2> DEFINE t == req[r].token
  <2>1. t \in Tokens /\ tokens[t].issued /\ revoked[t] \in Gone..TokenTTL
    BY RequestType DEF IInv, TypeOK
  <2>2. \/ tokens[t].left = 0
        \/ req[r].pc = "check" /\ revoked[t] # Gone
    BY DEF IInv, LateCaught
  <2>3. revoked[t] # Gone => tokens[t].left <= revoked[t]
    BY <2>1 DEF IInv, EntriesLast
  <2> HIDE DEF t
  <2>4. tokens'[t].left = 0 \/ (req[r].pc = "check" /\ revoked'[t] # Gone)
    BY <2>1, <2>2, <2>3, <1>1, <1>3, AuthenticationAssumption DEF Gone
  <2>5. QED
    BY <2>4 DEF t
<1>12. Dated'
  <2> SUFFICES ASSUME NEW t \in Tokens, tokens'[t].issued
               PROVE  tokens'[t].left + age' <= TokenTTL \/ Current(t)'
    BY DEF Dated
  <2>1. tokens[t].left + age <= TokenTTL \/ Current(t)
    BY <1>1 DEF IInv, Dated
  <2>2. CASE Current(t)
    BY <2>2, <1>1, <1>8 DEF Current
  <2>3. CASE tokens[t].left + age <= TokenTTL
    BY <2>3, <1>1, <1>8, AuthenticationAssumption
  <2>4. QED
    BY <2>1, <2>2, <2>3
<1>13. QED
  BY <1>5, <1>9, <1>10, <1>11, <1>12 DEF IInv

\* The server is restarted: tokens stay, everything else begins anew.
LEMMA RestartStep ==
    ASSUME IInv, NEW f \in ClientFiles, Restart(f)
    PROVE  IInv'
<1>1. TypeOK'
  BY AuthenticationAssumption DEF IInv, TypeOK, Restart, NoRequest, Gone, NoBucket
<1>2. EntriesLast' /\ LateCaught' /\ BucketsExact'
  BY DEF Restart, EntriesLast, LateCaught, BucketsExact, NoRequest
<1>3. Dated'
  <2> SUFFICES ASSUME NEW t \in Tokens, tokens[t].issued
               PROVE  tokens[t].left + 0 <= TokenTTL
    BY DEF Restart, Dated
  <2>1. tokens[t].left \in 0..TokenTTL
    BY TokenType DEF IInv
  <2>2. QED
    BY <2>1, AuthenticationAssumption
<1>4. QED
  BY <1>1, <1>2, <1>3 DEF IInv

-----------------------------------------------------------------------------
(* The theorems *)

\* Every step preserves the invariant.
LEMMA NextIInv == IInv /\ [Next]_vars => IInv'
<1> SUFFICES ASSUME IInv, [Next]_vars
             PROVE  IInv'
  OBVIOUS
<1>1. CASE \E u \in Users, t \in Tokens : Authenticate(u, t)
  BY <1>1, AuthenticateStep
<1>2. CASE \E t \in Tokens : RevokeStart(t) \/ RevokeSet(t)
  BY <1>2, RevokeStartStep, RevokeSetStep
<1>3. CASE \E r \in Reqs : Handle(r)
  BY <1>3, ReceiveStep, CheckRevokedStep, AllowStep, DoneStep DEF Handle
<1>4. CASE Tick
  BY <1>4, TickStep
<1>5. CASE \E f \in ClientFiles : Restart(f)
  BY <1>5, RestartStep
<1>6. CASE UNCHANGED vars
  BY <1>6 DEF IInv, TypeOK, EntriesLast, LateCaught, BucketsExact, Dated, Current, vars
<1>7. QED
  BY <1>1, <1>2, <1>3, <1>4, <1>5, <1>6 DEF Next

\* The inductive invariant, for any client files, lifetimes, rates and any number
\* of concurrent requests.
THEOREM InductiveInvariant == Spec => []IInv
  BY InitIInv, NextIInv, PTL DEF Spec

\* Type correctness.
THEOREM TypeCorrect == Spec => []TypeOK
<1>1. IInv => TypeOK
  BY DEF IInv
<1>2. QED
  BY <1>1, InductiveInvariant, PTL

\* A token that was on the revocation list when a request arrived gets past the
\* check only once it has expired.
THEOREM RevocationHolds == Spec => []RevokedRejected
<1>1. IInv => RevokedRejected
  BY DEF IInv, LateCaught, RevokedRejected
<1>2. QED
  BY <1>1, InductiveInvariant, PTL

\* No client is ever admitted more often than an ideal token bucket would allow.
THEOREM RateHolds == Spec => []RateBounded
<1>1. IInv => RateBounded
  <2> SUFFICES ASSUME IInv, NEW u \in Users
               PROVE  credit[u] >= 0
    BY DEF RateBounded
  <2>1. bucket[u] \in NoBucket..Burst
    BY DEF IInv, TypeOK
  <2>2. QED
    BY <2>1, AuthenticationAssumption DEF IInv, BucketsExact, NoBucket
<1>2. QED
  BY <1>1, InductiveInvariant, PTL

\* One token lifetime after a start, only tokens that agree with the client file
\* are accepted.
THEOREM FileInForce == Spec => FileTakesEffect
<1> DEFINE Agrees(t) == age < TokenTTL \/ Current(t)
<1>1. ASSUME IInv, NEW r \in Reqs, NEW t \in Tokens, Receive(r, t)
      PROVE  Agrees(t)
  <2>1. tokens[t].issued /\ tokens[t].left > 0
    BY <1>1 DEF Receive, Parses
  <2>2. tokens[t].left \in 0..TokenTTL /\ age \in 0..TokenTTL
    BY <1>1, <2>1, TokenType DEF IInv, TypeOK
  <2>3. QED
    BY <1>1, <2>1, <2>2, AuthenticationAssumption DEF IInv, Dated
<1>2. IInv /\ [Next]_vars =>
        [\A r \in Reqs, t \in Tokens :
            Receive(r, t) => \/ age < TokenTTL
                             \/ /\ tokens[t].user \in DOMAIN clients
                                /\ tokens[t].roles = clients[tokens[t].user]]_vars
  BY <1>1 DEF Current
<1>3. QED
  BY <1>2, InductiveInvariant, PTL DEF Spec, FileTakesEffect
=============================================================================
