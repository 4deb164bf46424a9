---------------------------- MODULE Authentication ----------------------------
(***************************************************************************)
(* Authenticate issues JWTs to the clients of the client file; the         *)
(* authentication interceptor parses the token of a request, asks the      *)
(* token store whether it was revoked and charges the client's rate        *)
(* limiter.  A restart loads a new client file and loses the revocation    *)
(* list and the limiters, while the tokens stay with the clients.          *)
(*                                                                         *)
(* Requests and revocations are processes; a step is one access to shared  *)
(* state.  Deadlines are kept as the ticks that remain, so that the model  *)
(* has no clock and runs for ever: a token is valid while something        *)
(* remains, a cache entry is found while its expiry has not passed.  The   *)
(* cleanup goroutine of the token store deletes only what Get already      *)
(* ignores, and requests without a well-formed bearer token reach no       *)
(* state: both are left out.                                               *)
(***************************************************************************)
EXTENDS Integers

CONSTANTS Users,
          Roles,
          ClientFiles,  \* client files the server may be started with
          Tokens,       \* token ids (jti)
          Reqs,         \* concurrent requests
          TokenTTL,     \* validity of a token, in ticks
          Burst, Rate   \* rate limiter: bucket size, tokens per tick

ASSUME AuthenticationAssumption ==
    /\ TokenTTL \in Nat \ {0} /\ Burst \in Nat \ {0} /\ Rate \in Nat
    /\ \A f \in ClientFiles : DOMAIN f \subseteq Users /\ \A u \in DOMAIN f : f[u] \subseteq Roles

VARIABLES clients,   \* FileClientStore: the roles of each client in the file
          age,       \* ticks since the server was started, up to TokenTTL
          tokens,    \* tokens[t]: the claims of a token, and the ticks it is valid
          revoking,  \* revoking[t]: the TTL a Revoke under way has computed
          revoked,   \* TokenStore: the ticks an entry has left
          bucket,    \* rate limiters: the requests a client has left
          req,       \* the progress of each request
          credit     \* history: an ideal token bucket per client

vars == <<clients, age, tokens, revoking, revoked, bucket, req, credit>>

-----------------------------------------------------------------------------

\* NewFileClientStore: a file without clients, or with a client without roles, is
\* refused, and the server does not start.
ValidFile(f) == DOMAIN f # {} /\ \A u \in DOMAIN f : f[u] # {}

Gone == -1      \* an entry that has expired, or was never made

NoBucket == -1

NoToken == [issued |-> FALSE]

Token == [issued: {TRUE}, user: Users, roles: SUBSET Roles, left: 0..TokenTTL]

NoRequest == [pc |-> "idle"]

Request == [pc: {"check", "limit", "handle"},
            token: Tokens,
            late: BOOLEAN]  \* the token was on the revocation list on arrival

\* Tokens, revocation entries and requests have their types; no bucket holds more
\* than the burst.
TypeOK ==
    /\ clients \in ClientFiles /\ ValidFile(clients)
    /\ age \in 0..TokenTTL
    /\ tokens \in [Tokens -> Token \cup {NoToken}]
    /\ revoking \in [Tokens -> 0..TokenTTL]
    /\ revoked \in [Tokens -> Gone..TokenTTL]
    /\ bucket \in [Users -> NoBucket..Burst]
    /\ req \in [Reqs -> Request \cup {NoRequest}]
    /\ \A r \in Reqs : req[r].pc # "idle" => tokens[req[r].token].issued
    /\ credit \in [Users -> Int]

-----------------------------------------------------------------------------
(* Tokens *)

\* A token nobody can present any more: its id stands for a new one.
Spent(t) ==
    tokens[t].issued =>
        /\ tokens[t].left = 0 /\ revoking[t] = 0 /\ revoked[t] = Gone
        /\ \A r \in Reqs : req[r].pc # "idle" => req[r].token # t

GenerateToken(u) ==
    [issued |-> TRUE, user |-> u, roles |-> clients[u], left |-> TokenTTL]

\* AuthService.Authenticate by a client of the file with the right API key.
Authenticate(u, t) ==
    /\ u \in DOMAIN clients
    /\ Spent(t)
    /\ tokens' = [tokens EXCEPT ![t] = GenerateToken(u)]
    /\ UNCHANGED <<clients, age, revoking, revoked, bucket, req, credit>>

\* TokenManager.Revoke computes the remaining validity; for an expired token
\* there is nothing to do.
RevokeStart(t) ==
    /\ tokens[t].issued
    /\ tokens[t].left > 0
    /\ revoking[t] = 0
    /\ revoking' = [revoking EXCEPT ![t] = tokens[t].left]
    /\ UNCHANGED <<clients, age, tokens, revoked, bucket, req, credit>>

\* Mutant: the entry gets a fixed, short lifetime.
RevokeSetFixedTTL(t) ==
    /\ revoking[t] # 0
    /\ revoked' = [revoked EXCEPT ![t] = 0]
    /\ revoking' = [revoking EXCEPT ![t] = 0]
    /\ UNCHANGED <<clients, age, tokens, bucket, req, credit>>

\* ... and then lists the token for that long.
RevokeSet(t) ==
    /\ revoking[t] # 0
    /\ revoked' = [revoked EXCEPT ![t] = revoking[t]]
    /\ revoking' = [revoking EXCEPT ![t] = 0]
    /\ UNCHANGED <<clients, age, tokens, bucket, req, credit>>

-----------------------------------------------------------------------------
(* The interceptor *)

\* Mutant: the expiry in the claims is not checked.
ParsesExpired(t) == tokens[t].issued

\* ParseWithClaims: signature and expiry are good.
Parses(t) == tokens[t].issued /\ tokens[t].left > 0

Receive(r, t) ==
    /\ req[r].pc = "idle"
    /\ Parses(t)
    /\ req' = [req EXCEPT ![r] = [pc |-> "check", token |-> t, late |-> revoked[t] # Gone]]
    /\ UNCHANGED <<clients, age, tokens, revoking, revoked, bucket, credit>>

\* The request goes on at pc, or is answered with an error.
Proceed(r, ok, pc) ==
    req' = [req EXCEPT ![r] = IF ok THEN [req[r] EXCEPT !.pc = pc] ELSE NoRequest]

\* TokenStore.IsRevoked.
IsRevoked(t) == revoked[t] # Gone

CheckRevoked(r) ==
    /\ req[r].pc = "check"
    /\ Proceed(r, ~IsRevoked(req[r].token), "limit")
    /\ UNCHANGED <<clients, age, tokens, revoking, revoked, bucket, credit>>

\* Mutant: the limiter made for a new client is not kept.
RemainingForgotten(u, n) == NoBucket

\* What is left of a bucket with n requests after Allow.
Remaining(u, n) == IF n > 0 THEN n - 1 ELSE 0

\* Limiter.Allow, under its mutex; a client's first request makes its bucket.
Allow(r) ==
    LET u == tokens[req[r].token].user
        n == IF bucket[u] = NoBucket THEN Burst ELSE bucket[u]
    IN  /\ req[r].pc = "limit"
        /\ Proceed(r, n > 0, "handle")
        /\ bucket' = [bucket EXCEPT ![u] = Remaining(u, n)]
        /\ credit' = [credit EXCEPT ![u] = IF n > 0 THEN credit[u] - 1 ELSE credit[u]]
        /\ UNCHANGED <<clients, age, tokens, revoking, revoked>>

\* Validation interceptor and handler (module Authorization) are done with it.
Done(r) ==
    /\ req[r].pc = "handle"
    /\ req' = [req EXCEPT ![r] = NoRequest]
    /\ UNCHANGED <<clients, age, tokens, revoking, revoked, bucket, credit>>

-----------------------------------------------------------------------------

\* Mutant: the burst is no limit to what an idle client saves up.
RefillPastBurst(n) == n + Rate

\* rate.Limiter: Rate per tick, up to the burst.
Refill(n) == IF n + Rate < Burst THEN n + Rate ELSE Burst

\* Time passes (a limiter refills its bucket when it is next asked).
Tick ==
    /\ age' = IF age < TokenTTL THEN age + 1 ELSE age
    /\ tokens' = [t \in Tokens |->
                    IF tokens[t].issued /\ tokens[t].left > 0
                    THEN [tokens[t] EXCEPT !.left = tokens[t].left - 1] ELSE tokens[t]]
    /\ revoked' = [t \in Tokens |-> IF revoked[t] = Gone THEN Gone ELSE revoked[t] - 1]
    /\ bucket' = [u \in Users |-> IF bucket[u] = NoBucket THEN NoBucket ELSE Refill(bucket[u])]
    /\ credit' = [u \in Users |-> Refill(credit[u])]
    /\ UNCHANGED <<clients, revoking, req>>

\* The server is stopped and started again.
Restart(f) ==
    /\ ValidFile(f)
    /\ clients' = f
    /\ age' = 0
    /\ revoking' = [t \in Tokens |-> 0]
    /\ revoked' = [t \in Tokens |-> Gone]
    /\ bucket' = [u \in Users |-> NoBucket]
    /\ req' = [r \in Reqs |-> NoRequest]
    /\ credit' = [u \in Users |-> Burst]
    /\ UNCHANGED tokens

Init ==
    /\ clients \in {f \in ClientFiles : ValidFile(f)}
    /\ age = 0
    /\ tokens = [t \in Tokens |-> NoToken]
    /\ revoking = [t \in Tokens |-> 0]
    /\ revoked = [t \in Tokens |-> Gone]
    /\ bucket = [u \in Users |-> NoBucket]
    /\ req = [r \in Reqs |-> NoRequest]
    /\ credit = [u \in Users |-> Burst]

Handle(r) ==
    \/ \E t \in Tokens : Receive(r, t)
    \/ CheckRevoked(r) \/ Allow(r) \/ Done(r)

Next ==
    \/ \E u \in Users, t \in Tokens : Authenticate(u, t)
    \/ \E t \in Tokens : RevokeStart(t) \/ RevokeSet(t)
    \/ \E r \in Reqs : Handle(r)
    \/ Tick
    \/ \E f \in ClientFiles : Restart(f)

Spec == Init /\ [][Next]_vars

-----------------------------------------------------------------------------
(* Properties *)

\* A request whose token was on the revocation list when it arrived gets past
\* the check only once the token has expired anyway: the entry, whose lifetime
\* is computed one step and perhaps some time before it is stored, never ends
\* before the token does.
RevokedRejected ==
    \A r \in Reqs : (req[r].pc \in {"limit", "handle"} /\ req[r].late)
                        => tokens[req[r].token].left = 0

\* The limiters never admit more than an ideal token bucket per client would: at
\* most Burst requests plus Rate per tick in any period between two starts,
\* whichever tokens and concurrent requests the client uses.
RateBounded == \A u \in Users : credit[u] >= 0

\* What the client file says takes effect in bounded time: TokenTTL after the
\* server was started with it, no request is accepted with roles the file does
\* not give to its user, although tokens outlive the restart.
FileTakesEffect ==
    [][\A r \in Reqs, t \in Tokens :
        Receive(r, t) => \/ age < TokenTTL
                         \/ /\ tokens[t].user \in DOMAIN clients
                            /\ tokens[t].roles = clients[tokens[t].user]]_vars
=============================================================================
