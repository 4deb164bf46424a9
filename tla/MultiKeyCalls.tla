---------------------------- MODULE MultiKeyCalls ----------------------------
(***************************************************************************)
(* The calls that read several keys: a client that follows the page tokens *)
(* of ListKeys to the end, BatchGetKeys with its goroutine per item, and   *)
(* the sequential BatchGetKeyMetadata and BatchUpdateKeyMetadata; while    *)
(* other clients create and rotate keys.                                   *)
(*                                                                         *)
(* Of a row only what these calls choose by is kept: the version and the   *)
(* creation time of a key's latest version.  Revocations and metadata      *)
(* writes (module KeyStore) change neither, and no call here looks at the  *)
(* status.  A row whose metadata document cannot be read back is logged    *)
(* and left out: which rows do is a parameter of each reading action.      *)
(* Ids are spelled the way the server writes them (another                 *)
(* spelling of the same UUID is read, and then not found by its name).  A  *)
(* call that is refused as a whole before its first read, and a page that  *)
(* fails and is asked for again, change nothing and are left out.          *)
(***************************************************************************)
EXTENDS Naturals, FiniteSets, Sequences

CONSTANTS Keys,
          PageSizes,       \* the limits clients use
          MaxItems,        \* length of a batch
          MaxConcurrency,  \* of the batch processor
          MaxVersion,      \* bound: versions of a key
          MaxTime,         \* bound: the clock
          Delay,           \* how long before its commit a row may be stamped
          Bad              \* an item with an invalid id or description

ASSUME MultiKeyAssumption ==
    /\ PageSizes \subseteq Nat \ {0} /\ MaxConcurrency \in Nat \ {0}
    /\ MaxItems \in Nat /\ MaxVersion \in Nat \ {0} /\ MaxTime \in Nat /\ Delay \in Nat
    /\ IsFiniteSet(Keys) /\ Bad \notin Keys

VARIABLES now,    \* the clock, at the resolution of the table
          rows,   \* the latest version of each key
          client  \* the client's call

vars == <<now, rows, client>>

-----------------------------------------------------------------------------

Absent == [version |-> 0, created |-> 0]

Row == [version: 1..MaxVersion, created: 0..MaxTime] \cup {Absent}

Present(k) == rows[k] # Absent

Idle == [pc |-> "idle"]

NoToken == MaxTime + 1  \* no page token: every row is older

Listing == [pc: {"list", "listed"},
            limit: PageSizes,
            cursor: 0..NoToken,
            listed: [Keys \X (1..MaxVersion) -> Nat]]  \* how often a version was in a page

Batches(S) == UNION {[1..n -> S] : n \in 1..MaxItems}

Error == [key |-> Bad, version |-> 0]

Result == [key: Keys, version: 1..MaxVersion] \cup {Error}

NoResult == [key |-> Bad, version |-> 1]

GetCall == [pc: {"get", "got"},
            items: Batches(Keys),
            snapshot: Batches(SUBSET (1..MaxVersion)),  \* the versions that were read
            state: Batches({"waiting", "running", "done"}),
            results: Batches(Result \cup {NoResult}),
            failed: SUBSET (1..MaxItems)]       \* the KMS failed

ListCall == [pc: {"read", "write", "replied"},
             items: Batches(Keys \cup {Bad}),
             continue: BOOLEAN,
             next: 1..(MaxItems + 1),
             failed: SUBSET (1..MaxItems),  \* the item could not be read
             errors: Batches(0..2),         \* results for each item
             successes: Batches(0..1)]

Running(c) == {i \in DOMAIN c.items : c.state[i] = "running"}

\* Rows and the client's call have their types; no more goroutines of a batch run
\* than the semaphore admits.
TypeOK ==
    /\ now \in 0..MaxTime
    /\ rows \in [Keys -> Row]
    /\ \/ client = Idle
       \/ client.pc \in {"list", "listed"} /\ client \in Listing
       \/ /\ client.pc \in {"get", "got"}
          /\ client \in GetCall
          /\ Cardinality(Running(client)) <= MaxConcurrency
       \/ client.pc \in {"read", "write", "replied"} /\ client \in ListCall

-----------------------------------------------------------------------------
(* Other clients *)

Tick == now < MaxTime /\ now' = now + 1 /\ UNCHANGED <<rows, client>>

\* A row is stamped when its transaction begins, or before its insertion.
Stamps == {s \in 0..now : s + Delay >= now}

Create(k, s) ==
    /\ ~Present(k)
    /\ rows' = [rows EXCEPT ![k] = [version |-> 1, created |-> s]]
    /\ UNCHANGED <<now, client>>

\* A rotation: the latest version of k is a new row.
Rotate(k, s) ==
    /\ Present(k) /\ rows[k].version < MaxVersion
    /\ rows' = [rows EXCEPT ![k] = [version |-> rows[k].version + 1, created |-> s]]
    /\ UNCHANGED <<now, client>>

-----------------------------------------------------------------------------
(* ListKeys *)

StartListing(limit) ==
    /\ client = Idle
    /\ client' = [pc |-> "list", limit |-> limit, cursor |-> NoToken,
                  listed |-> [kv \in Keys \X (1..MaxVersion) |-> 0]]
    /\ UNCHANGED <<now, rows>>

\* Mutant: the row the token was made from is in the next page again.
MatchingInclusive(cursor) == {k \in Keys : Present(k) /\ rows[k].created <= cursor}

\* The rows a page is taken from: strictly older than the token.
Matching(cursor) == {k \in Keys : Present(k) /\ rows[k].created < cursor}

\* P is a result of ORDER BY created_at DESC LIMIT limit, which says nothing of
\* the order of rows with the same time.
IsPage(P, S, limit) ==
    /\ P \subseteq S
    /\ Cardinality(P) = (IF Cardinality(S) < limit THEN Cardinality(S) ELSE limit)
    /\ \A k \in P, l \in S \ P : rows[k].created >= rows[l].created

\* Mutant: every page comes with a token.
HasNextAlways(n, limit) == n <= limit

\* Only a full page comes with a token.
HasNext(n, limit) == n = limit

\* ListKeys with the token of the page before.  Of the rows P of the query those in
\* lost cannot be read; the others are the page, and what is compared with the
\* limit.  The new token is the time of the last of them.
Page(P, lost) ==
    LET c == client
        kept == P \ lost
        last == IF kept = {} THEN c.cursor
                ELSE CHOOSE t \in 0..MaxTime :
                        /\ \E k \in kept : rows[k].created = t
                        /\ \A k \in kept : rows[k].created >= t
        more == HasNext(Cardinality(kept), c.limit)
    IN  /\ c.pc = "list"
        /\ IsPage(P, Matching(c.cursor), c.limit)
        /\ client' = [c EXCEPT !.pc = IF more THEN "list" ELSE "listed",
                               !.cursor = last,
                               !.listed = [kv \in Keys \X (1..MaxVersion) |->
                                  IF kv[1] \in kept /\ kv[2] = rows[kv[1]].version
                                  THEN c.listed[kv] + 1 ELSE c.listed[kv]]]
        /\ UNCHANGED <<now, rows>>

-----------------------------------------------------------------------------
(* BatchGetKeys and the batch processor *)

\* GetBatchKeys: one query reads all versions of all items, except the lost ones.
Snapshot(items, lost) ==
    [i \in DOMAIN items |->
        {v \in 1..rows[items[i]].version : <<items[i], v>> \notin lost}]

BatchGetKeys(items, lost) ==
    /\ client = Idle
    /\ client' = [pc |-> "get", items |-> items,
                  snapshot |-> Snapshot(items, lost),
                  state |-> [i \in DOMAIN items |-> "waiting"],
                  results |-> [i \in DOMAIN items |-> NoResult], failed |-> {}]
    /\ UNCHANGED <<now, rows>>

\* Mutant: the semaphore is not taken.
AcquireUnlimited(i) ==
    /\ client.pc = "get" /\ i \in DOMAIN client.items
    /\ client.state[i] = "waiting"
    /\ client' = [client EXCEPT !.state[i] = "running"]
    /\ UNCHANGED <<now, rows>>

\* The goroutine of item i enters the semaphore.
Acquire(i) ==
    /\ client.pc = "get" /\ i \in DOMAIN client.items
    /\ client.state[i] = "waiting"
    /\ Cardinality(Running(client)) < MaxConcurrency
    /\ client' = [client EXCEPT !.state[i] = "running"]
    /\ UNCHANGED <<now, rows>>

\* The version keyMap holds for a key of which the versions V were read: the rows
\* come with the highest version first, and the last one stays.
InKeyMap(V) == CHOOSE v \in V : \A w \in V : v <= w

Answer(c, i, failed) ==
    IF c.snapshot[i] = {} \/ failed THEN Error
    ELSE [key |-> c.items[i], version |-> InKeyMap(c.snapshot[i])]

\* Mutant: results are appended in the order in which they arrive.
FinishAppends(i, failed) ==
    LET c == client
        j == Cardinality({x \in DOMAIN c.items : c.state[x] = "done"}) + 1
    IN  /\ c.pc = "get" /\ i \in Running(c)
        /\ client' = [c EXCEPT !.state[i] = "done",
                               !.results[j] = Answer(c, i, failed),
                               !.failed = IF failed THEN c.failed \cup {i} ELSE c.failed]
        /\ UNCHANGED <<now, rows>>

\* Mutant: the early return for an invalid item keeps its place.
FinishLeaks(i, failed) ==
    LET c == client
    IN  /\ c.pc = "get" /\ i \in Running(c)
        /\ c.results[i] = NoResult
        /\ client' = [c EXCEPT !.state[i] = IF c.snapshot[i] = {} THEN "running"
                                            ELSE "done",
                               !.results[i] = Answer(c, i, failed),
                               !.failed = IF failed THEN c.failed \cup {i} ELSE c.failed]
        /\ UNCHANGED <<now, rows>>

\* Validate and Process of item i; its result; the semaphore is left.
Finish(i, failed) ==
    LET c == client
    IN  /\ c.pc = "get" /\ i \in Running(c)
        /\ client' = [c EXCEPT !.state[i] = "done",
                               !.results[i] = Answer(c, i, failed),
                               !.failed = IF failed THEN c.failed \cup {i} ELSE c.failed]
        /\ UNCHANGED <<now, rows>>

\* wg.Wait returns, and the results become the reply.
Collect ==
    /\ client.pc = "get"
    /\ \A i \in DOMAIN client.items : client.state[i] = "done"
    /\ client' = [client EXCEPT !.pc = "got"]
    /\ UNCHANGED <<now, rows>>

-----------------------------------------------------------------------------
(* BatchGetKeyMetadata and BatchUpdateKeyMetadata *)

Zero(items) == [i \in DOMAIN items |-> 0]

\* One more result for the items in I.
Add(f, I) == [i \in DOMAIN f |-> IF i \in I THEN f[i] + 1 ELSE f[i]]

\* GetBatchKeyMetadata: the items for which one query finds no metadata, or none
\* that can be read.
Unread(items, queryFails, lost) ==
    {i \in DOMAIN items : IF items[i] \in lost \cup {Bad} \/ queryFails THEN TRUE
                          ELSE ~Present(items[i])}

\* BatchGetKeyMetadata: an item with an invalid id gets an error at once and is
\* looked up all the same; when the query fails every item gets an error.
BatchGetKeyMetadata(items, continue, queryFails, lost) ==
    LET bad == {i \in DOMAIN items : items[i] = Bad}
        unread == Unread(items, queryFails, lost)
    IN  /\ client = Idle
        /\ (bad # {} \/ queryFails) => continue
        /\ client' = [pc |-> "replied", items |-> items, continue |-> continue,
                      next |-> Len(items) + 1, failed |-> unread,
                      errors |-> Add(Add(Zero(items), bad), unread),
                      successes |-> Add(Zero(items), DOMAIN items \ unread)]
        /\ UNCHANGED <<now, rows>>

BatchUpdateKeyMetadata(items, continue) ==
    /\ client = Idle
    /\ client' = [pc |-> "read", items |-> items, continue |-> continue, next |-> 1,
                  failed |-> {}, errors |-> Zero(items), successes |-> Zero(items)]
    /\ UNCHANGED <<now, rows>>

\* The next item is read and its metadata edited, or it gets an error; without
\* continue_on_error the call ends there, before anything is written.
UpdateRead(getFails) ==
    LET c == client
        i == c.next
        ok == IF c.items[i] = Bad \/ getFails THEN FALSE ELSE Present(c.items[i])
    IN  /\ c.pc = "read"
        /\ client' = IF ~ok /\ ~c.continue THEN Idle
                     ELSE [c EXCEPT !.next = i + 1,
                                    !.pc = IF i = Len(c.items) THEN "write" ELSE "read",
                                    !.failed = IF ok THEN c.failed ELSE c.failed \cup {i},
                                    !.errors = IF ok THEN c.errors ELSE Add(c.errors, {i})]
        /\ UNCHANGED <<now, rows>>

\* The reply after the write: every item of the request gets a result, those that
\* were never read too.
UpdateReply(c, writeFails) ==
    LET all == DOMAIN c.items
    IN  [c EXCEPT !.pc = "replied",
                  !.errors = IF writeFails THEN Add(c.errors, all) ELSE c.errors,
                  !.successes = IF writeFails THEN c.successes ELSE Add(c.successes, all)]

\* All documents are written in one transaction.
UpdateWrite(writeFails) ==
    /\ client.pc = "write"
    /\ client' = IF writeFails /\ ~client.continue THEN Idle ELSE UpdateReply(client, writeFails)
    /\ UNCHANGED <<now, rows>>

-----------------------------------------------------------------------------

\* The client has read the reply.
Reset ==
    /\ client.pc \in {"listed", "got", "replied"}
    /\ client' = Idle
    /\ UNCHANGED <<now, rows>>

Init ==
    /\ now = 0
    /\ rows = [k \in Keys |-> Absent]
    /\ client = Idle

Start ==
    /\ client = Idle
    /\ \/ \E limit \in PageSizes : StartListing(limit)
       \/ \E items \in Batches(Keys), lost \in SUBSET (Keys \X (1..MaxVersion)) :
             BatchGetKeys(items, lost)
       \/ \E items \in Batches(Keys \cup {Bad}), b, fails \in BOOLEAN, lost \in SUBSET Keys :
             BatchGetKeyMetadata(items, b, fails, lost)
       \/ \E items \in Batches(Keys \cup {Bad}), b \in BOOLEAN :
             BatchUpdateKeyMetadata(items, b)

NextPage ==
    client.pc = "list" /\ \E P \in SUBSET Keys : \E lost \in SUBSET P : Page(P, lost)

\* The steps of a batch call under way.
Serve ==
    \/ \E i \in 1..MaxItems : Acquire(i) \/ \E failed \in BOOLEAN : Finish(i, failed)
    \/ Collect
    \/ \E fails \in BOOLEAN : UpdateRead(fails) \/ UpdateWrite(fails)

Next ==
    \/ Tick
    \/ \E k \in Keys, s \in Stamps : Create(k, s) \/ Rotate(k, s)
    \/ Start \/ NextPage \/ Serve \/ Reset

Spec == Init /\ [][Next]_vars

\* The client goes on asking for pages; goroutines are scheduled, and database
\* and KMS calls end, if only by their timeouts.
FairSpec == Spec /\ WF_vars(NextPage) /\ WF_vars(Serve)

-----------------------------------------------------------------------------
(* Properties *)

\* No version of a key is in two pages of a listing, nor twice in one, whatever is
\* created, rotated and stamped late while the client follows the tokens, and
\* whichever rows cannot be read: every page is strictly older than the last row
\* the client was given.  (Nothing is said of what a listing leaves out.)
ListedOnce ==
    client.pc \in {"list", "listed"} =>
        \A kv \in Keys \X (1..MaxVersion) : client.listed[kv] <= 1

\* A listing ends although rows are added all the time: each token is older than
\* the one before.
ListingEnds == client.pc = "list" ~> client.pc = "listed"

\* The reply to BatchGetKeys has at the index of each item, whatever the order in
\* which the goroutines end, the outcome for that item: an error if nothing of its
\* key was read or the KMS failed, and key material, if any, of that key and of a
\* version that was read; items that name one key get the same version, although it
\* is rotated meanwhile.  (Nothing is said of the status of the key or of which of
\* its versions should be served.)
BatchExact ==
    client.pc = "got" =>
        \A i \in DOMAIN client.items :
            LET k == client.items[i]
                r == client.results[i]
            IN  /\ client.snapshot[i] = {} \/ i \in client.failed => r = Error
                /\ r # Error => r.key = k /\ r.version \in client.snapshot[i]
                /\ \A j \in DOMAIN client.items :
                     (client.items[j] = k /\ r # Error /\ client.results[j] # Error)
                        => client.results[j] = r

\* A batch call returns, with more items than the semaphore admits at a time and
\* with items that fail.
BatchReturns ==
    client.pc \in {"get", "read", "write"} ~> client.pc \in {"idle", "got", "replied"}
=============================================================================
