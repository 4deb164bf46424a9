# Polykey: TLA+ models, checks and proofs

Polykey is a gRPC service that stores data encryption keys (DEKs) in PostgreSQL,
wrapped by a KMS. This directory models the parts of it in which concurrency,
failure and ordering decide correctness, checks them with TLC on small instances
and proves the main safety properties with TLAPS for every instance.

## 1. Inventory

Paths are relative to `src/`.

| Component | State | Operations | Interacts with | What is hard | What makes it correct |
|---|---|---|---|---|---|
| **Key store**: table `keys`, `persistence/psql_adapter.go`, `transaction_manager.go`, the writing calls of `service/key_manager.go` and `key_creator.go` | rows `(id, version)`: status, metadata (with its own `version` member), wrapped DEK; advisory locks | create, batch create, rotate, revoke, batch revoke, update metadata, batch update | called by the gRPC handlers and the pipeline workers, through the breaker and then the cache | a SERIALIZABLE transaction with retries against autocommitted statements; unknown commit outcome; read-modify-write of metadata | version numbers without gaps, one active version, one version per call, acknowledged keys stay |
| **Rotation pipeline**: `pipelines/key_rotation.go` and `RotateKey` | two bounded channels, five workers | enqueue, take, rotate, send, receive, give up | handlers on one side, key store on the other | one result channel for all callers, callers that leave, both channels full | a waiting caller is answered; nothing is lost |
| **Cached repository**: `persistence/cached_repository.go`, `pkg/cache/generic_cache.go` | items with TTL; index id -> cache keys; two locks | get (fill), write (invalidate), evict callback, cleanup goroutine | between the breaker and the PostgreSQL adapter | fill and invalidation are several critical sections; callback under lock | index covers cache; an invalidation is complete; no deadlock |
| **Circuit breaker**: `pkg/patterns/circuitbreaker`, `persistence/key_repository_circuit_breaker.go` | four atomics: state, failures, successCount, lastFailureTime | Execute: canExecute, call, recordResult, transition | the outermost repository decorator: wraps the cache, which wraps the adapter | lock-free: calls of different periods interleave between load, add and CAS | never stuck half-open; recovers |
| **Audit logger and shutdown**: `infra/audit/async_audit_logger.go`, `wiring/wire_prod.go`, `cmd/polykey/main.go` | bounded event channel, batches of the workers | AuditLog, receive, tick, write batch, Stop, Close | handlers, database pool, main | drop on full; shutdown order; send on closed channel | every event has exactly one fate; shutdown flushes and ends |
| **Retrieval, listing, batch calls**: `service/key_retriever.go`, `key_lister.go`, batch calls of `key_manager.go`, `pkg/patterns/batch` | per call: page token; semaphore, result slots | ListKeys, BatchGetKeys, BatchGetKeyMetadata, BatchUpdateKeyMetadata, ProcessBatch | store, KMS, clients that follow page tokens | rows move and appear while a client pages; a cursor on a time stamp that is not unique; partial failure | no version twice; the right answer at the right index; it ends |
| **Tokens, revocation, rate limiter**: `infra/auth/token_*.go`, `service/auth_service.go`, `infra/ratelimit`, `interceptors/auth.go` | list of revoked ids with TTL, buckets | Authenticate, validate, Revoke, Allow | interceptor, client file | two deadlines that must agree; concurrent first requests; tokens outlive a restart | a revoked token stays rejected; the rate holds; a new client file takes effect |
| **Authoriser, client store, tiers, gRPC methods**: `infra/auth/authorizer.go`, `file_client_store.go`, `pkg/authorization`, `app/grpc/polykey_impl.go`, `validation` interceptor | cache of positive decisions | Authorize, then the method | key repository, tokens | a decision made for one request serves others | a cached decision serves only what it was made for |
| KMS providers, retry, timeout: `kms`, `pkg/execution` | none | encrypt, decrypt, WithRetry | creator, pipeline | retries | success or failure of a step here |
| DEK, buffer and worker pools, validation of fields, configuration, S3, tools | - | - | - | - | not modelled, see section 7 |

`PROJECT.json` has the same list with the sources, and under `hazards` every place
where this code can go wrong in a way a test would hardly reach, with the property
that would show it.

## 2. Modules and how they correspond to the code

`map` in `PROJECT.json` gives the source lines of every definition.

**KeyStore.** `rows[k][v]` is the committed row; `call[p]` is a service call in
progress; `acked` is history. Each action is one interaction with PostgreSQL:

* `CreateKeys` - one COPY for one or several keys (`CreateKey`,
  `CreateBatchKeys`), failing as a whole on the primary key. The reply may be lost.
* `RotateGetKey`, `RotateBegin` (snapshot), `RotateLock` (advisory lock),
  `RotateQuery`, `RotateCommit`, `Retry` - the processing of one rotation. The
  query reads the new version number from the *metadata* of the row it replaces;
  serialization failures (40001) restart the transaction up to `MaxRetries` times,
  other errors end the call. A commit may take effect without the reply arriving.
* `RevokeStart`/`RevokeApply`, `UpdateStart`/`UpdateApply` - an autocommitted
  statement in two steps: the statement's own snapshot chooses the rows, then it
  waits for rows an open rotation has locked and writes. `UpdateGetKey` is the read
  that precedes the metadata update in the service.
* `CallFails` - any other error, timeout or rollback.

`Touch`, `Finish` and `RowLocked` are the behaviour of PostgreSQL the code relies
on: first-updater-wins under SERIALIZABLE, row locks held to the end of the
transaction. 40001 may also be raised spuriously. A DEK is the number of the call
that generated it; of the metadata only the `version` member is kept. Reads go to
the table; the cache is a module of its own.

**VersionedKeys** is what the store promises: a history of versions per key that
`Create` and `Rotate` change in one step each, and revocations in two. `Look` fixes
what a revocation covers: *all* versions that its keys have at that moment, the latest
included. `Revoke` then revokes exactly these at once, or `GiveUp` none. A rotation
between the two counts as one after the revocation; without one, no version is spared.
`KeyStore` maps its rows to the histories (status and DEK of every version, without
metadata) and the rows a revoking statement has chosen to what the revocation covers,
and implements it: visible are only `CreateKeys`, the commit of a rotation, and the
choice, the write and the failure of a revocation. That a version added meanwhile
stays active is the code's behaviour; section 5 sets it against the documents.

**KeyRotationPipeline.** `requests` and `results` are the two channels. `Enqueue`
never blocks and refuses when the channel is full; `SendResult` blocks; `Receive`
takes the next result whoever it is for; `Cancel` is `ctx.Done()`. The workers run
with `context.Background()`, so their own cancellation branches never fire.

**CachedRepository.** `Set` (under `c.mu`) and `AddIndex` (under `cacheIndexMux`) are
the two critical sections of a fill; `Snapshot`, `Delete`, `Evict` those of an
invalidation, `Evict` being the callback that runs with `c.mu` still held;
`CleanerDelete`/`CleanerEvict` are the cleanup goroutine. Both locks are variables: `mu`
is the writer of `c.mu`, `writer` and `readers` are the holders of `cacheIndexMux`, and
taking the latter is a step of its own (`LockIndex`, `RLockIndex`, `CleanerLockIndex`),
so that a goroutine can be seen waiting for one lock with the other in its hands
(`WaitsFor`). Sections of `c.mu` in which nothing is waited for are one step. That a
waiting writer of an RWMutex holds up new readers is left out: no goroutine takes a
read lock twice, which is where it would matter. The value of a key is the
number of writes so far, so stale is `val # db`. Three kinds of `Write`: `single`
(invalidates), `unknown` (took effect but returned an error: no invalidation),
`batch` (bypasses the cache). `CreateBatchKeys` invalidates one id after the other,
which is a sequence of single writes. A cache hit changes nothing and is no action.

**CircuitBreaker.** Every atomic operation of `canExecute`, `recordResult` and
`transition` is an action, `pc` says which comes next. The counters saturate at the
thresholds they are compared with (they are only compared and reset); of the clock
only "resetTimeout has passed since lastFailureTime" is kept.

**AsyncAuditLogger.** The channel, the workers' batches, and the shutdown as `main`
and `Container.Close` order it: `GracefulStop` (no new RPC), all handlers return,
`Stop` closes the channel, workers drain and flush, then the pool is closed.
`emitted`, `dropped`, `written`, `failed` are history.

**MultiKeyCalls.** One client, and other clients that create and rotate keys around
it. Of a row only what these calls choose by is kept: version and creation time of
the latest version. `Page` is one ListKeys request: the query for `limit` rows older
than the token, and the new token. Rows may be stamped up to `Delay` before they become visible, as `created_at` is
set before the commit. A row that cannot be scanned is logged and skipped by the
adapter: `lost`, any set of rows, is a parameter of `Page`, of `BatchGetKeys` and of
`BatchGetKeyMetadata`. A page that is shorter for it looks like the last one.
`BatchGetKeys` reads all versions of its keys in one query; `Acquire` and
`Finish` are the goroutines of the batch processor around its semaphore, `Collect`
the end of the wait. `UpdateRead`/`UpdateWrite` are the item-by-item reads and the
one transaction of BatchUpdateKeyMetadata.

**Authentication.** `tokens[t]` are the claims of a JWT and the ticks it remains
valid; `RevokeStart` computes the remaining lifetime and `RevokeSet` stores the
entry, as `TokenManager.Revoke` and the TTL cache do; `Receive`, `CheckRevoked`,
`Allow` are the interceptor up to the handler. `Restart` loads another client file,
forgets revocations and limiters and keeps the tokens, which live with the clients.
`credit` is history: what an ideal token bucket would still allow.

**Authorization.** `Lookup` stands for everything up to the decision cache:
validator, scope, identity, certificate; `Decide` reads the key and checks contexts
and tier, `Store` caches a positive decision, `Run` is the method. `MethodTable` is
the scope each RPC passes and whether it names one key; the batch methods name none, and
a method on one key may be called with the zero id, which the authoriser takes for no key.
`byAdmin` is history: the operations on keys that an administrator's roles were found to
allow since the start.

`MC*` modules are the instances for TLC; `*_proofs` modules hold invariants used only
by proofs, and the theorems. Definitions whose comment begins with "Mutant" are
plausible bugs; each property of a passing run fails when the definition they
stand for is replaced by them.

## 3. Runs

| Run | Instance | Shows |
|---|---|---|
| `keystore` | 2 keys, 2 processes, 3 calls in all, 2 versions, 2 attempts | the version history stays well formed under every interleaving of creation, rotation, revocation (single and of both keys) and metadata update; every call returns; the store implements `VersionedKeys` |
| `pipeline` | 3 callers, 2 workers, channels of 2 | conservation; a caller that stays is answered |
| `cache` | 2 calls, 2 cache keys, every kind of write, 2 writes | index, complete invalidation, no cycle of goroutines waiting for locks, every call returns |
| `breaker` | 3 calls, thresholds 2 and 2 | never stuck; recovers |
| `audit` | 2 handlers, 2 workers, channel 2, batch 2, 5 events | conservation, shutdown order, eventual writing |
| `authentication` | 2 clients, 2 tokens at a time, 2 requests, tokens valid for 2 ticks, buckets of 2, 3 client files of which one is refused | a token that was revoked when a request arrived gets through only once it has expired; the rate limit holds; a new client file is in force after one token lifetime |
| `authorization` | 2 users, 1 key, 2 requests, GetKey and CreateKey, 2 tiers, 2 client files: two readers; the first of them an administrator, the second gone | a method on a key that no administrator's roles decided runs for a user of the key's contexts, also when the decision is cached and after restarts that change the roles |
| `multikey` | 3 keys, pages of 1 and 2, batches of 2 items with 1 place, 2 versions, clock up to 2 | a paged listing repeats no version and ends, with rows added, rotated, stamped alike or unreadable; what a batch answers at each index, and that it ends |
| `keystore_revoked_final` | 1 key, 2 calls | **violated**: rotating a revoked key makes it usable again |
| `pipeline_crossed` | 2 keys, 2 callers | **violated**: a caller receives the result of another caller's key |
| `pipeline_clogged` | 1 caller, 1 worker, channels of 1 | **violated**: results nobody takes fill the channel and the workers block for ever |
| `cache_race` | 2 calls, 1 write | **violated**: a fill that overlaps with a revocation caches the active key |

The violated properties state what a document, a comment or a message of the
repository says; `findings` quotes the lines.

**Bounds.** Two versions are enough for a rotation, a revoked version that has a
successor, and, as an update can put the old number into the new row, a rotation
that computes a version that exists. Two attempts are needed for a retry and its
exhaustion, two keys for a batch that meets a rotation of one of them, three calls
for a third one between two that overlap; `keystore_revoked_final` has three
versions. Channels of two let a queue be empty, partly filled and full, and
callers that leave are reused, so both channels clog with three callers. Two writes
make a cached value stale, refreshed and stale again. Three breaker calls give one
of an earlier period, one that moves the state and one that reads it. Three keys
and pages of one make a listing of several pages with a key before, at and after
the cursor; time stamps collide because there are as many keys as times; two items
with one place make one goroutine wait, and may name one key twice or a key that
does not exist. A token lifetime of two ticks lets a token be fresh, half spent and
expired, and a revocation be computed before and stored after a tick; a bucket of
two can be full, partly used and empty. Two client files give promotion, demotion
and removal of a user; one key is enough as a decision names one key.
The proofs remove the bounds for the safety properties of the modules they are about.

**Fairness.** `KeyStore`: weak fairness of a call's own steps (the goroutine runs,
PostgreSQL answers); nothing is assumed about `CallFails` or about new calls.
`KeyRotationPipeline`: strong fairness of receives and sends, because Go serves
blocked senders and receivers of a channel in order of arrival; no caller is assumed
to call or to give up. `CachedRepository`: strong fairness of a call's steps, as
`sync.RWMutex` does not starve a waiter, and the cleaner finishes a pass it has
begun. `CircuitBreaker`: time passes and clients keep calling, since only a call
moves the breaker; the repository need not ever recover, and recovery is the
hypothesis of `BreakerRecovers`. `AsyncAuditLogger`: handlers return, goroutines are
scheduled, and the ticker's case is not ignored by `select` for ever (its choice is
random). Initiating the shutdown is not assumed. `MultiKeyCalls`: the client goes on
asking for pages, goroutines are scheduled, and database and KMS calls end, if only
by the timeouts the code gives them; other clients and the clock need not do
anything, nor need they ever stop. `Authentication` and `Authorization` state safety only.

No run switches deadlock checking off; only `AsyncAuditLogger` ends, with the
explicit step `Terminated`. Symmetry is used for tokens and requests in
`authentication` and for requests in `authorization`: no action or property names one,
and these runs check no liveness.

## 4. Proofs

All theorems are for every set of keys, calls, workers and every bound; the
assumptions are the named `ASSUME`s of the component modules (positive bounds,
nonempty or finite sets).

**KeyStore_proofs**: `TypeCorrect`, `Contiguous`, `LatestActive`, `Durable`,
`RotatesOnce`, `Isolated`, `StatusOrdered`. None of the properties is inductive. The
rotation numbers the new version `metadata.version + 1`, and metadata updates write
that member; why then no gap? `IInv` says: the versions of a key are `1..n`
(`Gapless`); no metadata number exceeds its row's version (`MetadataBehind`), and an
update under way carries a number of a version that exists (`UpdateBehind`); the row
of an untouched snapshot is still what the snapshot saw (`SnapshotKept`); the
advisory lock excludes (`Exclusive`). So the number a query computes is at most
`base + 1`, all numbers up to `base` are taken, and a number that passes the
primary key is `base + 1` with nothing after it (`ReadyToCommit`), which stays true
until the commit because the row is locked and nobody else is past the lock. For
`RotatesOnce` the DEK of a rotation under way is in no row and in no other call
(`DekPending`, `DeksDistinct`). The proof has one lemma per action; those that write
no row rest on `LocalStep`, the two autocommitted UPDATEs on `RewriteStep`.

Its last theorem is `Refinement`, `Spec => ImplementsVersionedKeys`. Beyond `IInv` it
needs that only a revocation under way has chosen rows (`SeenInv`), so that no other
step moves the abstract `revoking`. `RevokeStart` is then `Look`: by `Gapless` the rows
it finds are all of `1..n`. `RevokeApply` is `Revoke`, since no row is ever removed and
what was chosen is still there; the commit is `Rotate` with a DEK the key never had
(`DekPending`); a revocation that fails is `GiveUp`; and every other step leaves the
histories alone.

**KeyRotationPipeline_proofs**: `TypeCorrect`, `Conserved` (the requests queued, in
work and answered are as many as the callers waiting plus those that left).

**CachedRepository_proofs**: `TypeCorrect`, `LockDisciplined`, `IndexComplete`,
`DeadlockFree`, `InvalidationCompletes`. `IndexLock` says that `cacheIndexMux` is held
only inside the sections that need it, and then by nobody who wants another lock; so in
any set of goroutines one that holds it does not wait, and if none does, whoever has
`c.mu` waits for nobody in the set (`NoLockCycle`). `InvalidationComplete` needs to know that a fill which no
write overtook holds the current value (`FreshFill`) and that a stale entry which is
not excused is indexed (`StaleIndexed`), so that the copy of the index entry that
starts an invalidation has it.

**CircuitBreaker_proofs**: `TypeCorrect`, `NeverStuck`. `HalfOpenNotStuck` is
inductive with the types: a call leaves `casClosed` or `zeroHalfOpen` only by
changing the state or zeroing the counter.

**Authorization_proofs**: `InductiveInvariant`, `TypeCorrect`, `Authorised`.
`RunAuthorised` is not inductive, as a request may be sent to `run` by a decision that
another request stored. `Sound` says that every cached decision, and that of every
request past it, is `Backed`: it names no key, or an administrator's roles decided it
since the start, or its user is in the contexts of a key that exists. What backs a
decision is never lost between two starts (`BackedStays`): a key's contexts are set at
its creation only; and a restart empties the cache. A method that removed contexts from a
key would break the proof at exactly this lemma, unless it also emptied the cache.

**AsyncAuditLogger_proofs**: `TypeCorrect`, `Conservation`, `SendsBeforeClose`,
`ShutdownFlushes`. `EventsConserved` is a sum, which says too little to be inductive: when
a batch is written, nothing in it keeps two workers from holding the same event.
`Partition` says that the channel has no event twice and that channel, batches and fates
are disjoint and together `1..emitted`; sends, receives and writes then move events from
one set to another (`AppendElems`, `TailElems`), and the sum follows from the
cardinality of disjoint finite sets. `RoomLeft` (a worker that receives has room)
keeps batches within their size. For the shutdown, `PhaseOrder` ties `closed` to the phase,
and `EndedEmpty` says that a worker left its loop with the channel closed and empty, which
stays true because nobody sends any more (`NoSendOnClosed`). `ShutdownFlushes` has the
hypothesis that there is a worker: the default is three, but nothing checks the
configured number, and with none nobody would empty the channel.

**Authentication_proofs**: `TypeCorrect`, `RevocationHolds`, `RateHolds`, `FileInForce`.
Three arguments share `IInv`. `EntriesLast`: a lifetime, computed or stored, is at least
what the token has left; time only shortens the latter while the former waits to be
stored, and both equally afterwards. `LateCaught`: so a request whose token was listed on
arrival still meets the entry, or the token has expired. `BucketsExact`: what a limiter
holds, a missing one counted as full, is exactly the credit of the ideal bucket. `Dated`: a
token that differs from the client file was issued before the start, so `left + age` is
at most `TokenTTL`, and once `age` has reached it nothing is left of the token.

**MultiKeyCalls_proofs**: `TypeCorrect`, `Listed`, `BatchAnswered`, `ListingVariant`. The
invariant has one part per kind of call. `ListInv`: a version that was listed was listed
once, is no newer than the latest of its key, and if it is the latest then it is not
older than the cursor. A page has only latest versions strictly older than the cursor,
none of which was listed therefore; a rotation brings a version that was not. `GetInv`: an
item that is done has its own `Answer` from the snapshot, and items with the same key have
the same snapshot. `ReplyInv`: before the write, exactly the items that failed have one
error. `ListingVariant` is the safety half of `ListingEnds`: `TokensDescend`, each token is
strictly older than the one before; it needs that a token is the least time in its page
(`LastIs`), and that the limit is not zero.

Every inductive invariant was checked with TLC on the instances above before it was
proved; every invariant and every action property of a passing run is now a theorem.
**Only model-checked** are the liveness properties (`CallsReturn`, `WaitersServed`,
`BreakerRecovers`, `ShutdownCompletes`, `EventuallyProcessed`, `ListingEnds`,
`BatchReturns`), which are beyond the proof system.

## 5. Observations without a run of their own

* A revocation that waits for a rotation's row lock does not see the version this
  rotation adds, so `RevokeKey` can return with an active version in the table
  (`psql_adapter.go:325`), where `API_REFERENCE.md:133` says that it "Revokes all versions
  of a key, making it unusable". `ImplementsVersionedKeys` covers these behaviours and takes
  the rotation to come after the revocation; it does not say that the key is unusable.
* `previous_version` of a rotation is read before the transaction and may be older
  than the version that was replaced (`key_manager.go:22`).
* `RevokeBatchKeys` and `UpdateBatchKeyMetadata` do not invalidate the cache
  (`cached_repository.go:187`).
* The half-open limit of the breaker counts successes, so more calls than
  `halfOpenRequests` may run at once; and a call that passed the timeout check before
  a failed probe moves the reopened breaker to half-open at once.
* Audit events are dropped when the channel is full and lost when a batch cannot be
  written; `EventsConserved` counts them.
* A metadata update overtaken by a rotation puts the old number into the new row's
  document (`key_manager.go:303`); the next rotation computes a version that exists,
  and fails on the primary key, and so does every later one.
* `UpdateKeyMetadata` edits the cached document in place (`key_manager.go:309`): when the
  write fails, readers and the next update still see the edit until the entry expires.
* `UpdateKeyMetadata` ignores the contexts to add and to remove
  (`polykey_functions_doc.md:105` promises them). The proof of `Authorised` relies on it.
* Batch reads serve the oldest version of a key: the query orders by version,
  descending, and the last row wins in the map; and they do not look at the status, so
  a revoked key is served (`key_retriever.go:147`), against `API_REFERENCE.md:133` and
  `polykey_functions_doc.md:93`. `BatchExact` is silent on the status and on which version
  of the key should be served.
* With `continue_on_error`, an item that failed has two results in the reply of
  BatchUpdateKeyMetadata and BatchGetKeyMetadata, in the former also a success;
  `API_REFERENCE.md:149` says "either a success message or an error". No property is
  stated about these replies, which `UpdateReply` and `BatchGetKeyMetadata` show. The batch processor ignores the flag. An id that is not spelled the way the server
  writes it is read by a batch and then reported as not found.
* A listing skips keys stamped like the last row of a page, and a row that cannot be
  scanned shortens a page, which then looks like the last one: `polykey_functions_doc.md:54`
  promises "Consistent ordering for reliable pagination behavior". ListKeys lists the keys
  of all clients, where line 47 of that document says "Only returns keys the client is
  authorized to access". `ListedOnce` says nothing of what should or should not be listed.
* Batch methods are authorised without a key: the contexts of the keys they name are
  not checked (`polykey_impl.go`, `execWithoutKey`; `polykey_functions_doc.md:11` says that
  clients reach "only keys they are explicitly authorized to access"). `RunAuthorised` is
  about the methods on one key.
* A cached decision does not contain the tier, and one made for an administrator's
  token serves another token of the same user until it expires (`authorizer.go:86` and
  `:170`); `RunAuthorised` leaves both out, by name (`UnprivilegedRun`).
* No RPC revokes a token (only `tests/integration/auth_test.go:83` does), and
  `server.go:58` builds a token store of its own, so a revocation in the container's
  store would not be seen by the interceptor. Revocations and limiters are lost at a
  restart. `RevokedRejected` is about one store.
* A rejected request is audited with an empty user.
* The comment of `WorkerPool.Stop` (`worker_pool.go:96`) says that it waits for all
  submitted jobs; workers leave when the context is done, with jobs still queued, and
  if no one reads the results Stop may never return. Nothing uses the pool.

## 6. Plan

Done, in this order: KeyStore, KeyRotationPipeline, CachedRepository, CircuitBreaker,
AsyncAuditLogger; VersionedKeys and the refinement; Authentication, Authorization,
MultiKeyCalls; the proofs of section 4.

Next, proofs only: the variants behind the other liveness properties, as
`ListingVariant` is for `ListingEnds` (a worker's steps after the channel is closed are
bounded by what channel and batch hold; an attempt of a rotation is never given back).

## 7. Not modelled

* Cryptography, KMS calls and `WithRetry`: a step that succeeds or fails. The retry loop
  repeats a stateless call in one goroutine.
* The content of metadata other than `version`, formatting, gRPC transport.
* Validation of single fields, bounded types and the classification of errors:
  stateless, and within reach of unit tests. Where a check guards a state change (the
  requester context, an invalid item of a batch) it is a guard of the action.
* Configuration, secrets, TLS and wiring: executed once, before any concurrency. A
  failed start ends the process, so a container that is half initialised is never used.
* DEK and buffer pools: each buffer is taken, used and put back by one goroutine, and
  what is kept of it is the ciphertext in memory of its own.
* S3 storage: nothing calls the function of the wiring that builds it.
* The worker pool of `pkg/patterns/concurrency`: no code uses it.
* The in-place edit of cached metadata as a composition of store and cache: no document
  says what a reader may see of an update that is not committed.
* The development client, scripts and mocks.
