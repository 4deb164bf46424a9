--------------------------- MODULE CachedRepository ---------------------------
(***************************************************************************)
(* The read-through cache in front of the key store: CachedRepository      *)
(* (internal/infra/persistence) on top of the generic cache (pkg/cache).   *)
(*                                                                         *)
(* Two structures, two locks: the items of the cache under c.mu, and the   *)
(* index from a key id to its cache keys under cacheIndexMux.  A fill sets *)
(* the item and adds it to the index in two critical sections; an          *)
(* invalidation copies the index entry and then deletes item by item, and  *)
(* every deletion calls back, with c.mu held, to shrink the index: so      *)
(* cacheIndexMux is taken inside c.mu, and its holders must not want c.mu. *)
(* Taking cacheIndexMux and what is done under it are separate steps; of   *)
(* the sections of c.mu only those that wait inside it are.                *)
(*                                                                         *)
(* The store behind the cache is a version counter per key id: what is     *)
(* cached is the counter at the time of the read, stale when the counter   *)
(* has moved on.  "excused" and "raced" are history: they mark the entries *)
(* and the fills that overlapped with a write of the same id, or that a    *)
(* write left behind by not invalidating.                                  *)
(***************************************************************************)
EXTENDS Integers, FiniteSets

CONSTANTS Ids,         \* key ids
          Suffixes,    \* the cache keys of an id: ":latest", ":v1", ...
          Procs,       \* concurrent repository calls
          Cleaner,     \* the goroutine of cleanupLoop
          Free,        \* value of mu and writer when nobody holds the lock
          WriteKinds,  \* which writes happen: see Write
          MaxWrites    \* bound: writes per key id

ASSUME CachedRepositoryAssumption ==
    /\ MaxWrites \in Nat
    /\ Ids # {} /\ Suffixes # {}
    /\ Free \notin Procs \cup {Cleaner}
    /\ Cleaner \notin Procs
    /\ WriteKinds \subseteq {"single", "unknown", "batch"}

VARIABLES db,        \* db[id]: how often the rows of id have been written
          items,     \* c.items, a partial function of the cache keys
          index,     \* cacheIndex: the cache keys listed under their ids
          mu,        \* writer holding c.mu
          writer,    \* writer holding cacheIndexMux
          readers,   \* readers holding cacheIndexMux
          evicting,  \* the cache key whose eviction callback is pending
          call       \* call[p]: the progress of repository call p

locks == <<mu, writer, readers>>

vars == <<db, items, index, locks, evicting, call>>

-----------------------------------------------------------------------------

Slots == Ids \X Suffixes

Item == [present: BOOLEAN, val: 0..MaxWrites, expired: BOOLEAN, excused: BOOLEAN]

NoItem == [present |-> FALSE, val |-> 0, expired |-> FALSE, excused |-> FALSE]

Call == [pc: {"idle", "fetch", "store", "index", "snapshot", "delete", "evict"},
         slot: Slots,          \* the cache key of a read, or one of the id written
         val: 0..MaxWrites,    \* the key read from the repository
         raced: BOOLEAN,       \* the id was written since that read
         todel: SUBSET Slots]  \* keysToDel

Idle == [pc |-> "idle", slot |-> CHOOSE s \in Slots : TRUE, val |-> 0,
         raced |-> FALSE, todel |-> {}]

\* What is cached is a value the repository returned, never the nil key of a failed
\* read; the locks have holders among the goroutines.
TypeOK ==
    /\ db \in [Ids -> 0..MaxWrites]
    /\ items \in [Slots -> Item]
    /\ index \subseteq Slots
    /\ mu \in Procs \cup {Cleaner, Free}
    /\ writer \in Procs \cup {Cleaner, Free}
    /\ readers \subseteq Procs
    /\ evicting \subseteq Slots
    /\ call \in [Procs -> Call]

Init ==
    /\ db = [i \in Ids |-> 0]
    /\ items = [s \in Slots |-> NoItem]
    /\ index = {}
    /\ mu = Free
    /\ writer = Free
    /\ readers = {}
    /\ evicting = {}
    /\ call = [p \in Procs |-> Idle]

-----------------------------------------------------------------------------
(* GetKey and GetKeyByVersion *)

\* cache.Get under c.mu.RLock: an expired item is a miss.  A hit ends the call.
Lookup(p, s) ==
    /\ call[p].pc = "idle"
    /\ mu = Free
    /\ ~items[s].present \/ items[s].expired
    /\ call' = [call EXCEPT ![p] = [Idle EXCEPT !.pc = "fetch", !.slot = s]]
    /\ UNCHANGED <<db, items, index, locks, evicting>>

\* Mutant: the error of the repository is ignored and its nil key cached.
FetchNil(p) ==
    /\ call[p].pc = "fetch"
    /\ \E v \in {-1, db[call[p].slot[1]]} :
         call' = [call EXCEPT ![p].pc = "store", ![p].val = v]
    /\ UNCHANGED <<db, items, index, locks, evicting>>

\* repo.GetKey: reads the row, or fails and ends the call.
Fetch(p) ==
    /\ call[p].pc = "fetch"
    /\ \/ call' = [call EXCEPT ![p].pc = "store", ![p].val = db[call[p].slot[1]]]
       \/ call' = [call EXCEPT ![p] = Idle]
    /\ UNCHANGED <<db, items, index, locks, evicting>>

\* storeInCache, first critical section: cache.Set.
Set(p) ==
    /\ call[p].pc = "store"
    /\ mu = Free
    /\ items' = [items EXCEPT ![call[p].slot] =
                   [present |-> TRUE, val |-> call[p].val,
                    expired |-> FALSE, excused |-> call[p].raced]]
    /\ call' = [call EXCEPT ![p].pc = "index"]
    /\ UNCHANGED <<db, index, locks, evicting>>

-----------------------------------------------------------------------------
(* cacheIndexMux *)

\* cacheIndexMux.Lock, by a fill or by the eviction callback.
LockIndex(p) ==
    /\ call[p].pc \in {"index", "evict"}
    /\ writer = Free /\ readers = {}
    /\ writer' = p
    /\ UNCHANGED <<db, items, index, mu, readers, evicting, call>>

\* cacheIndexMux.RLock, by an invalidation.
RLockIndex(p) ==
    /\ call[p].pc = "snapshot"
    /\ writer = Free /\ p \notin readers
    /\ readers' = readers \cup {p}
    /\ UNCHANGED <<db, items, index, mu, writer, evicting, call>>

\* Mutant: only one of the cache keys is listed, as if versions were not indexed.
AddIndexNotAll(p) ==
    /\ call[p].pc = "index" /\ writer = p
    /\ index' = IF call[p].slot = Idle.slot THEN index \cup {call[p].slot} ELSE index
    /\ writer' = Free
    /\ call' = [call EXCEPT ![p] = Idle]
    /\ UNCHANGED <<db, items, mu, readers, evicting>>

\* Mutant: a cache key that is listed already returns early, without the Unlock.
AddIndexEarlyReturn(p) ==
    /\ call[p].pc = "index" /\ writer = p
    /\ index' = index \cup {call[p].slot}
    /\ writer' = IF call[p].slot \in index THEN p ELSE Free
    /\ call' = [call EXCEPT ![p] = Idle]
    /\ UNCHANGED <<db, items, mu, readers, evicting>>

\* storeInCache, second critical section: list the cache key, Unlock.
AddIndex(p) ==
    /\ call[p].pc = "index" /\ writer = p
    /\ index' = index \cup {call[p].slot}
    /\ writer' = Free
    /\ call' = [call EXCEPT ![p] = Idle]
    /\ UNCHANGED <<db, items, mu, readers, evicting>>

-----------------------------------------------------------------------------
(* CreateKey, UpdateKeyMetadata, RotateKey, RevokeKey; the batch writes *)

\* Fills of id that have read the repository and are not indexed yet.
Filling(q, i) == call[q].pc \in {"store", "index"} /\ call[q].slot[1] = i

\* History: which entries and fills the write overtakes.
Overtaken(s, i, kind) ==
    /\ s[1] = i
    /\ kind # "single" \/ \E q \in Procs : call[q].pc = "index" /\ call[q].slot = s

\* The write reaches the store.  "single": it returns without error and is
\* followed by the invalidation; "unknown": it took effect but the repository
\* returned an error, so nothing is invalidated; "batch": RevokeBatchKeys and
\* UpdateBatchKeyMetadata bypass the cache.
Write(p, i, kind) ==
    /\ call[p].pc = "idle"
    /\ db[i] < MaxWrites
    /\ db' = [db EXCEPT ![i] = @ + 1]
    /\ items' = [s \in Slots |->
                   [items[s] EXCEPT !.excused = @ \/ (items[s].present /\ Overtaken(s, i, kind))]]
    /\ call' = [q \in Procs |->
                  IF q = p
                  THEN IF kind = "single"
                       THEN [Idle EXCEPT !.pc = "snapshot", !.slot = CHOOSE s \in Slots : s[1] = i]
                       ELSE Idle
                  ELSE [call[q] EXCEPT !.raced = @ \/ Filling(q, i)]]
    /\ UNCHANGED <<index, locks, evicting>>

\* Mutant: the invalidation remembers one cache key instead of all.
SnapshotOne(p) ==
    /\ call[p].pc = "snapshot" /\ p \in readers
    /\ readers' = readers \ {p}
    /\ call' = [call EXCEPT ![p].pc = "delete", ![p].todel = index \cap {call[p].slot}]
    /\ UNCHANGED <<db, items, index, mu, writer, evicting>>

\* Mutant: the RUnlock is deferred, so the read lock is held across the deletions.
SnapshotDeferred(p) ==
    /\ call[p].pc = "snapshot" /\ p \in readers
    /\ call' = [call EXCEPT ![p].pc = "delete",
                            ![p].todel = {s \in index : s[1] = call[p].slot[1]}]
    /\ UNCHANGED <<db, items, index, locks, evicting>>

\* invalidateCache: copy the cache keys listed under the id, RUnlock.
Snapshot(p) ==
    /\ call[p].pc = "snapshot" /\ p \in readers
    /\ readers' = readers \ {p}
    /\ call' = [call EXCEPT ![p].pc = "delete",
                            ![p].todel = {s \in index : s[1] = call[p].slot[1]}]
    /\ UNCHANGED <<db, items, index, mu, writer, evicting>>

\* cache.Delete: under c.mu; the eviction callback runs before it is released.
Delete(p, s) ==
    /\ call[p].pc = "delete"
    /\ s \in call[p].todel
    /\ mu = Free
    /\ IF items[s].present
       THEN /\ items' = [items EXCEPT ![s] = NoItem]
            /\ mu' = p
            /\ evicting' = {s}
            /\ call' = [call EXCEPT ![p].pc = "evict", ![p].todel = @ \ {s}]
       ELSE /\ call' = [call EXCEPT ![p].todel = @ \ {s}]
            /\ UNCHANGED <<items, mu, evicting>>
    /\ UNCHANGED <<db, index, writer, readers>>

\* Mutant: c.mu is released before the callback has run.
EvictUnlockedFirst(p) ==
    /\ call[p].pc = "evict"
    /\ \/ /\ mu = p
          /\ mu' = Free
          /\ UNCHANGED <<index, writer, evicting, call>>
       \/ /\ mu = Free /\ writer = p
          /\ index' = index \ evicting
          /\ evicting' = {}
          /\ writer' = Free
          /\ call' = [call EXCEPT ![p].pc = "delete"]
          /\ UNCHANGED mu
    /\ UNCHANGED <<db, items, readers>>

\* onCacheEvict under cacheIndexMux; then both locks are released.
Evict(p) ==
    /\ call[p].pc = "evict" /\ writer = p
    /\ index' = index \ evicting
    /\ evicting' = {}
    /\ mu' = Free /\ writer' = Free
    /\ call' = [call EXCEPT ![p].pc = "delete"]
    /\ UNCHANGED <<db, items, readers>>

Invalidated(p) ==
    /\ call[p].pc = "delete"
    /\ call[p].todel = {}
    /\ call' = [call EXCEPT ![p] = Idle]
    /\ UNCHANGED <<db, items, index, locks, evicting>>

-----------------------------------------------------------------------------
(* Time and cleanupLoop *)

\* The TTL of an item runs out.
Expire(s) ==
    /\ mu # Cleaner
    /\ items[s].present /\ ~items[s].expired
    /\ items' = [items EXCEPT ![s].expired = TRUE]
    /\ UNCHANGED <<db, index, locks, evicting, call>>

\* deleteExpired holds c.mu for its whole loop.
CleanerDelete(s) ==
    /\ mu \in {Free, Cleaner} /\ evicting = {}
    /\ items[s].present /\ items[s].expired
    /\ items' = [items EXCEPT ![s] = NoItem]
    /\ mu' = Cleaner
    /\ evicting' = {s}
    /\ UNCHANGED <<db, index, writer, readers, call>>

CleanerLockIndex ==
    /\ mu = Cleaner /\ evicting # {}
    /\ writer = Free /\ readers = {}
    /\ writer' = Cleaner
    /\ UNCHANGED <<db, items, index, mu, readers, evicting, call>>

\* The callback; the last one of the loop is followed by the release of c.mu.
CleanerEvict ==
    /\ writer = Cleaner
    /\ index' = index \ evicting
    /\ evicting' = {}
    /\ writer' = Free
    /\ mu' = IF \E s \in Slots : items[s].present /\ items[s].expired THEN Cleaner ELSE Free
    /\ UNCHANGED <<db, items, readers, call>>

-----------------------------------------------------------------------------

Step(p) ==
    \/ Fetch(p) \/ Set(p) \/ LockIndex(p) \/ AddIndex(p)
    \/ RLockIndex(p) \/ Snapshot(p) \/ Evict(p) \/ Invalidated(p)
    \/ \E s \in Slots : Delete(p, s)

Next ==
    \/ \E p \in Procs : \/ \E s \in Slots : Lookup(p, s)
                        \/ \E i \in Ids, kind \in WriteKinds : Write(p, i, kind)
                        \/ Step(p)
    \/ \E s \in Slots : Expire(s) \/ CleanerDelete(s)
    \/ CleanerLockIndex \/ CleanerEvict

Spec == Init /\ [][Next]_vars

\* Goroutines are scheduled, and neither lock is withheld from a waiter for ever
\* (sync.RWMutex hands it over).  No fairness makes the cleaner begin a sweep.
FairSpec ==
    /\ Spec
    /\ \A p \in Procs : SF_vars(Step(p))
    /\ SF_vars(CleanerLockIndex \/ CleanerEvict
                \/ (mu = Cleaner /\ \E s \in Slots : CleanerDelete(s)))

-----------------------------------------------------------------------------
(* Properties *)

Stale(s) == items[s].present /\ items[s].val # db[s[1]]

\* Every cached key is listed in the index under its id, or the fill that put it
\* there has yet to list it: an item the index forgets could never be
\* invalidated.  The eviction callback, which removes index entries, must not
\* overtake a fill of the same cache key.
IndexCovers ==
    \A s \in Slots : items[s].present =>
        s \in index \/ \E p \in Procs : call[p].pc = "index" /\ call[p].slot = s

\* c.mu is held exactly by whoever is between deleting an item and its callback.
LockDiscipline ==
    /\ \A p \in Procs : call[p].pc = "evict" <=> mu = p
    /\ mu = Free => evicting = {}
    /\ \A s \in evicting : ~items[s].present

\* An invalidation is complete: when a write has returned, no cached key of its
\* id is stale, except entries whose fill overlapped with the write and entries
\* left by a write that does not invalidate.
InvalidationComplete ==
    \A s \in Slots : Stale(s) /\ ~items[s].excused =>
        \E p \in Procs : /\ call[p].slot[1] = s[1]
                         /\ \/ call[p].pc = "snapshot"
                            \/ call[p].pc \in {"delete", "evict"} /\ s \in call[p].todel

\* x waits for y: y holds the lock x needs for its next step.
WaitsFor(x, y) ==
    \/ x \in Procs /\ mu = y
       /\ (call[x].pc = "store" \/ (call[x].pc = "delete" /\ call[x].todel # {}))
    \/ x \in Procs /\ writer # x /\ y \in readers \cup {writer}
       /\ call[x].pc \in {"index", "evict"}
    \/ x \in Procs /\ x \notin readers /\ writer = y
       /\ call[x].pc = "snapshot"
    \/ x = Cleaner /\ mu = Cleaner /\ evicting # {} /\ writer # x
       /\ y \in readers \cup {writer}

\* The callback takes cacheIndexMux while c.mu is held.  There is never a circle
\* of goroutines each waiting for a lock that the next one holds, nor one waiting
\* for itself (sync.RWMutex is not reentrant): invalidateCache must have given
\* back its read lock, and storeInCache must not hold either lock, when they ask
\* for the other.
NoLockCycle ==
    \A S \in SUBSET (Procs \cup {Cleaner}) :
        S # {} => \E x \in S : \A y \in S : ~WaitsFor(x, y)

\* Every repository call returns: the locks it asks for are handed over and given
\* back by every path through storeInCache, invalidateCache and the callback, the
\* cleaner's sweep included.
CallsReturn == \A p \in Procs : call[p].pc # "idle" ~> call[p].pc = "idle"

\* docs/dev_data/polykey_functions_doc.md, RevokeKey: "Key becomes inaccessible
\* to all clients instantly": when no write of an id is in progress, no entry
\* that a lookup would return is stale.
RevokedNotServed ==
    \A s \in Slots : Stale(s) /\ ~items[s].expired =>
        \E p \in Procs : /\ call[p].slot[1] = s[1]
                         /\ call[p].pc \in {"snapshot", "delete", "evict"}
=============================================================================
