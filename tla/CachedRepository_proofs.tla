----------------------- MODULE CachedRepository_proofs -----------------------
(***************************************************************************)
(* Proofs about CachedRepository, for any number of calls, key ids, cache  *)
(* keys and writes.                                                        *)
(*                                                                         *)
(* InvalidationComplete is not inductive: that the copy of the index which *)
(* an invalidation makes holds every stale entry has to be known before    *)
(* the copy is made.  StaleIndexed says so; it rests on IndexCovers (an    *)
(* entry is listed unless its fill is about to list it), on FreshFill (a   *)
(* fill that read an old key knows it was overtaken) and, for the eviction *)
(* callback, on LockDiscipline.  IndexLock says who holds cacheIndexMux:   *)
(* nobody that waits for a lock, which is why NoLockCycle holds.           *)
(***************************************************************************)
EXTENDS CachedRepository, TLAPS

USE CachedRepositoryAssumption DEF locks

\* A fill whose key is no longer current overlapped with the write.
FreshFill ==
    \A p \in Procs : call[p].pc = "store" /\ call[p].val # db[call[p].slot[1]]
        => call[p].raced

\* A stale entry that no overlap excuses is listed in the index.
StaleIndexed ==
    \A s \in Slots : Stale(s) /\ ~items[s].excused => s \in index

\* cacheIndexMux is held only inside the sections that need it, for writing by
\* one goroutine alone, and by the cleaner only inside c.mu.
IndexLock ==
    /\ writer # Free => readers = {}
    /\ \A p \in Procs : writer = p => call[p].pc \in {"index", "evict"}
    /\ \A p \in readers : call[p].pc = "snapshot"
    /\ writer = Cleaner => mu = Cleaner /\ evicting # {}

IInv ==
    /\ TypeOK
    /\ IndexLock
    /\ LockDiscipline
    /\ IndexCovers
    /\ FreshFill
    /\ StaleIndexed
    /\ InvalidationComplete

-----------------------------------------------------------------------------

\* The cache key an idle call is filled in with is a cache key.
LEMMA IdleType == Idle \in Call
<1>1. PICK i \in Ids, x \in Suffixes : TRUE
  OBVIOUS
<1>2. (CHOOSE s \in Slots : TRUE) \in Slots
  <2>1. <<i, x>> \in Slots
    BY DEF Slots
  <2>2. QED
    BY <2>1
<1>3. QED
  BY <1>2 DEF Idle, Call

\* Every id has a cache key, which Write may choose.
LEMMA SlotOf ==
    ASSUME NEW i \in Ids
    PROVE  LET s == CHOOSE t \in Slots : t[1] = i IN s \in Slots /\ s[1] = i
<1>1. PICK x \in Suffixes : TRUE
  OBVIOUS
<1>2. <<i, x>> \in Slots /\ <<i, x>>[1] = i
  BY DEF Slots
<1>3. QED
  BY <1>2

\* Every action preserves the types.
LEMMA TypeStep == TypeOK /\ [Next]_vars => TypeOK'
<1> SUFFICES ASSUME TypeOK, [Next]_vars PROVE TypeOK'
  OBVIOUS
<1> USE DEF TypeOK
<1>1. CASE UNCHANGED vars
  BY <1>1 DEF vars
<1>2. ASSUME NEW p \in Procs, NEW s \in Slots, Lookup(p, s) PROVE TypeOK'
  BY <1>2, IdleType DEF Lookup, Call
<1>3. ASSUME NEW p \in Procs, NEW i \in Ids, NEW kind \in WriteKinds, Write(p, i, kind)
      PROVE  TypeOK'
  <2> DEFINE ex(s) == items[s].excused \/ (items[s].present /\ Overtaken(s, i, kind))
             rc(q) == call[q].raced \/ Filling(q, i)
             sl == CHOOSE t \in Slots : t[1] = i
             new == [Idle EXCEPT !.pc = "snapshot", !.slot = sl]
  <2>1. (\A s \in Slots : ex(s) \in BOOLEAN) /\ (\A q \in Procs : rc(q) \in BOOLEAN)
    <3>1. \A s \in Slots : items[s].excused \in BOOLEAN /\ items[s].present \in BOOLEAN
      BY DEF Item
    <3>2. \A q \in Procs : call[q].raced \in BOOLEAN
      BY DEF Call
    <3>3. (\A s \in Slots : Overtaken(s, i, kind) \in BOOLEAN)
          /\ (\A q \in Procs : Filling(q, i) \in BOOLEAN)
      BY DEF Overtaken, Filling
    <3>4. QED
      BY <3>1, <3>2, <3>3
  <2>2. /\ items' = [s \in Slots |-> [items[s] EXCEPT !.excused = ex(s)]]
        /\ call' = [q \in Procs |-> IF q = p THEN IF kind = "single" THEN new ELSE Idle
                                    ELSE [call[q] EXCEPT !.raced = rc(q)]]
    BY <1>3 DEF Write
  <2>3. new \in Call
    BY IdleType, SlotOf DEF Call
  <2>4. db' \in [Ids -> 0..MaxWrites]
    <3>1. db[i] < MaxWrites /\ db' = [db EXCEPT ![i] = db[i] + 1]
      BY <1>3 DEF Write
    <3>2. db[i] + 1 \in 0..MaxWrites
      BY <3>1
    <3>3. QED
      BY <3>1, <3>2
  <2> HIDE DEF ex, rc, new
  <2>5. items' \in [Slots -> Item]
    BY <2>1, <2>2 DEF Item
  <2>6. call' \in [Procs -> Call]
    <3>1. \A q \in Procs : [call[q] EXCEPT !.raced = rc(q)] \in Call
      BY <2>1 DEF Call
    <3>2. QED
      BY <2>2, <2>3, <3>1, IdleType
  <2>7. QED
    BY <1>3, <2>4, <2>5, <2>6 DEF Write
<1>4. ASSUME NEW p \in Procs, Fetch(p) PROVE TypeOK'
  <2>1. call[p].slot[1] \in Ids
    BY DEF Call, Slots
  <2>2. QED
    BY <1>4, <2>1, IdleType DEF Fetch, Call
<1>5. ASSUME NEW p \in Procs, Set(p) PROVE TypeOK'
  BY <1>5 DEF Set, Call, Item
<1>6. ASSUME NEW p \in Procs, AddIndex(p) PROVE TypeOK'
  BY <1>6, IdleType DEF AddIndex, Call
<1>7. ASSUME NEW p \in Procs, Snapshot(p) PROVE TypeOK'
  <2> DEFINE T == {s \in index : s[1] = call[p].slot[1]}
  <2>1. T \in SUBSET Slots /\ call' = [call EXCEPT ![p].pc = "delete", ![p].todel = T]
    BY <1>7 DEF Snapshot
  <2> HIDE DEF T
  <2>2. call' \in [Procs -> Call]
    <3>1. call[p] \in Call
      OBVIOUS
    <3>2. [call[p] EXCEPT !.pc = "delete", !.todel = T] \in Call
      BY <2>1, <3>1 DEF Call
    <3>3. QED
      BY <2>1, <3>2
  <2>3. QED
    BY <1>7, <2>2 DEF Snapshot
<1>8. ASSUME NEW p \in Procs, NEW s \in Slots, Delete(p, s) PROVE TypeOK'
  <2>1. CASE items[s].present
    BY <1>8, <2>1 DEF Delete, Call, Item, NoItem
  <2>2. CASE ~items[s].present
    BY <1>8, <2>2 DEF Delete, Call
  <2>3. QED
    BY <2>1, <2>2
<1>9. ASSUME NEW p \in Procs, Evict(p) PROVE TypeOK'
  BY <1>9 DEF Evict, Call
<1>10. ASSUME NEW p \in Procs, Invalidated(p) PROVE TypeOK'
  BY <1>10, IdleType DEF Invalidated
<1>11. ASSUME NEW s \in Slots, Expire(s) PROVE TypeOK'
  BY <1>11 DEF Expire, Item
<1>12. ASSUME NEW s \in Slots, CleanerDelete(s) PROVE TypeOK'
  BY <1>12 DEF CleanerDelete, Item, NoItem
<1>13. CASE CleanerEvict
  BY <1>13 DEF CleanerEvict
<1>14. CASE CleanerLockIndex \/ \E p \in Procs : LockIndex(p) \/ RLockIndex(p)
  BY <1>14 DEF CleanerLockIndex, LockIndex, RLockIndex
<1>15. QED
  BY <1>1, <1>2, <1>3, <1>4, <1>5, <1>6, <1>7, <1>8, <1>9, <1>10, <1>11, <1>12, <1>13, <1>14
  DEF Next, Step

\* The cache, the index, the lock and the calls have their types; in particular
\* every cached value is one the repository held.
THEOREM TypeCorrect == Spec => []TypeOK
<1>1. Init => TypeOK
  BY IdleType DEF Init, TypeOK, Item, NoItem
<1>2. QED
  BY <1>1, TypeStep, PTL DEF Spec

-----------------------------------------------------------------------------

\* What a write leaves alone: of the entries it changes only the history, of the
\* other calls only whether they were overtaken.
LEMMA WriteFrame ==
    ASSUME TypeOK, NEW p \in Procs, NEW i \in Ids, NEW kind \in WriteKinds, Write(p, i, kind)
    PROVE  /\ \A s \in Slots :
                /\ items'[s].present = items[s].present
                /\ items'[s].val = items[s].val
                /\ items'[s].excused
                     = (items[s].excused \/ (items[s].present /\ Overtaken(s, i, kind)))
           /\ \A q \in Procs \ {p} :
                /\ call'[q].pc = call[q].pc
                /\ call'[q].slot = call[q].slot
                /\ call'[q].todel = call[q].todel
           /\ \A j \in Ids \ {i} : db'[j] = db[j]
<1>1. ASSUME NEW s \in Slots
      PROVE  /\ items'[s].present = items[s].present
             /\ items'[s].val = items[s].val
             /\ items'[s].excused
                  = (items[s].excused \/ (items[s].present /\ Overtaken(s, i, kind)))
  BY <1>1 DEF Write, TypeOK, Item
<1>2. ASSUME NEW q \in Procs \ {p}
      PROVE  /\ call'[q].pc = call[q].pc
             /\ call'[q].slot = call[q].slot
             /\ call'[q].todel = call[q].todel
  BY <1>2 DEF Write, TypeOK, Call
<1>3. \A j \in Ids \ {i} : db'[j] = db[j]
  BY DEF Write, TypeOK
<1>4. QED
  BY <1>1, <1>2, <1>3

\* A goroutine leaves the section that needs cacheIndexMux only by giving it back.
LEMMA IndexLockStep == TypeOK /\ IndexLock /\ [Next]_vars => IndexLock'
<1> SUFFICES ASSUME TypeOK, IndexLock, [Next]_vars PROVE IndexLock'
  OBVIOUS
<1> USE DEF IndexLock, TypeOK, Call
<1>1. CASE UNCHANGED vars
  BY <1>1 DEF vars
<1>2. ASSUME NEW p \in Procs, NEW s \in Slots, Lookup(p, s) PROVE IndexLock'
  BY <1>2 DEF Lookup, Idle
<1>3. ASSUME NEW p \in Procs, NEW i \in Ids, NEW kind \in WriteKinds, Write(p, i, kind)
      PROVE  IndexLock'
  <2>1. call[p].pc = "idle" /\ UNCHANGED <<mu, writer, readers, evicting>>
    BY <1>3 DEF Write
  <2>2. \A q \in Procs \ {p} : call'[q].pc = call[q].pc
    BY <1>3, WriteFrame
  <2>3. writer # p /\ p \notin readers
    BY <2>1
  <2>4. QED
    BY <2>1, <2>2, <2>3
<1>4. ASSUME NEW p \in Procs, Fetch(p) PROVE IndexLock'
  BY <1>4 DEF Fetch, Idle
<1>5. ASSUME NEW p \in Procs, Set(p) PROVE IndexLock'
  BY <1>5 DEF Set
<1>6. ASSUME NEW p \in Procs, AddIndex(p) PROVE IndexLock'
  BY <1>6 DEF AddIndex, Idle
<1>7. ASSUME NEW p \in Procs, Snapshot(p) PROVE IndexLock'
  BY <1>7 DEF Snapshot
<1>8. ASSUME NEW p \in Procs, NEW s \in Slots, Delete(p, s) PROVE IndexLock'
  <2>1. writer # Cleaner /\ writer # p /\ p \notin readers
    BY <1>8 DEF Delete
  <2>2. \A q \in Procs \ {p} : call'[q] = call[q]
    BY <1>8 DEF Delete
  <2>3. UNCHANGED <<writer, readers>>
    BY <1>8 DEF Delete
  <2>4. QED
    BY <2>1, <2>2, <2>3
<1>9. ASSUME NEW p \in Procs, Evict(p) PROVE IndexLock'
  BY <1>9 DEF Evict
<1>10. ASSUME NEW p \in Procs, Invalidated(p) PROVE IndexLock'
  BY <1>10 DEF Invalidated, Idle
<1>11. ASSUME NEW s \in Slots, Expire(s) PROVE IndexLock'
  BY <1>11 DEF Expire
<1>12. ASSUME NEW s \in Slots, CleanerDelete(s) PROVE IndexLock'
  BY <1>12 DEF CleanerDelete
<1>13. CASE CleanerEvict \/ CleanerLockIndex
  BY <1>13 DEF CleanerEvict, CleanerLockIndex
<1>14. ASSUME NEW p \in Procs, LockIndex(p) \/ RLockIndex(p) PROVE IndexLock'
  BY <1>14 DEF LockIndex, RLockIndex
<1>15. QED
  BY <1>1, <1>2, <1>3, <1>4, <1>5, <1>6, <1>7, <1>8, <1>9, <1>10, <1>11, <1>12, <1>13, <1>14
  DEF Next, Step

\* Only Delete and CleanerDelete take the lock, with the entry just removed; only
\* Evict and CleanerEvict release it; a fill needs it free.
LEMMA LockStep == TypeOK /\ IndexLock /\ LockDiscipline /\ [Next]_vars => LockDiscipline'
<1> SUFFICES ASSUME TypeOK, IndexLock, LockDiscipline, [Next]_vars PROVE LockDiscipline'
  OBVIOUS
<1> USE DEF LockDiscipline, TypeOK, Call
<1>1. CASE UNCHANGED vars
  BY <1>1 DEF vars
<1>2. ASSUME NEW p \in Procs, NEW s \in Slots, Lookup(p, s) PROVE LockDiscipline'
  BY <1>2 DEF Lookup, Idle
<1>3. ASSUME NEW p \in Procs, NEW i \in Ids, NEW kind \in WriteKinds, Write(p, i, kind)
      PROVE  LockDiscipline'
  <2>1. call'[p].pc # "evict" /\ call[p].pc # "evict"
    BY <1>3 DEF Write, Idle
  <2>2. \A q \in Procs : call'[q].pc = "evict" <=> call[q].pc = "evict"
    BY <1>3, <2>1, WriteFrame
  <2>3. \A s \in Slots : items'[s].present = items[s].present
    BY <1>3, WriteFrame
  <2>4. UNCHANGED <<mu, evicting>>
    BY <1>3 DEF Write
  <2>5. QED
    BY <2>2, <2>3, <2>4
<1>4. ASSUME NEW p \in Procs, Fetch(p) PROVE LockDiscipline'
  BY <1>4 DEF Fetch, Idle
<1>5. ASSUME NEW p \in Procs, Set(p) PROVE LockDiscipline'
  BY <1>5 DEF Set
<1>6. ASSUME NEW p \in Procs, AddIndex(p) PROVE LockDiscipline'
  BY <1>6 DEF AddIndex, Idle
<1>7. ASSUME NEW p \in Procs, Snapshot(p) PROVE LockDiscipline'
  BY <1>7 DEF Snapshot
<1>8. ASSUME NEW p \in Procs, NEW s \in Slots, Delete(p, s) PROVE LockDiscipline'
  <2>1. CASE items[s].present
    BY <1>8, <2>1 DEF Delete, NoItem
  <2>2. CASE ~items[s].present
    BY <1>8, <2>2 DEF Delete
  <2>3. QED
    BY <2>1, <2>2
<1>9. ASSUME NEW p \in Procs, Evict(p) PROVE LockDiscipline'
  BY <1>9 DEF Evict
<1>10. ASSUME NEW p \in Procs, Invalidated(p) PROVE LockDiscipline'
  BY <1>10 DEF Invalidated, Idle
<1>11. ASSUME NEW s \in Slots, Expire(s) PROVE LockDiscipline'
  BY <1>11 DEF Expire, Item
<1>12. ASSUME NEW s \in Slots, CleanerDelete(s) PROVE LockDiscipline'
  BY <1>12 DEF CleanerDelete, NoItem
<1>13. CASE CleanerEvict
  BY <1>13 DEF CleanerEvict, IndexLock
<1>14. CASE CleanerLockIndex \/ \E p \in Procs : LockIndex(p) \/ RLockIndex(p)
  BY <1>14 DEF CleanerLockIndex, LockIndex, RLockIndex
<1>15. QED
  BY <1>1, <1>2, <1>3, <1>4, <1>5, <1>6, <1>7, <1>8, <1>9, <1>10, <1>11, <1>12, <1>13, <1>14
  DEF Next, Step

\* A fill leaves "index" only by listing its cache key; what the callback removes
\* from the index is no longer in the cache.
LEMMA IndexStep == TypeOK /\ LockDiscipline /\ IndexCovers /\ [Next]_vars => IndexCovers'
<1> SUFFICES ASSUME TypeOK, LockDiscipline, IndexCovers, [Next]_vars,
                    NEW t \in Slots, items'[t].present
             PROVE  t \in index' \/ \E q \in Procs : call'[q].pc = "index" /\ call'[q].slot = t
  BY DEF IndexCovers
<1> DEFINE Goal == t \in index' \/ \E q \in Procs : call'[q].pc = "index" /\ call'[q].slot = t
           Keeps == \A q \in Procs : call[q].pc = "index" /\ call[q].slot = t
                        => call'[q].pc = "index" /\ call'[q].slot = t
<1> USE DEF TypeOK, Call
<1>0. CASE items[t].present /\ (t \in index => t \in index') /\ Keeps
  BY <1>0 DEF IndexCovers
<1>1. CASE UNCHANGED vars
  BY <1>0, <1>1 DEF vars
<1>2. ASSUME NEW p \in Procs, NEW s \in Slots, Lookup(p, s) PROVE Goal
  BY <1>0, <1>2 DEF Lookup
<1>3. ASSUME NEW p \in Procs, NEW i \in Ids, NEW kind \in WriteKinds, Write(p, i, kind)
      PROVE  Goal
  <2>1. call[p].pc # "index" /\ UNCHANGED index
    BY <1>3 DEF Write
  <2>2. items[t].present /\ Keeps
    BY <1>3, <2>1, WriteFrame
  <2>3. QED
    BY <1>0, <2>1, <2>2
<1>4. ASSUME NEW p \in Procs, Fetch(p) PROVE Goal
  BY <1>0, <1>4 DEF Fetch
<1>5. ASSUME NEW p \in Procs, Set(p) PROVE Goal
  <2>1. CASE call[p].slot = t
    BY <1>5, <2>1 DEF Set
  <2>2. CASE call[p].slot # t
    BY <1>0, <1>5, <2>2 DEF Set
  <2>3. QED
    BY <2>1, <2>2
<1>6. ASSUME NEW p \in Procs, AddIndex(p) PROVE Goal
  <2>1. CASE call[p].slot = t
    BY <1>6, <2>1 DEF AddIndex
  <2>2. CASE call[p].slot # t
    BY <1>0, <1>6, <2>2 DEF AddIndex
  <2>3. QED
    BY <2>1, <2>2
<1>7. ASSUME NEW p \in Procs, Snapshot(p) PROVE Goal
  BY <1>0, <1>7 DEF Snapshot
<1>8. ASSUME NEW p \in Procs, NEW s \in Slots, Delete(p, s) PROVE Goal
  <2>1. items[t].present
    BY <1>8 DEF Delete, NoItem
  <2>2. Keeps
    <3>1. \A q \in Procs : q # p => call'[q] = call[q]
      BY <1>8 DEF Delete
    <3>2. call[p].pc # "index"
      BY <1>8 DEF Delete
    <3>3. QED
      BY <3>1, <3>2
  <2>3. QED
    BY <1>0, <1>8, <2>1, <2>2 DEF Delete
<1>9. ASSUME NEW p \in Procs, Evict(p) PROVE Goal
  BY <1>0, <1>9 DEF Evict, LockDiscipline
<1>10. ASSUME NEW p \in Procs, Invalidated(p) PROVE Goal
  BY <1>0, <1>10 DEF Invalidated
<1>11. ASSUME NEW s \in Slots, Expire(s) PROVE Goal
  <2>1. items[t].present
    BY <1>11 DEF Expire, Item
  <2>2. QED
    BY <1>0, <1>11, <2>1 DEF Expire
<1>12. ASSUME NEW s \in Slots, CleanerDelete(s) PROVE Goal
  <2>1. items[t].present
    BY <1>12 DEF CleanerDelete, NoItem
  <2>2. QED
    BY <1>0, <1>12, <2>1 DEF CleanerDelete
<1>13. CASE CleanerEvict
  BY <1>0, <1>13 DEF CleanerEvict, LockDiscipline
<1>14. CASE CleanerLockIndex \/ \E p \in Procs : LockIndex(p) \/ RLockIndex(p)
  BY <1>0, <1>14 DEF CleanerLockIndex, LockIndex, RLockIndex
<1>15. QED
  BY <1>1, <1>2, <1>3, <1>4, <1>5, <1>6, <1>7, <1>8, <1>9, <1>10, <1>11, <1>12, <1>13, <1>14
  DEF Next, Step

\* A fill reads the current key, and a write after that marks the fill.
LEMMA FreshStep == TypeOK /\ FreshFill /\ [Next]_vars => FreshFill'
<1> SUFFICES ASSUME TypeOK, FreshFill, [Next]_vars, NEW q \in Procs,
                    call'[q].pc = "store", call'[q].val # db'[call'[q].slot[1]]
             PROVE  call'[q].raced
  BY DEF FreshFill
<1> USE DEF TypeOK
<1>0. CASE call'[q] = call[q] /\ UNCHANGED db
  BY <1>0 DEF FreshFill
<1>1. CASE UNCHANGED vars
  BY <1>0, <1>1 DEF vars
<1>2. ASSUME NEW p \in Procs, NEW s \in Slots, Lookup(p, s) PROVE call'[q].raced
  BY <1>0, <1>2 DEF Lookup, Idle
<1>3. ASSUME NEW p \in Procs, NEW i \in Ids, NEW kind \in WriteKinds, Write(p, i, kind)
      PROVE  call'[q].raced
  <2>1. q # p
    BY <1>3 DEF Write, Idle
  <2>2. call'[q] = [call[q] EXCEPT !.raced = call[q].raced \/ Filling(q, i)]
    BY <1>3, <2>1 DEF Write
  <2>3. /\ call'[q].pc = call[q].pc /\ call'[q].val = call[q].val
        /\ call'[q].slot = call[q].slot /\ call'[q].raced = (call[q].raced \/ Filling(q, i))
    BY <2>2 DEF Call
  <2>4. CASE call[q].slot[1] = i
    BY <2>3, <2>4 DEF Filling
  <2>5. CASE call[q].slot[1] # i
    <3>1. call[q].slot[1] \in Ids
      BY DEF Call, Slots
    <3>2. db'[call[q].slot[1]] = db[call[q].slot[1]]
      BY <1>3, <2>5, <3>1 DEF Write
    <3>3. QED
      BY <2>3, <3>2 DEF FreshFill
  <2>6. QED
    BY <2>4, <2>5
<1>4. ASSUME NEW p \in Procs, Fetch(p) PROVE call'[q].raced
  <2>1. CASE q = p
    <3>1. CASE call' = [call EXCEPT ![p] = Idle]
      BY <2>1, <3>1 DEF Idle
    <3>2. CASE call' = [call EXCEPT ![p].pc = "store", ![p].val = db[call[p].slot[1]]]
      <4>1. call'[q].val = db[call[p].slot[1]] /\ call'[q].slot = call[p].slot
        BY <2>1, <3>2 DEF Call
      <4>2. QED
        BY <1>4, <2>1, <4>1 DEF Fetch
    <3>3. QED
      BY <1>4, <3>1, <3>2 DEF Fetch
  <2>2. QED
    BY <1>0, <1>4, <2>1 DEF Fetch
<1>5. ASSUME NEW p \in Procs, Set(p) PROVE call'[q].raced
  BY <1>0, <1>5 DEF Set, Call
<1>6. ASSUME NEW p \in Procs, AddIndex(p) PROVE call'[q].raced
  BY <1>0, <1>6 DEF AddIndex, Idle
<1>7. ASSUME NEW p \in Procs, Snapshot(p) PROVE call'[q].raced
  BY <1>0, <1>7 DEF Snapshot, Call
<1>8. ASSUME NEW p \in Procs, NEW s \in Slots, Delete(p, s) PROVE call'[q].raced
  BY <1>0, <1>8 DEF Delete, Call
<1>9. ASSUME NEW p \in Procs, Evict(p) PROVE call'[q].raced
  BY <1>0, <1>9 DEF Evict, Call
<1>10. ASSUME NEW p \in Procs, Invalidated(p) PROVE call'[q].raced
  BY <1>0, <1>10 DEF Invalidated, Idle
<1>11. CASE \/ CleanerLockIndex \/ CleanerEvict
            \/ \E s \in Slots : Expire(s) \/ CleanerDelete(s)
            \/ \E p \in Procs : LockIndex(p) \/ RLockIndex(p)
  BY <1>0, <1>11 DEF CleanerLockIndex, CleanerEvict, Expire, CleanerDelete, LockIndex, RLockIndex
<1>12. QED
  BY <1>1, <1>2, <1>3, <1>4, <1>5, <1>6, <1>7, <1>8, <1>9, <1>10, <1>11 DEF Next, Step

\* A write makes stale only entries that are listed, or that it excuses because
\* their fill has not listed them yet.
LEMMA StaleStep ==
    TypeOK /\ LockDiscipline /\ IndexCovers /\ FreshFill /\ StaleIndexed /\ [Next]_vars
        => StaleIndexed'
<1> SUFFICES ASSUME TypeOK, LockDiscipline, IndexCovers, FreshFill, StaleIndexed, [Next]_vars,
                    NEW t \in Slots, Stale(t)', ~items'[t].excused
             PROVE  t \in index'
  BY DEF StaleIndexed
<1> USE DEF TypeOK
<1>0. CASE Stale(t) /\ ~items[t].excused /\ (t \in index => t \in index')
  BY <1>0 DEF StaleIndexed
<1>a. t[1] \in Ids
  BY DEF Slots
<1>1. CASE UNCHANGED vars
  BY <1>0, <1>1 DEF vars, Stale
<1>2. CASE \E p \in Procs : (\E s \in Slots : Lookup(p, s)) \/ Fetch(p) \/ Snapshot(p) \/ Invalidated(p)
  BY <1>0, <1>2 DEF Lookup, Fetch, Snapshot, Invalidated, Stale
<1>3. ASSUME NEW p \in Procs, NEW i \in Ids, NEW kind \in WriteKinds, Write(p, i, kind)
      PROVE  t \in index'
  <2>1. /\ items'[t].present = items[t].present /\ items'[t].val = items[t].val
        /\ items'[t].excused = (items[t].excused \/ (items[t].present /\ Overtaken(t, i, kind)))
    BY <1>3, WriteFrame
  <2>2. ~items[t].excused /\ items[t].present /\ ~Overtaken(t, i, kind)
    BY <2>1 DEF Stale, Item
  <2>3. CASE t[1] = i
    <3>1. ~\E q \in Procs : call[q].pc = "index" /\ call[q].slot = t
      BY <2>2, <2>3 DEF Overtaken
    <3>2. QED
      BY <1>3, <2>2, <3>1 DEF IndexCovers, Write
  <2>4. CASE t[1] # i
    <3>1. db'[t[1]] = db[t[1]]
      BY <1>3, <1>a, <2>4, WriteFrame
    <3>2. QED
      BY <1>0, <1>3, <2>1, <2>2, <3>1 DEF Stale, Write
  <2>5. QED
    BY <2>3, <2>4
<1>4. ASSUME NEW p \in Procs, Set(p) PROVE t \in index'
  <2>1. CASE call[p].slot = t
    <3>1. items'[t].val = call[p].val /\ items'[t].excused = call[p].raced /\ UNCHANGED db
      BY <1>4, <2>1 DEF Set
    <3>2. QED
      BY <1>4, <2>1, <3>1 DEF Set, Stale, FreshFill
  <2>2. CASE call[p].slot # t
    BY <1>0, <1>4, <2>2 DEF Set, Stale
  <2>3. QED
    BY <2>1, <2>2
<1>5. ASSUME NEW p \in Procs, AddIndex(p) PROVE t \in index'
  BY <1>0, <1>5 DEF AddIndex, Stale
<1>6. ASSUME NEW p \in Procs, NEW s \in Slots, Delete(p, s) PROVE t \in index'
  <2>1. items'[t] = items[t] \/ items'[t] = NoItem
    BY <1>6 DEF Delete
  <2>2. QED
    BY <1>0, <1>6, <2>1 DEF Delete, Stale, NoItem
<1>7. ASSUME NEW p \in Procs, Evict(p) PROVE t \in index'
  BY <1>0, <1>7 DEF Evict, Stale, LockDiscipline
<1>8. ASSUME NEW s \in Slots, Expire(s) PROVE t \in index'
  <2>1. /\ items'[t].present = items[t].present /\ items'[t].val = items[t].val
        /\ items'[t].excused = items[t].excused
    BY <1>8 DEF Expire, Item
  <2>2. QED
    BY <1>0, <1>8, <2>1 DEF Expire, Stale
<1>9. ASSUME NEW s \in Slots, CleanerDelete(s) PROVE t \in index'
  <2>1. items'[t] = items[t] \/ items'[t] = NoItem
    BY <1>9 DEF CleanerDelete
  <2>2. QED
    BY <1>0, <1>9, <2>1 DEF CleanerDelete, Stale, NoItem
<1>10. CASE CleanerEvict
  BY <1>0, <1>10 DEF CleanerEvict, Stale, LockDiscipline
<1>11. CASE CleanerLockIndex \/ \E p \in Procs : LockIndex(p) \/ RLockIndex(p)
  BY <1>0, <1>11 DEF CleanerLockIndex, LockIndex, RLockIndex, Stale
<1>12. QED
  BY <1>1, <1>2, <1>3, <1>4, <1>5, <1>6, <1>7, <1>8, <1>9, <1>10, <1>11 DEF Next, Step

\* An invalidation copies the index when every stale entry is in it, and gives up
\* a cache key only when it deletes the entry.
LEMMA InvalidationStep ==
    IInv /\ [Next]_vars => InvalidationComplete'
<1> DEFINE Pending(q, t) == /\ call[q].slot[1] = t[1]
                            /\ \/ call[q].pc = "snapshot"
                               \/ call[q].pc \in {"delete", "evict"} /\ t \in call[q].todel
<1> SUFFICES ASSUME IInv, [Next]_vars, NEW t \in Slots, Stale(t)', ~items'[t].excused
             PROVE  \E q \in Procs : Pending(q, t)'
  BY DEF InvalidationComplete
<1>a. TypeOK /\ LockDiscipline /\ FreshFill /\ StaleIndexed /\ InvalidationComplete
  BY DEF IInv
<1> USE <1>a DEF TypeOK, Call
<1>b. t[1] \in Ids
  BY DEF Slots
<1>0. CASE /\ Stale(t) /\ ~items[t].excused
           /\ \A q \in Procs : Pending(q, t) => Pending(q, t)'
  BY <1>0 DEF InvalidationComplete
<1>1. CASE UNCHANGED vars
  BY <1>0, <1>1 DEF vars, Stale
<1>2. CASE \E p \in Procs : (\E s \in Slots : Lookup(p, s)) \/ Fetch(p) \/ AddIndex(p)
  BY <1>0, <1>2 DEF Lookup, Fetch, AddIndex, Stale
<1>3. ASSUME NEW p \in Procs, NEW i \in Ids, NEW kind \in WriteKinds, Write(p, i, kind)
      PROVE  \E q \in Procs : Pending(q, t)'
  <2>1. ~items[t].excused /\ items[t].present /\ ~Overtaken(t, i, kind)
    BY <1>3, WriteFrame DEF Stale, Item
  <2>2. CASE t[1] = i
    <3>1. kind = "single"
      BY <2>1, <2>2 DEF Overtaken
    <3>2. call'[p] = [Idle EXCEPT !.pc = "snapshot", !.slot = CHOOSE s \in Slots : s[1] = i]
      BY <1>3, <3>1 DEF Write
    <3>3. call'[p].pc = "snapshot" /\ call'[p].slot[1] = i
      BY <3>2, SlotOf DEF Idle
    <3>4. QED
      BY <2>2, <3>3
  <2>3. CASE t[1] # i
    <3>1. Stale(t)
      BY <1>3, <1>b, <2>3, WriteFrame DEF Stale
    <3>2. ~Pending(p, t)
      BY <1>3 DEF Write
    <3>3. \A q \in Procs \ {p} : Pending(q, t) => Pending(q, t)'
      BY <1>3, WriteFrame
    <3>4. QED
      BY <1>0, <2>1, <3>1, <3>2, <3>3
  <2>4. QED
    BY <2>2, <2>3
<1>4. ASSUME NEW p \in Procs, Set(p) PROVE \E q \in Procs : Pending(q, t)'
  <2>1. CASE call[p].slot = t
    <3>1. items'[t].val = call[p].val /\ items'[t].excused = call[p].raced /\ UNCHANGED db
      BY <1>4, <2>1 DEF Set
    <3>2. QED
      BY <1>4, <2>1, <3>1 DEF Set, Stale, FreshFill
  <2>2. CASE call[p].slot # t
    BY <1>0, <1>4, <2>2 DEF Set, Stale
  <2>3. QED
    BY <2>1, <2>2
<1>5. ASSUME NEW p \in Procs, Snapshot(p) PROVE \E q \in Procs : Pending(q, t)'
  <2>1. Stale(t) /\ ~items[t].excused
    BY <1>5 DEF Snapshot, Stale
  <2>2. t \in index
    BY <2>1 DEF StaleIndexed
  <2>3. \A q \in Procs \ {p} : call'[q] = call[q]
    BY <1>5 DEF Snapshot
  <2>4. /\ call[p].pc = "snapshot" /\ call'[p].pc = "delete" /\ call'[p].slot = call[p].slot
        /\ call'[p].todel = {s \in index : s[1] = call[p].slot[1]}
    BY <1>5 DEF Snapshot
  <2>5. \A q \in Procs : Pending(q, t) => Pending(q, t)'
    BY <2>2, <2>3, <2>4
  <2>6. QED
    BY <1>0, <2>1, <2>5
<1>6. ASSUME NEW p \in Procs, NEW s \in Slots, Delete(p, s)
      PROVE  \E q \in Procs : Pending(q, t)'
  <2>1. items'[t] = items[t] \/ items'[t] = NoItem
    BY <1>6 DEF Delete
  <2>2. Stale(t) /\ ~items[t].excused /\ items'[t] = items[t]
    BY <1>6, <2>1 DEF Delete, Stale, NoItem
  <2>3. s # t
    BY <1>6, <2>2 DEF Delete, Stale, NoItem
  <2>4. \A q \in Procs \ {p} : call'[q] = call[q]
    BY <1>6 DEF Delete
  <2>5. /\ call[p].pc = "delete" /\ call'[p].pc \in {"delete", "evict"}
        /\ call'[p].slot = call[p].slot /\ call'[p].todel = call[p].todel \ {s}
    <3>1. CASE items[s].present
      BY <1>6, <3>1 DEF Delete
    <3>2. CASE ~items[s].present
      BY <1>6, <3>2 DEF Delete
    <3>3. QED
      BY <3>1, <3>2
  <2>6. \A q \in Procs : Pending(q, t) => Pending(q, t)'
    BY <2>3, <2>4, <2>5
  <2>7. QED
    BY <1>0, <2>2, <2>6
<1>7. ASSUME NEW p \in Procs, Evict(p) \/ Invalidated(p) PROVE \E q \in Procs : Pending(q, t)'
  BY <1>0, <1>7 DEF Evict, Invalidated, Stale
<1>8. ASSUME NEW s \in Slots, Expire(s) PROVE \E q \in Procs : Pending(q, t)'
  <2>1. /\ items'[t].present = items[t].present /\ items'[t].val = items[t].val
        /\ items'[t].excused = items[t].excused
    BY <1>8 DEF Expire, Item
  <2>2. QED
    BY <1>0, <1>8, <2>1 DEF Expire, Stale
<1>9. ASSUME NEW s \in Slots, CleanerDelete(s) PROVE \E q \in Procs : Pending(q, t)'
  <2>1. items'[t] = items[t] \/ items'[t] = NoItem
    BY <1>9 DEF CleanerDelete
  <2>2. QED
    BY <1>0, <1>9, <2>1 DEF CleanerDelete, Stale, NoItem
<1>10. CASE CleanerEvict
  BY <1>0, <1>10 DEF CleanerEvict, Stale
<1>11. CASE CleanerLockIndex \/ \E p \in Procs : LockIndex(p) \/ RLockIndex(p)
  BY <1>0, <1>11 DEF CleanerLockIndex, LockIndex, RLockIndex, Stale
<1>12. QED
  BY <1>1, <1>2, <1>3, <1>4, <1>5, <1>6, <1>7, <1>8, <1>9, <1>10, <1>11 DEF Next, Step

-----------------------------------------------------------------------------

\* The strengthened invariant holds.
THEOREM InductiveInvariant == Spec => []IInv
<1>1. Init => IInv
  <2> SUFFICES ASSUME Init PROVE IInv
    OBVIOUS
  <2>1. TypeOK
    BY IdleType DEF Init, TypeOK, Item, NoItem
  <2>2. (\A s \in Slots : ~items[s].present) /\ (\A p \in Procs : call[p].pc = "idle")
    BY DEF Init, NoItem, Idle
  <2>3. QED
    BY <2>1, <2>2 DEF Init, IInv, IndexLock, LockDiscipline, IndexCovers, FreshFill, StaleIndexed,
                      InvalidationComplete, Stale
<1>2. IInv /\ [Next]_vars => IInv'
  BY TypeStep, IndexLockStep, LockStep, IndexStep, FreshStep, StaleStep, InvalidationStep DEF IInv
<1>3. QED
  BY <1>1, <1>2, PTL DEF Spec

\* The cache lock is held exactly between a deletion and the end of its callback.
THEOREM LockDisciplined == Spec => []LockDiscipline
<1>1. IInv => LockDiscipline
  BY DEF IInv
<1>2. QED
  BY <1>1, InductiveInvariant, PTL

\* No circle of goroutines waits for each other's locks: whoever holds
\* cacheIndexMux waits for nothing, and whoever holds c.mu waits at most for
\* cacheIndexMux.
THEOREM DeadlockFree == Spec => []NoLockCycle
<1>1. ASSUME IInv PROVE NoLockCycle
  <2> SUFFICES ASSUME NEW S \in SUBSET (Procs \cup {Cleaner}), S # {},
                      \A x \in S : \E y \in S : WaitsFor(x, y)
               PROVE  FALSE
    BY DEF NoLockCycle
  <2>1. TypeOK /\ IndexLock /\ LockDiscipline
    BY <1>1 DEF IInv
  <2>2. ASSUME NEW x \in S PROVE x \notin readers \cup {writer}
    <3>1. PICK y \in S : WaitsFor(x, y)
      OBVIOUS
    <3>2. QED
      BY <2>1, <3>1 DEF WaitsFor, IndexLock, TypeOK
  <2>3. ASSUME NEW x \in S PROVE x # mu
    <3>1. PICK y \in S : WaitsFor(x, y)
      OBVIOUS
    <3>2. y \notin readers \cup {writer}
      BY <2>2
    <3>3. QED
      BY <2>1, <3>1, <3>2 DEF WaitsFor, LockDiscipline, TypeOK
  <2>4. PICK x \in S : TRUE
    OBVIOUS
  <2>5. PICK y \in S : WaitsFor(x, y)
    OBVIOUS
  <2>6. QED
    BY <2>2, <2>3, <2>5 DEF WaitsFor
<1>2. QED
  BY <1>1, InductiveInvariant, PTL

\* No cached key escapes the index from which invalidations are made.
THEOREM IndexComplete == Spec => []IndexCovers
<1>1. IInv => IndexCovers
  BY DEF IInv
<1>2. QED
  BY <1>1, InductiveInvariant, PTL

\* When an invalidating write has returned, no key it made stale is still cached,
\* unless the fill of that entry overlapped with a write.
THEOREM InvalidationCompletes == Spec => []InvalidationComplete
<1>1. IInv => InvalidationComplete
  BY DEF IInv
<1>2. QED
  BY <1>1, InductiveInvariant, PTL
=============================================================================
