--------------------------- MODULE KeyStore_proofs ---------------------------
(***************************************************************************)
(* Proofs about KeyStore, for every set of keys and calls and every bound. *)
(*                                                                         *)
(* The difficulty is the rotation query, which numbers the new version     *)
(* after the metadata of the row it replaces, although metadata updates    *)
(* write that number too.  The inductive invariant IInv therefore follows  *)
(* every call from its snapshot to its commit: the row of an untouched     *)
(* snapshot is still in the table, the holder of the advisory lock is      *)
(* alone, a metadata number never exceeds its row's version, and so the    *)
(* only number that passes the primary key is that of the successor of the *)
(* latest version.                                                         *)
(***************************************************************************)
EXTENDS KeyStore, TLAPS

\* The versions of a key are 1..n.
Gapless == \A k \in Keys : \E n \in 0..MaxVersion : Visible(rows[k]) = 1..n

\* The metadata of a row never names a later version than the row's own.
MetadataBehind == \A k \in Keys : \A v \in Visible(rows[k]) : rows[k][v].mv \in 1..v

\* Only calls that have started have left a DEK.
DeksKnown == \A k \in Keys, v \in Versions : rows[k][v].dek <= calls

Rotating(c) == c.pc \in {"begin", "lock", "query", "commit"}

Locked(c) == c.pc \in {"query", "commit"}

\* The DEK of a rotation under way is in no row of its key yet.
DekPending(c) ==
    Rotating(c) => /\ c.dek \in 1..calls
                   /\ \A v \in Visible(rows[c.key]) : rows[c.key][v].dek # c.dek

\* The row a rotation saw is in the table, and unchanged unless it was noticed.
SnapshotKept(c) ==
    c.pc \in {"lock", "query", "commit"} /\ c.base # 0 =>
        /\ Present(rows[c.key], c.base)
        /\ c.touched \/ rows[c.key][c.base] = c.old

\* A rotation that has executed its query will add the successor of the latest
\* version.
ReadyToCommit(c) ==
    c.pc = "commit" => /\ c.base # 0
                       /\ rows[c.key][c.base] = c.old
                       /\ c.old.mv = c.base
                       /\ c.base + 1 \in Versions
                       /\ ~Present(rows[c.key], c.base + 1)

\* A metadata update writes a number that is not ahead of its row.
UpdateBehind(c) ==
    /\ c.pc = "merge" => c.mv # 0 /\ Present(rows[c.key], c.mv)
    /\ c.pc = "update" => /\ c.base # 0 /\ c.mv \in 1..c.base
                          /\ Present(rows[c.key], c.base)

\* A revocation writes rows that exist.
RevokesRows(c) ==
    c.pc = "revoke" => \A kv \in c.seen : Present(rows[kv[1]], kv[2])

CallInv(c) == /\ DekPending(c) /\ SnapshotKept(c) /\ ReadyToCommit(c)
              /\ UpdateBehind(c) /\ RevokesRows(c)

\* The advisory lock excludes: at most one call per key is past it.
Exclusive ==
    \A p, q \in Procs :
        Locked(call[p]) /\ Locked(call[q]) /\ call[p].key = call[q].key => p = q

\* No two rotations share a DEK.
DeksDistinct ==
    \A p, q \in Procs :
        Rotating(call[p]) /\ Rotating(call[q]) /\ call[p].dek = call[q].dek => p = q

TableInv == Gapless /\ MetadataBehind /\ DeksKnown /\ OnlyLatestActive /\ OneVersionPerCall

IInv ==
    /\ TypeOK
    /\ TableInv
    /\ AckedDurable
    /\ \A p \in Procs : CallInv(call[p])
    /\ Exclusive
    /\ DeksDistinct

USE KeyStoreAssumption

-----------------------------------------------------------------------------
(* Operators *)

\* A call that is not running is a call.
LEMMA IdleType == Idle \in Call /\ NoRow \in Row
<1>1. (CHOOSE k \in Keys : TRUE) \in Keys
  OBVIOUS
<1>2. NoRow \in Row
  BY DEF NoRow, Row
<1>3. QED
  BY <1>1, <1>2 DEF Idle, Call

\* SELECT MAX(version) on a key whose versions are 1..n.
LEMMA LatestIs ==
    ASSUME NEW t, NEW n \in 0..MaxVersion, Visible(t) = 1..n
    PROVE  Latest(t) = n
<1>1. CASE n = 0
  BY <1>1 DEF Latest
<1>2. CASE n # 0
  <2>1. n \in Visible(t) /\ \A w \in Visible(t) : w <= n
    BY <1>2
  <2>2. Visible(t) # {} /\ Visible(t) \subseteq Nat
    <3>1. Visible(t) # {}
      BY <2>1
    <3>2. 1..n \subseteq Nat
      OBVIOUS
    <3>3. QED
      BY <3>1, <3>2
  <2>3. \A v \in Visible(t) : (\A w \in Visible(t) : w <= v) => v = n
    BY <2>1, <2>2
  <2>4. QED
    BY <2>1, <2>2, <2>3 DEF Latest
<1>3. QED
  BY <1>1, <1>2

\* What the invariant says of the latest version.
LEMMA LatestFacts ==
    ASSUME Gapless, NEW k \in Keys
    PROVE  /\ Latest(rows[k]) \in 0..MaxVersion
           /\ Visible(rows[k]) = 1..Latest(rows[k])
<1>1. PICK n \in 0..MaxVersion : Visible(rows[k]) = 1..n
  BY DEF Gapless
<1>2. QED
  BY <1>1, LatestIs

-----------------------------------------------------------------------------
(* Steps that write no row *)

\* A step of p that writes no row, takes the advisory lock only if it is free
\* and a DEK only from its own call, preserves the invariant if it leaves p's
\* own call in order.
LEMMA LocalStep ==
    ASSUME IInv, NEW p \in Procs,
           UNCHANGED <<rows, acked>>, calls' \in calls..MaxCalls,
           call' \in [Procs -> Call],
           \A q \in Procs \ {p} : call'[q] = call[q],
           CallInv(call[p])',
           Locked(call'[p]) => \/ Locked(call[p]) /\ call'[p].key = call[p].key
                               \/ ~LockHeld(call'[p].key),
           Rotating(call'[p]) => \/ Rotating(call[p]) /\ call'[p].dek = call[p].dek
                                 \/ call'[p].dek = calls + 1
    PROVE  IInv'
<1>1. TypeOK'
  BY DEF IInv, TypeOK
<1>2. TableInv'
  <2>1. DeksKnown'
    BY DEF IInv, TableInv, DeksKnown, TypeOK, Row
  <2>2. QED
    BY <2>1 DEF IInv, TableInv, Gapless, MetadataBehind, OnlyLatestActive,
                OneVersionPerCall, Visible, Present, Latest
<1>3. AckedDurable'
  BY DEF IInv, AckedDurable, Present
<1>4. ASSUME NEW q \in Procs PROVE CallInv(call[q])'
  <2>1. CASE q = p
    BY <2>1
  <2>2. CASE q # p
    <3>1. CallInv(call[q]) /\ call'[q] = call[q]
      BY <2>2 DEF IInv
    <3>2. DekPending(call[q])'
      BY <3>1 DEF CallInv, DekPending, Rotating, Visible, Present, IInv, TypeOK
    <3>3. QED
      BY <3>1, <3>2 DEF CallInv, SnapshotKept, ReadyToCommit, UpdateBehind, RevokesRows,
                        Present
  <2>3. QED
    BY <2>1, <2>2
<1>5. Exclusive'
  BY DEF IInv, Exclusive, Locked, LockHeld
<1>6. DeksDistinct'
  <2>1. \A q \in Procs : Rotating(call[q]) => call[q].dek \in 1..calls
    BY DEF IInv, CallInv, DekPending
  <2>2. QED
    BY <2>1 DEF IInv, DeksDistinct, Rotating, TypeOK
<1>7. QED
  BY <1>1, <1>2, <1>3, <1>4, <1>5, <1>6 DEF IInv

\* A call that ends without writing.
LEMMA EndStep ==
    ASSUME IInv, NEW p \in Procs, call' = [call EXCEPT ![p] = Idle],
           UNCHANGED <<rows, calls, acked>>
    PROVE  IInv'
<1>1. call' \in [Procs -> Call] /\ call'[p] = Idle
  BY IdleType DEF IInv, TypeOK
<1>2. ~Locked(call'[p]) /\ ~Rotating(call'[p]) /\ CallInv(call[p])'
  BY <1>1 DEF Idle, Locked, Rotating, CallInv, DekPending, SnapshotKept, ReadyToCommit,
              UpdateBehind, RevokesRows
<1>3. calls' \in calls..MaxCalls
  BY DEF IInv, TypeOK
<1>4. \A q \in Procs \ {p} : call'[q] = call[q]
  BY DEF IInv, TypeOK
<1>5. QED
  BY <1>1, <1>2, <1>3, <1>4, LocalStep

\* A rotation starts with a DEK that no row and no other call has.
LEMMA RotateGetKeyStep ==
    ASSUME IInv, NEW p \in Procs, NEW k \in Keys, RotateGetKey(p, k)
    PROVE  IInv'
<1> DEFINE d == [Idle EXCEPT !.pc = "begin", !.key = k, !.dek = calls + 1]
<1>1. calls + 1 \in 0..MaxCalls /\ calls' = calls + 1 /\ call' = [call EXCEPT ![p] = d]
  BY DEF RotateGetKey, IInv, TypeOK
<1>2. d \in Call
  BY <1>1, IdleType DEF Call
<1>3. d.pc = "begin" /\ d.key = k /\ d.dek = calls + 1
  BY DEF Idle
<1> HIDE DEF d
<1>4. call' \in [Procs -> Call] /\ call'[p] = d /\ \A q \in Procs \ {p} : call'[q] = call[q]
  BY <1>1, <1>2 DEF IInv, TypeOK
<1>5. DekPending(call[p])'
  <2>1. \A v \in Versions : rows[k][v].dek <= calls
    BY DEF IInv, TableInv, DeksKnown
  <2>2. \A v \in Versions : rows[k][v].dek \in 0..MaxCalls
    BY DEF IInv, TypeOK, Row
  <2>3. QED
    BY <2>1, <2>2, <1>1, <1>3, <1>4 DEF DekPending, Visible, RotateGetKey, IInv, TypeOK
<1>6. CallInv(call[p])'
  BY <1>3, <1>4, <1>5 DEF CallInv, SnapshotKept, ReadyToCommit, UpdateBehind, RevokesRows
<1>7. ~Locked(call'[p])
  BY <1>3, <1>4 DEF Locked
<1>8. calls' \in calls..MaxCalls
  BY <1>1 DEF IInv, TypeOK
<1>9. UNCHANGED <<rows, acked>>
  BY DEF RotateGetKey
<1>10. QED
  BY <1>3, <1>4, <1>6, <1>7, <1>8, <1>9, LocalStep

\* The first statement of a transaction takes the snapshot of the table as it is.
LEMMA RotateBeginStep ==
    ASSUME IInv, NEW p \in Procs, RotateBegin(p)
    PROVE  IInv'
<1> DEFINE c == call[p]
           n == Latest(rows[c.key])
           o == IF n = 0 THEN NoRow ELSE rows[c.key][n]
           d == [c EXCEPT !.pc = "lock", !.base = n, !.old = o, !.touched = FALSE]
<1>1. c \in Call /\ c.key \in Keys /\ c.pc = "begin"
  BY DEF IInv, TypeOK, Call, RotateBegin
<1>2. n \in 0..MaxVersion /\ Visible(rows[c.key]) = 1..n
  BY <1>1, LatestFacts DEF IInv, TableInv
<1>3. o \in Row
  BY <1>1, <1>2, IdleType DEF IInv, TypeOK, Versions
<1>4. n # 0 => Present(rows[c.key], n) /\ rows[c.key][n] = o
  BY <1>2 DEF Visible
<1>5. call' = [call EXCEPT ![p] = d]
  BY DEF RotateBegin, IInv, TypeOK
<1>6. CallInv(c)
  BY DEF IInv
<1> HIDE DEF n, o
<1>7. d \in Call
  BY <1>1, <1>2, <1>3 DEF Call
<1>8. /\ d.pc = "lock" /\ d.key = c.key /\ d.base = n /\ d.old = o /\ d.dek = c.dek
  BY <1>1 DEF Call
<1> HIDE DEF d
<1>9. call' \in [Procs -> Call] /\ call'[p] = d /\ \A q \in Procs \ {p} : call'[q] = call[q]
  BY <1>5, <1>7 DEF IInv, TypeOK
<1>10. UNCHANGED <<rows, acked, calls>> /\ calls' \in calls..MaxCalls
  BY DEF RotateBegin, IInv, TypeOK
<1>11. CallInv(call[p])'
  <2>1. DekPending(call[p])'
    BY <1>1, <1>6, <1>8, <1>9, <1>10 DEF CallInv, DekPending, Rotating, Visible, Present
  <2>2. SnapshotKept(call[p])'
    BY <1>4, <1>8, <1>9, <1>10 DEF SnapshotKept, Present
  <2>3. QED
    BY <2>1, <2>2, <1>8, <1>9 DEF CallInv, ReadyToCommit, UpdateBehind, RevokesRows
<1>12. ~Locked(call'[p]) /\ Rotating(call[p]) /\ call'[p].dek = call[p].dek
  BY <1>1, <1>8, <1>9 DEF Locked, Rotating
<1>13. QED
  BY <1>9, <1>10, <1>11, <1>12, LocalStep

\* pg_try_advisory_xact_lock succeeds only if nobody holds the lock of the key.
LEMMA RotateLockStep ==
    ASSUME IInv, NEW p \in Procs, RotateLock(p)
    PROVE  IInv'
<1> DEFINE c == call[p]
           d == [c EXCEPT !.pc = "query"]
<1>1. CASE LockHeld(c.key)
  BY <1>1, EndStep DEF RotateLock, IInv, TypeOK
<1>2. CASE ~LockHeld(c.key)
  <2>1. c \in Call /\ c.pc = "lock" /\ CallInv(c)
    BY DEF IInv, TypeOK, RotateLock
  <2>2. call' = [call EXCEPT ![p] = d]
    BY <1>2 DEF RotateLock, IInv, TypeOK
  <2>3. /\ d \in Call /\ d.pc = "query" /\ d.key = c.key /\ d.base = c.base
        /\ d.old = c.old /\ d.touched = c.touched /\ d.dek = c.dek
    BY <2>1 DEF Call
  <2> HIDE DEF d
  <2>4. call' \in [Procs -> Call] /\ call'[p] = d /\ \A q \in Procs \ {p} : call'[q] = call[q]
    BY <2>2, <2>3 DEF IInv, TypeOK
  <2>5. UNCHANGED <<rows, acked, calls>> /\ calls' \in calls..MaxCalls
    BY DEF RotateLock, IInv, TypeOK
  <2>6. CallInv(call[p])'
    <3>1. DekPending(call[p])'
      BY <2>1, <2>3, <2>4, <2>5 DEF CallInv, DekPending, Rotating, Visible, Present
    <3>2. SnapshotKept(call[p])'
      BY <2>1, <2>3, <2>4, <2>5 DEF CallInv, SnapshotKept, Present
    <3>3. QED
      BY <3>1, <3>2, <2>3, <2>4 DEF CallInv, ReadyToCommit, UpdateBehind, RevokesRows
  <2>7. ~LockHeld(call'[p].key) /\ Rotating(call[p]) /\ call'[p].dek = call[p].dek
    BY <1>2, <2>1, <2>3, <2>4 DEF Rotating
  <2>8. QED
    BY <2>4, <2>5, <2>6, <2>7, LocalStep
<1>3. QED
  BY <1>1, <1>2

\* The rotation query.  The row it replaces is the one its snapshot saw; all the
\* versions up to it exist and its metadata names one of them, so a new version
\* that is not in the table yet is its successor.
LEMMA RotateQueryStep ==
    ASSUME IInv, NEW p \in Procs, RotateQuery(p)
    PROVE  IInv'
<1> DEFINE c == call[p]
           d == [c EXCEPT !.pc = "commit"]
<1>1. /\ c \in Call /\ c.key \in Keys /\ c.base \in 0..MaxVersion
      /\ c.pc = "query" /\ ~c.touched /\ CallInv(c)
  BY DEF IInv, TypeOK, RotateQuery, Call
<1>2. UNCHANGED <<rows, acked, calls>> /\ calls' \in calls..MaxCalls
  BY DEF RotateQuery, IInv, TypeOK
<1>3. CASE call' = [call EXCEPT ![p] = Idle]
  BY <1>2, <1>3, EndStep
<1>4. CASE /\ c.base # 0 /\ NewVersion(c) \in Versions
           /\ ~Present(rows[c.key], NewVersion(c))
           /\ call' = [call EXCEPT ![p] = d]
  <2>1. Present(rows[c.key], c.base) /\ rows[c.key][c.base] = c.old
    BY <1>1, <1>4 DEF CallInv, SnapshotKept
  <2>2. c.base \in Visible(rows[c.key])
    BY <1>1, <1>4, <2>1 DEF Visible, Versions
  <2>3. c.old.mv \in 1..c.base
    BY <1>1, <2>1, <2>2 DEF IInv, TableInv, MetadataBehind
  <2>4. NewVersion(c) = c.old.mv + 1
    BY <2>1 DEF NewVersion
  <2>5. PICK n \in 0..MaxVersion : Visible(rows[c.key]) = 1..n
    BY <1>1 DEF IInv, TableInv, Gapless
  <2>6. c.old.mv = c.base
    <3>1. NewVersion(c) \notin 1..n
      BY <1>4, <2>5 DEF Visible
    <3>2. c.base \in 1..n
      BY <2>2, <2>5
    <3>3. QED
      BY <2>3, <2>4, <3>1, <3>2
  <2>7. /\ d \in Call /\ d.pc = "commit" /\ d.key = c.key /\ d.base = c.base
        /\ d.old = c.old /\ d.touched = c.touched /\ d.dek = c.dek
    BY <1>1 DEF Call
  <2> HIDE DEF d
  <2>8. call' \in [Procs -> Call] /\ call'[p] = d /\ \A q \in Procs \ {p} : call'[q] = call[q]
    BY <1>4, <2>7 DEF IInv, TypeOK
  <2>9. CallInv(call[p])'
    <3>1. DekPending(call[p])'
      BY <1>1, <1>2, <2>7, <2>8 DEF CallInv, DekPending, Rotating, Visible, Present
    <3>2. SnapshotKept(call[p])'
      BY <2>1, <1>2, <2>7, <2>8 DEF SnapshotKept, Present
    <3>3. ReadyToCommit(call[p])'
      BY <1>2, <1>4, <2>1, <2>4, <2>6, <2>7, <2>8 DEF ReadyToCommit, Present
    <3>4. QED
      BY <3>1, <3>2, <3>3, <2>7, <2>8 DEF CallInv, UpdateBehind, RevokesRows
  <2>10. /\ Locked(call[p]) /\ call'[p].key = call[p].key
         /\ Rotating(call[p]) /\ call'[p].dek = call[p].dek
    BY <1>1, <2>7, <2>8 DEF Locked, Rotating
  <2>11. QED
    BY <1>2, <2>8, <2>9, <2>10, LocalStep
<1>5. QED
  BY <1>3, <1>4 DEF RotateQuery

\* A retry keeps the DEK of the call and gives up the lock and the snapshot.
LEMMA RetryStep ==
    ASSUME IInv, NEW p \in Procs, Retry(p)
    PROVE  IInv'
<1> DEFINE c == call[p]
           d == [c EXCEPT !.pc = "begin", !.tries = c.tries + 1]
<1>1. c \in Call /\ Rotating(c) /\ CallInv(c)
  BY DEF IInv, TypeOK, Retry, Rotating
<1>2. UNCHANGED <<rows, acked, calls>> /\ calls' \in calls..MaxCalls
  BY DEF Retry, IInv, TypeOK
<1>3. CASE call' = [call EXCEPT ![p] = Idle]
  BY <1>2, <1>3, EndStep
<1>4. CASE c.tries + 1 < MaxRetries /\ call' = [call EXCEPT ![p] = d]
  <2>1. c.tries + 1 \in 0..(MaxRetries - 1)
    BY <1>1, <1>4 DEF Call
  <2>2. d \in Call /\ d.pc = "begin" /\ d.key = c.key /\ d.dek = c.dek
    BY <1>1, <2>1 DEF Call
  <2> HIDE DEF d
  <2>3. call' \in [Procs -> Call] /\ call'[p] = d /\ \A q \in Procs \ {p} : call'[q] = call[q]
    BY <1>4, <2>2 DEF IInv, TypeOK
  <2>4. CallInv(call[p])'
    <3>1. DekPending(call[p])'
      BY <1>1, <1>2, <2>2, <2>3 DEF CallInv, DekPending, Visible, Present
    <3>2. QED
      BY <3>1, <2>2, <2>3 DEF CallInv, SnapshotKept, ReadyToCommit, UpdateBehind, RevokesRows
  <2>5. ~Locked(call'[p]) /\ call'[p].dek = call[p].dek
    BY <2>2, <2>3 DEF Locked
  <2>6. QED
    BY <1>1, <1>2, <2>3, <2>4, <2>5, LocalStep
<1>5. QED
  BY <1>3, <1>4 DEF Retry, IInv, TypeOK

\* A revocation chooses rows that exist.
LEMMA RevokeStartStep ==
    ASSUME IInv, NEW p \in Procs, NEW S \in SUBSET Keys, RevokeStart(p, S)
    PROVE  IInv'
<1> DEFINE chosen == {kv \in S \X Versions : Present(rows[kv[1]], kv[2])}
           d == [Idle EXCEPT !.pc = "revoke", !.seen = chosen]
<1>1. call' = [call EXCEPT ![p] = d]
  BY DEF RevokeStart
<1>2. UNCHANGED <<rows, acked, calls>> /\ calls' \in calls..MaxCalls
  BY DEF RevokeStart, IInv, TypeOK
<1>3. chosen \in SUBSET (Keys \X Versions)
  OBVIOUS
<1>4. \A kv \in chosen : Present(rows[kv[1]], kv[2])
  OBVIOUS
<1> HIDE DEF chosen
<1>5. d \in Call /\ d.pc = "revoke" /\ d.seen = chosen
  BY <1>3, IdleType DEF Call
<1> HIDE DEF d
<1>6. call' \in [Procs -> Call] /\ call'[p] = d /\ \A q \in Procs \ {p} : call'[q] = call[q]
  BY <1>1, <1>5 DEF IInv, TypeOK
<1>7. CallInv(call[p])'
  BY <1>2, <1>4, <1>5, <1>6 DEF CallInv, DekPending, Rotating, SnapshotKept, ReadyToCommit,
                                UpdateBehind, RevokesRows, Present
<1>8. ~Locked(call'[p]) /\ ~Rotating(call'[p])
  BY <1>5, <1>6 DEF Locked, Rotating
<1>9. QED
  BY <1>2, <1>6, <1>7, <1>8, LocalStep

\* UpdateKeyMetadata reads a metadata number of a version that exists.
LEMMA UpdateGetKeyStep ==
    ASSUME IInv, NEW p \in Procs, NEW k \in Keys, UpdateGetKey(p, k)
    PROVE  IInv'
<1> DEFINE n == Latest(rows[k])
           m == rows[k][n].mv
           d == [Idle EXCEPT !.pc = "merge", !.key = k, !.mv = m]
<1>1. call' = [call EXCEPT ![p] = d] /\ n # 0
  BY DEF UpdateGetKey
<1>2. UNCHANGED <<rows, acked, calls>> /\ calls' \in calls..MaxCalls
  BY DEF UpdateGetKey, IInv, TypeOK
<1>3. n \in 0..MaxVersion /\ Visible(rows[k]) = 1..n
  BY LatestFacts DEF IInv, TableInv
<1>4. m \in 1..n
  BY <1>1, <1>3 DEF IInv, TableInv, MetadataBehind
<1>5. m \in 0..MaxVersion /\ m # 0 /\ Present(rows[k], m)
  BY <1>3, <1>4 DEF Visible
<1> HIDE DEF n, m
<1>6. d \in Call /\ d.pc = "merge" /\ d.key = k /\ d.mv = m
  BY <1>5, IdleType DEF Call
<1> HIDE DEF d
<1>7. call' \in [Procs -> Call] /\ call'[p] = d /\ \A q \in Procs \ {p} : call'[q] = call[q]
  BY <1>1, <1>6 DEF IInv, TypeOK
<1>8. CallInv(call[p])'
  BY <1>2, <1>5, <1>6, <1>7 DEF CallInv, DekPending, Rotating, SnapshotKept, ReadyToCommit,
                                UpdateBehind, RevokesRows, Present
<1>9. ~Locked(call'[p]) /\ ~Rotating(call'[p])
  BY <1>6, <1>7 DEF Locked, Rotating
<1>10. QED
  BY <1>2, <1>7, <1>8, <1>9, LocalStep

\* The statement targets the latest version, which is not before the one whose
\* number it carries.
LEMMA UpdateStartStep ==
    ASSUME IInv, NEW p \in Procs, UpdateStart(p)
    PROVE  IInv'
<1> DEFINE c == call[p]
           n == Latest(rows[c.key])
           d == [c EXCEPT !.pc = "update", !.base = n]
<1>1. /\ c \in Call /\ c.key \in Keys /\ c.mv \in 0..MaxVersion
      /\ c.pc = "merge" /\ CallInv(c)
  BY DEF IInv, TypeOK, UpdateStart, Call
<1>2. call' = [call EXCEPT ![p] = d]
  BY DEF UpdateStart, IInv, TypeOK
<1>3. UNCHANGED <<rows, acked, calls>> /\ calls' \in calls..MaxCalls
  BY DEF UpdateStart, IInv, TypeOK
<1>4. n \in 0..MaxVersion /\ Visible(rows[c.key]) = 1..n
  BY <1>1, LatestFacts DEF IInv, TableInv
<1>5. c.mv \in Visible(rows[c.key])
  BY <1>1 DEF CallInv, UpdateBehind, Visible, Versions
<1>6. c.mv \in 1..n /\ n # 0 /\ Present(rows[c.key], n)
  BY <1>4, <1>5 DEF Visible
<1> HIDE DEF n
<1>7. d \in Call /\ d.pc = "update" /\ d.key = c.key /\ d.base = n /\ d.mv = c.mv
  BY <1>1, <1>4 DEF Call
<1> HIDE DEF d
<1>8. call' \in [Procs -> Call] /\ call'[p] = d /\ \A q \in Procs \ {p} : call'[q] = call[q]
  BY <1>2, <1>7 DEF IInv, TypeOK
<1>9. CallInv(call[p])'
  BY <1>3, <1>6, <1>7, <1>8 DEF CallInv, DekPending, Rotating, SnapshotKept, ReadyToCommit,
                                UpdateBehind, RevokesRows, Present
<1>10. ~Locked(call'[p]) /\ ~Rotating(call'[p])
  BY <1>7, <1>8 DEF Locked, Rotating
<1>11. QED
  BY <1>3, <1>8, <1>9, <1>10, LocalStep

-----------------------------------------------------------------------------
(* Steps that write rows *)

\* What a call notices of the rows W that another one writes.
LEMMA TouchFacts ==
    ASSUME NEW c \in Call, NEW W
    PROVE  LET d == Touch(c, W) IN
           /\ d \in Call
           /\ d.pc = c.pc /\ d.key = c.key /\ d.dek = c.dek /\ d.base = c.base
           /\ d.old = c.old /\ d.mv = c.mv /\ d.seen = c.seen
           /\ c.pc \in {"lock", "query", "commit"} /\ <<c.key, c.base>> \in W => d.touched
           /\ ~d.touched => ~c.touched
<1>1. CASE Touch(c, W) = c /\ ~(c.pc \in {"lock", "query", "commit"} /\ <<c.key, c.base>> \in W)
  BY <1>1
<1>2. CASE Touch(c, W) = [c EXCEPT !.touched = TRUE]
  BY <1>2 DEF Call
<1>3. QED
  BY <1>1, <1>2 DEF Touch

\* What the end of p's call does to the calls.
LEMMA FinishFacts ==
    ASSUME IInv, NEW p \in Procs, NEW W, Finish(p, W)
    PROVE  /\ call' \in [Procs -> Call]
           /\ call'[p] = Idle
           /\ \A q \in Procs \ {p} : call'[q] = Touch(call[q], W)
           /\ \A q \in Procs : /\ Rotating(call'[q]) => q # p /\ Rotating(call[q])
                               /\ Locked(call'[q]) => q # p /\ Locked(call[q])
           /\ CallInv(call[p])'
           /\ Exclusive'
           /\ DeksDistinct'
<1>1. \A q \in Procs : call[q] \in Call
  BY DEF IInv, TypeOK
<1>2. call'[p] = Idle /\ \A q \in Procs \ {p} : call'[q] = Touch(call[q], W)
  BY DEF Finish
<1>3. call' \in [Procs -> Call]
  <2>1. \A q \in Procs : (IF q = p THEN Idle ELSE Touch(call[q], W)) \in Call
    BY <1>1, IdleType, TouchFacts
  <2>2. QED
    BY <2>1 DEF Finish
<1>4. \A q \in Procs \ {p} : /\ call'[q].pc = call[q].pc /\ call'[q].key = call[q].key
                             /\ call'[q].dek = call[q].dek
  <2> TAKE q \in Procs \ {p}
  <2> DEFINE d == Touch(call[q], W)
  <2>1. call[q] \in Call /\ call'[q] = d
    BY <1>1, <1>2
  <2>2. d.pc = call[q].pc /\ d.key = call[q].key /\ d.dek = call[q].dek
    BY <2>1, TouchFacts
  <2> HIDE DEF d
  <2>3. QED
    BY <2>1, <2>2
<1>5. ~Rotating(call'[p]) /\ ~Locked(call'[p])
  BY <1>2 DEF Rotating, Locked, Idle
<1>6. CallInv(call[p])'
  BY <1>2 DEF Idle, CallInv, DekPending, Rotating, SnapshotKept, ReadyToCommit, UpdateBehind,
              RevokesRows
<1>7. \A q \in Procs : /\ Rotating(call'[q]) => q # p /\ Rotating(call[q])
                       /\ Locked(call'[q]) => q # p /\ Locked(call[q])
  BY <1>4, <1>5 DEF Rotating, Locked
<1>8. Exclusive'
  BY <1>4, <1>7 DEF IInv, Exclusive
<1>9. DeksDistinct'
  BY <1>4, <1>7 DEF IInv, DeksDistinct
<1>10. QED
  BY <1>2, <1>3, <1>6, <1>7, <1>8, <1>9

\* An UPDATE outside a rotation: it writes rows that exist and that no open
\* rotation has locked, keeps their DEKs, activates none and leaves no metadata
\* number ahead of its row.
LEMMA RewriteStep ==
    ASSUME IInv, NEW p \in Procs, NEW W, Finish(p, W), UNCHANGED <<calls, acked>>,
           rows' \in [Keys -> [Versions -> Row]],
           \A k \in Keys, v \in Versions :
              /\ Present(rows'[k], v) <=> Present(rows[k], v)
              /\ rows'[k][v].dek = rows[k][v].dek
              /\ rows'[k][v].status = "active" => rows[k][v].status = "active"
              /\ Present(rows[k], v) => rows'[k][v].mv \in 1..v
              /\ <<k, v>> \notin W => rows'[k][v] = rows[k][v]
              /\ <<k, v>> \in W => ~RowLocked(k, v)
    PROVE  IInv'
<1>1. \A k \in Keys : Visible(rows'[k]) = Visible(rows[k])
  BY DEF Visible
<1>2. \A k \in Keys : Latest(rows'[k]) = Latest(rows[k])
  <2> TAKE k \in Keys
  <2>1. PICK n \in 0..MaxVersion : Visible(rows[k]) = 1..n
    BY DEF IInv, TableInv, Gapless
  <2>2. QED
    BY <1>1, <2>1, LatestIs
<1>3. TypeOK'
  BY FinishFacts DEF IInv, TypeOK
<1>4. TableInv'
  <2>1. Gapless' /\ DeksKnown'
    BY <1>1 DEF IInv, TableInv, Gapless, DeksKnown
  <2>2. MetadataBehind'
    BY <1>1 DEF MetadataBehind, Visible
  <2>3. OnlyLatestActive'
    BY <1>2 DEF IInv, TableInv, OnlyLatestActive
  <2>4. OneVersionPerCall'
    <3> SUFFICES ASSUME NEW k \in Keys, NEW v \in Visible(rows'[k]), NEW w \in Visible(rows'[k]),
                        rows'[k][v].dek = rows'[k][w].dek
                 PROVE  v = w
      BY DEF OneVersionPerCall
    <3>1. v \in Visible(rows[k]) /\ w \in Visible(rows[k]) /\ v \in Versions /\ w \in Versions
      BY <1>1 DEF Visible
    <3>2. rows[k][v].dek = rows[k][w].dek
      BY <3>1
    <3>3. QED
      BY <3>1, <3>2 DEF IInv, TableInv, OneVersionPerCall
  <2>5. QED
    BY <2>1, <2>2, <2>3, <2>4 DEF TableInv
<1>5. AckedDurable'
  BY DEF IInv, AckedDurable, TypeOK, Ack, Present
<1>6. ASSUME NEW q \in Procs \ {p} PROVE CallInv(call[q])'
  <2> DEFINE c == call[q]
             d == Touch(c, W)
  <2>1. /\ c \in Call /\ c.key \in Keys /\ c.base \in 0..MaxVersion /\ c.mv \in 0..MaxVersion
        /\ c.seen \subseteq Keys \X Versions /\ CallInv(c)
    BY DEF IInv, TypeOK, Call
  <2>2. /\ d.pc = c.pc /\ d.key = c.key /\ d.dek = c.dek /\ d.base = c.base
        /\ d.old = c.old /\ d.mv = c.mv /\ d.seen = c.seen
        /\ c.pc \in {"lock", "query", "commit"} /\ <<c.key, c.base>> \in W => d.touched
        /\ ~d.touched => ~c.touched
    BY <2>1, TouchFacts
  <2>3. call'[q] = d
    BY FinishFacts
  <2> HIDE DEF d
  <2>4. DekPending(call[q])'
    <3>1. \A v \in Visible(rows'[c.key]) : rows'[c.key][v].dek = rows[c.key][v].dek
      BY <2>1 DEF Visible
    <3>2. QED
      BY <1>1, <2>1, <2>2, <2>3, <3>1 DEF CallInv, DekPending, Rotating
  <2>5. SnapshotKept(call[q])'
    BY <2>1, <2>2, <2>3 DEF CallInv, SnapshotKept, Versions, Present
  <2>6. ReadyToCommit(call[q])'
    <3>1. c.pc = "commit" => RowLocked(c.key, c.base)
      BY DEF RowLocked
    <3>2. SUFFICES ASSUME c.pc = "commit"
                   PROVE  /\ c.base # 0 /\ rows'[c.key][c.base] = c.old /\ c.old.mv = c.base
                          /\ c.base + 1 \in Versions /\ ~Present(rows'[c.key], c.base + 1)
      BY <2>2, <2>3 DEF ReadyToCommit
    <3>3. ReadyToCommit(c) /\ RowLocked(c.key, c.base)
      BY <2>1, <3>1, <3>2 DEF CallInv
    <3>4. c.base \in Versions /\ <<c.key, c.base>> \notin W
      BY <2>1, <3>2, <3>3 DEF ReadyToCommit, Versions
    <3>5. QED
      BY <2>1, <3>2, <3>3, <3>4 DEF ReadyToCommit
  <2>7. UpdateBehind(call[q])'
    <3>1. \A v \in Versions : Present(rows[c.key], v) => Present(rows'[c.key], v)
      BY <2>1
    <3>2. UpdateBehind(c)
      BY <2>1 DEF CallInv
    <3>3. QED
      BY <2>1, <2>2, <2>3, <3>1, <3>2 DEF UpdateBehind, Versions
  <2>8. RevokesRows(call[q])'
    BY <2>1, <2>2, <2>3 DEF CallInv, RevokesRows, Present
  <2>9. QED
    BY <2>4, <2>5, <2>6, <2>7, <2>8 DEF CallInv
<1>7. CallInv(call[p])' /\ Exclusive' /\ DeksDistinct'
  BY FinishFacts
<1>8. QED
  BY <1>3, <1>4, <1>5, <1>6, <1>7 DEF IInv

\* The revocation statement is such an UPDATE.
LEMMA RevokeApplyStep ==
    ASSUME IInv, NEW p \in Procs, RevokeApply(p)
    PROVE  IInv'
<1> DEFINE c == call[p]
<1>1. c \in Call /\ c.seen \subseteq Keys \X Versions /\ RevokesRows(c) /\ c.pc = "revoke"
  BY DEF IInv, TypeOK, RevokeApply, Call, CallInv
<1>2. Finish(p, c.seen) /\ UNCHANGED <<calls, acked>>
  BY DEF RevokeApply
<1>3. \A k \in Keys, v \in Versions :
        rows'[k][v] = IF <<k, v>> \in c.seen THEN RevokedRow(rows[k][v]) ELSE rows[k][v]
  BY DEF RevokeApply
<1>4. \A k \in Keys, v \in Versions : rows[k][v] \in Row
  BY DEF IInv, TypeOK
<1>5. \A r \in Row : /\ RevokedRow(r) \in Row /\ RevokedRow(r).status = "revoked"
                     /\ RevokedRow(r).mv = r.mv /\ RevokedRow(r).dek = r.dek
  BY DEF RevokedRow, Row, Statuses
<1>6. rows' \in [Keys -> [Versions -> Row]]
  <2>1. \A k \in Keys, v \in Versions :
          (IF <<k, v>> \in c.seen THEN RevokedRow(rows[k][v]) ELSE rows[k][v]) \in Row
    BY <1>4, <1>5
  <2>2. QED
    BY <2>1 DEF RevokeApply
<1>7. ASSUME NEW k \in Keys, NEW v \in Versions
      PROVE  /\ Present(rows'[k], v) <=> Present(rows[k], v)
             /\ rows'[k][v].dek = rows[k][v].dek
             /\ rows'[k][v].status = "active" => rows[k][v].status = "active"
             /\ Present(rows[k], v) => rows'[k][v].mv \in 1..v
             /\ <<k, v>> \notin c.seen => rows'[k][v] = rows[k][v]
             /\ <<k, v>> \in c.seen => ~RowLocked(k, v)
  <2>1. Present(rows[k], v) => rows[k][v].mv \in 1..v
    BY DEF IInv, TableInv, MetadataBehind, Visible
  <2>2. CASE <<k, v>> \in c.seen
    <3>1. Present(rows[k], v)
      BY <1>1, <2>2 DEF RevokesRows
    <3>2. rows'[k][v] = RevokedRow(rows[k][v])
      BY <1>3, <2>2
    <3>3. ~RowLocked(k, v)
      BY <2>2 DEF RevokeApply
    <3>4. QED
      BY <1>4, <1>5, <2>1, <2>2, <3>1, <3>2, <3>3 DEF Present
  <2>3. CASE <<k, v>> \notin c.seen
    <3>1. rows'[k][v] = rows[k][v]
      BY <1>3, <2>3
    <3>2. QED
      BY <2>1, <2>3, <3>1 DEF Present
  <2>4. QED
    BY <2>2, <2>3
<1>8. QED
  BY <1>2, <1>6, <1>7, RewriteStep

\* So is the metadata update.
LEMMA UpdateApplyStep ==
    ASSUME IInv, NEW p \in Procs, UpdateApply(p)
    PROVE  IInv'
<1> DEFINE c == call[p]
           W == {<<c.key, c.base>>}
<1>1. /\ c \in Call /\ c.key \in Keys /\ c.base \in Versions /\ c.mv \in 1..c.base
      /\ c.mv \in 0..MaxVersion /\ Present(rows[c.key], c.base)
  <2>1. c \in Call /\ CallInv(c) /\ c.pc = "update"
    BY DEF IInv, TypeOK, UpdateApply
  <2>2. c.key \in Keys /\ c.base \in 0..MaxVersion /\ c.mv \in 0..MaxVersion
    BY <2>1 DEF Call
  <2>3. QED
    BY <2>1, <2>2 DEF CallInv, UpdateBehind, Versions
<1>2. Finish(p, W) /\ UNCHANGED <<calls, acked>> /\ ~RowLocked(c.key, c.base)
  BY DEF UpdateApply
<1> DEFINE r == rows[c.key][c.base]
           s == [r EXCEPT !.mv = c.mv]
<1>3. rows' = [rows EXCEPT ![c.key] = [rows[c.key] EXCEPT ![c.base] = s]]
  BY DEF UpdateApply
<1>4. r \in Row /\ rows \in [Keys -> [Versions -> Row]]
  BY <1>1 DEF IInv, TypeOK
<1>5. s \in Row /\ s.status = r.status /\ s.dek = r.dek /\ s.mv = c.mv
  BY <1>1, <1>4 DEF Row
<1> HIDE DEF s
<1>6. rows' \in [Keys -> [Versions -> Row]]
  BY <1>1, <1>3, <1>4, <1>5
<1>7. ASSUME NEW k \in Keys, NEW v \in Versions
      PROVE  /\ Present(rows'[k], v) <=> Present(rows[k], v)
             /\ rows'[k][v].dek = rows[k][v].dek
             /\ rows'[k][v].status = "active" => rows[k][v].status = "active"
             /\ Present(rows[k], v) => rows'[k][v].mv \in 1..v
             /\ <<k, v>> \notin W => rows'[k][v] = rows[k][v]
             /\ <<k, v>> \in W => ~RowLocked(k, v)
  <2>1. Present(rows[k], v) => rows[k][v].mv \in 1..v
    BY DEF IInv, TableInv, MetadataBehind, Visible
  <2>2. CASE k = c.key /\ v = c.base
    <3>1. rows'[k][v] = s /\ rows[k][v] = r
      BY <1>1, <1>3, <1>4, <2>2
    <3>2. <<k, v>> \in W /\ ~RowLocked(k, v)
      BY <1>2, <2>2
    <3>3. QED
      BY <1>1, <1>5, <2>2, <3>1, <3>2 DEF Present
  <2>3. CASE ~(k = c.key /\ v = c.base)
    <3>1. rows'[k][v] = rows[k][v]
      BY <1>1, <1>3, <1>4, <2>3
    <3>2. <<k, v>> \notin W
      BY <2>3
    <3>3. QED
      BY <2>1, <3>1, <3>2 DEF Present
  <2>4. QED
    BY <2>2, <2>3
<1> HIDE DEF W
<1>8. QED
  BY <1>2, <1>6, <1>7, RewriteStep

\* A creation inserts version 1 of keys that have no version at all; no call
\* that works on an existing row is concerned.
LEMMA CreateKeysStep ==
    ASSUME IInv, NEW p \in Procs, NEW S \in SUBSET Keys, NEW replied \in BOOLEAN,
           CreateKeys(p, S, replied)
    PROVE  IInv'
<1>1. calls' = calls + 1 /\ calls + 1 \in 1..MaxCalls /\ call' = call
  BY DEF CreateKeys, IInv, TypeOK
<1>2. Exclusive' /\ DeksDistinct'
  BY <1>1 DEF IInv, Exclusive, DeksDistinct
<1>3. CASE ~Insertable(S)
  <2>1. UNCHANGED <<rows, acked>>
    BY <1>3 DEF CreateKeys
  <2>2. CallInv(call[p])'
    <3>1. CallInv(call[p])
      BY DEF IInv
    <3>2. DekPending(call[p])'
      BY <1>1, <2>1, <3>1 DEF IInv, TypeOK, CallInv, DekPending, Rotating, Visible, Present
    <3>3. QED
      BY <1>1, <2>1, <3>1, <3>2 DEF CallInv, SnapshotKept, ReadyToCommit, UpdateBehind,
                                    RevokesRows, Present
  <2>3. call' \in [Procs -> Call] /\ \A q \in Procs \ {p} : call'[q] = call[q]
    BY <1>1 DEF IInv, TypeOK
  <2>4. calls' \in calls..MaxCalls
    BY <1>1 DEF IInv, TypeOK
  <2>5. /\ Locked(call'[p]) => Locked(call[p]) /\ call'[p].key = call[p].key
        /\ Rotating(call'[p]) => Rotating(call[p]) /\ call'[p].dek = call[p].dek
    BY <1>1
  <2>6. QED
    BY <2>1, <2>2, <2>3, <2>4, <2>5, LocalStep
<1>4. CASE Insertable(S)
  <2> DEFINE x == NewKeyRow(calls + 1)
  <2>1. x \in Row /\ x.status = "active" /\ x.mv = 1 /\ x.dek = calls + 1
    BY <1>1 DEF NewKeyRow, Row, Statuses
  <2>2. rows' = [k \in Keys |-> IF k \in S THEN [rows[k] EXCEPT ![1] = x] ELSE rows[k]]
    BY <1>4 DEF CreateKeys
  <2> HIDE DEF x
  <2>3. rows \in [Keys -> [Versions -> Row]] /\ 1 \in Versions
    BY DEF IInv, TypeOK, Versions
  <2> DEFINE one == 1
  <2> one \in 0..MaxVersion /\ one = 1
    OBVIOUS
  <2> HIDE DEF one
  <2>4. ASSUME NEW k \in S PROVE \A v \in Versions : ~Present(rows[k], v)
    <3>1. ~Present(rows[k], 1)
      BY <1>4 DEF Insertable
    <3>2. PICK n \in 0..MaxVersion : Visible(rows[k]) = 1..n
      BY DEF IInv, TableInv, Gapless
    <3>3. n = 0
      BY <2>3, <3>1, <3>2 DEF Visible
    <3>4. QED
      BY <3>2, <3>3 DEF Visible
  <2>5. rows' \in [Keys -> [Versions -> Row]]
    <3>1. \A k \in Keys : (IF k \in S THEN [rows[k] EXCEPT ![1] = x] ELSE rows[k])
                             \in [Versions -> Row]
      BY <2>1, <2>3
    <3>2. QED
      BY <2>2, <3>1
  <2>6. \A k \in Keys : k \notin S => rows'[k] = rows[k]
    BY <2>2
  <2>7. ASSUME NEW k \in S
        PROVE  /\ rows'[k][1] = x
               /\ Visible(rows'[k]) = 1..1
               /\ Latest(rows'[k]) = 1
               /\ \A v \in Versions \ {1} : rows'[k][v] = rows[k][v] /\ ~Present(rows'[k], v)
    <3>1. rows'[k] = [rows[k] EXCEPT ![1] = x] /\ rows[k] \in [Versions -> Row]
      BY <2>2, <2>3
    <3>2. rows'[k][1] = x /\ \A v \in Versions \ {1} : rows'[k][v] = rows[k][v]
      BY <2>3, <3>1
    <3>3. Present(rows'[k], 1) /\ \A v \in Versions \ {1} : ~Present(rows'[k], v)
      BY <2>1, <2>4, <3>2 DEF Present
    <3>4. Visible(rows'[k]) = 1..1
      BY <2>3, <3>3 DEF Visible, Versions
    <3>5. Latest(rows'[k]) = 1
      <4>1. Visible(rows'[k]) = 1..one
        BY <3>4
      <4>2. QED
        BY <4>1, LatestIs
    <3>6. QED
      BY <3>2, <3>3, <3>4, <3>5
  <2>8. \A k \in Keys, v \in Versions : Present(rows[k], v) => rows'[k] = rows[k]
    BY <2>4, <2>6
  <2>9. TableInv'
    <3>1. Gapless'
      <4> SUFFICES ASSUME NEW k \in Keys
                   PROVE  \E n \in 0..MaxVersion : Visible(rows'[k]) = 1..n
        BY DEF Gapless
      <4>1. CASE k \in S
        <5>1. Visible(rows'[k]) = 1..one
          BY <2>7, <4>1
        <5>2. QED
          BY <5>1
      <4>2. CASE k \notin S
        BY <2>6, <4>2 DEF IInv, TableInv, Gapless
      <4>3. QED
        BY <4>1, <4>2
    <3>2. MetadataBehind'
      <4> SUFFICES ASSUME NEW k \in Keys, NEW v \in Visible(rows'[k])
                   PROVE  rows'[k][v].mv \in 1..v
        BY DEF MetadataBehind
      <4>1. CASE k \in S
        BY <2>1, <2>7, <4>1
      <4>2. CASE k \notin S
        BY <2>6, <4>2 DEF IInv, TableInv, MetadataBehind
      <4>3. QED
        BY <4>1, <4>2
    <3>3. DeksKnown'
      <4> SUFFICES ASSUME NEW k \in Keys, NEW v \in Versions PROVE rows'[k][v].dek <= calls'
        BY DEF DeksKnown
      <4>1. rows[k][v].dek <= calls /\ rows[k][v].dek \in 0..MaxCalls /\ calls \in Nat
        BY DEF IInv, TableInv, DeksKnown, TypeOK, Row
      <4>2. rows'[k][v] = rows[k][v] \/ rows'[k][v] = x
        BY <2>6, <2>7
      <4>3. QED
        BY <1>1, <2>1, <4>1, <4>2
    <3>4. OnlyLatestActive'
      <4> SUFFICES ASSUME NEW k \in Keys, NEW v \in Versions, rows'[k][v].status = "active"
                   PROVE  v = Latest(rows'[k])
        BY DEF OnlyLatestActive
      <4>1. CASE k \in S
        BY <2>7, <4>1 DEF Present
      <4>2. CASE k \notin S
        BY <2>6, <4>2 DEF IInv, TableInv, OnlyLatestActive
      <4>3. QED
        BY <4>1, <4>2
    <3>5. OneVersionPerCall'
      <4> SUFFICES ASSUME NEW k \in Keys, NEW v \in Visible(rows'[k]),
                          NEW w \in Visible(rows'[k]), rows'[k][v].dek = rows'[k][w].dek
                   PROVE  v = w
        BY DEF OneVersionPerCall
      <4>1. CASE k \in S
        BY <2>7, <4>1
      <4>2. CASE k \notin S
        BY <2>6, <4>2 DEF IInv, TableInv, OneVersionPerCall
      <4>3. QED
        BY <4>1, <4>2
    <3>6. QED
      BY <3>1, <3>2, <3>3, <3>4, <3>5 DEF TableInv
  <2>10. acked' \subseteq Ack /\ AckedDurable'
    <3> DEFINE new == {[key |-> k, version |-> 1, dek |-> calls + 1] :
                          k \in IF replied THEN S ELSE {}}
    <3>1. acked' = acked \cup new
      BY <1>4 DEF CreateKeys
    <3>2. ASSUME NEW a \in new
          PROVE  a \in Ack /\ a.key \in S /\ a.version = 1 /\ a.dek = calls + 1
      BY <1>1, <2>3 DEF Ack
    <3> HIDE DEF new
    <3>3. ASSUME NEW a \in acked'
          PROVE  a \in Ack /\ Present(rows'[a.key], a.version)
                           /\ rows'[a.key][a.version].dek = a.dek
      <4>1. CASE a \in acked
        <5>1. /\ a \in Ack /\ a.key \in Keys /\ a.version \in Versions
              /\ Present(rows[a.key], a.version)
              /\ rows[a.key][a.version].dek = a.dek
          BY <4>1 DEF IInv, TypeOK, Ack, AckedDurable
        <5>2. QED
          BY <2>8, <5>1 DEF Present
      <4>2. CASE a \in new
        BY <2>1, <2>7, <3>2, <4>2 DEF Present
      <4>3. QED
        BY <3>1, <4>1, <4>2
    <3>4. QED
      BY <3>3 DEF AckedDurable
  <2>11. TypeOK'
    BY <1>1, <2>5, <2>10 DEF IInv, TypeOK
  <2>12. ASSUME NEW q \in Procs PROVE CallInv(call[q])'
    <3> DEFINE c == call[q]
    <3>1. /\ c \in Call /\ c.key \in Keys /\ c.base \in 0..MaxVersion
          /\ c.mv \in 0..MaxVersion /\ c.seen \subseteq Keys \X Versions
          /\ CallInv(c) /\ c' = c
      BY <1>1 DEF IInv, TypeOK, Call
    <3>2. DekPending(c)'
      <4> SUFFICES ASSUME Rotating(c)
                   PROVE  /\ c.dek \in 1..calls'
                          /\ \A v \in Visible(rows'[c.key]) : rows'[c.key][v].dek # c.dek
        BY <3>1 DEF DekPending, Rotating
      <4>1. c.dek \in 1..calls /\ \A v \in Visible(rows[c.key]) : rows[c.key][v].dek # c.dek
        BY <3>1 DEF CallInv, DekPending
      <4>2. c.dek # calls + 1 /\ c.dek \in 1..calls'
        BY <1>1, <4>1 DEF IInv, TypeOK
      <4>3. CASE c.key \in S
        BY <2>1, <2>7, <4>2, <4>3
      <4>4. CASE c.key \notin S
        BY <2>6, <3>1, <4>1, <4>2, <4>4
      <4>5. QED
        BY <4>3, <4>4
    <3>3. ASSUME NEW k \in Keys, NEW v \in Versions, Present(rows[k], v)
          PROVE  Present(rows'[k], v)
      BY <2>8, <3>3 DEF Present
    <3>4. SnapshotKept(c)'
      <4> SUFFICES ASSUME c.pc \in {"lock", "query", "commit"}, c.base # 0
                   PROVE  /\ Present(rows'[c.key], c.base)
                          /\ c.touched \/ rows'[c.key][c.base] = c.old
        BY <3>1 DEF SnapshotKept
      <4>1. /\ c.base \in Versions /\ Present(rows[c.key], c.base)
            /\ c.touched \/ rows[c.key][c.base] = c.old
        BY <3>1 DEF CallInv, SnapshotKept, Versions
      <4>2. QED
        BY <2>8, <3>1, <3>3, <4>1
    <3>5. ReadyToCommit(c)'
      <4> SUFFICES ASSUME c.pc = "commit"
                   PROVE  /\ c.base # 0 /\ rows'[c.key][c.base] = c.old /\ c.old.mv = c.base
                          /\ c.base + 1 \in Versions /\ ~Present(rows'[c.key], c.base + 1)
        BY <3>1 DEF ReadyToCommit
      <4>1. ReadyToCommit(c) /\ SnapshotKept(c)
        BY <3>1 DEF CallInv
      <4>2. c.base \in Versions /\ Present(rows[c.key], c.base)
        BY <3>1, <4>1 DEF ReadyToCommit, SnapshotKept, Versions
      <4>3. rows'[c.key] = rows[c.key]
        BY <2>8, <3>1, <4>2
      <4>4. QED
        BY <4>1, <4>3 DEF ReadyToCommit
    <3>6. UpdateBehind(c)'
      <4>1. UpdateBehind(c)
        BY <3>1 DEF CallInv
      <4>2. QED
        BY <3>1, <3>3, <4>1 DEF UpdateBehind, Versions
    <3>7. RevokesRows(c)'
      <4>1. RevokesRows(c)
        BY <3>1 DEF CallInv
      <4>2. QED
        BY <3>1, <3>3, <4>1 DEF RevokesRows
    <3>8. QED
      BY <3>2, <3>4, <3>5, <3>6, <3>7 DEF CallInv
  <2>13. QED
    BY <1>2, <2>9, <2>10, <2>11, <2>12 DEF IInv
<1>5. QED
  BY <1>3, <1>4

\* What the commit of a rotation does to the rows of its key: it demotes the
\* latest version b and adds b + 1.
LEMMA RotateCommitRows ==
    ASSUME IInv, NEW p \in Procs, NEW replied \in BOOLEAN, RotateCommit(p, replied)
    PROVE  LET c == call[p]
               b == c.base
           IN  /\ c \in Call /\ c.pc = "commit" /\ c.key \in Keys
               /\ b \in Versions /\ b + 1 \in Versions
               /\ NewVersion(c) = b + 1
               /\ Visible(rows[c.key]) = 1..b
               /\ Visible(rows'[c.key]) = 1..(b + 1)
               /\ rows' \in [Keys -> [Versions -> Row]]
               /\ \A k \in Keys \ {c.key} : rows'[k] = rows[k]
               /\ \A v \in Versions \ {b, b + 1} : rows'[c.key][v] = rows[c.key][v]
               /\ rows'[c.key][b].status = "rotated"
               /\ rows'[c.key][b].mv = rows[c.key][b].mv
               /\ rows'[c.key][b].dek = rows[c.key][b].dek
               /\ rows'[c.key][b + 1] = [status |-> "active", mv |-> b + 1, dek |-> c.dek]
<1> DEFINE c == call[p]
           b == c.base
           t == rows[c.key]
           r == [t[b] EXCEPT !.status = "rotated"]
           x == [status |-> "active", mv |-> b + 1, dek |-> c.dek]
<1>1. c \in Call /\ c.pc = "commit" /\ CallInv(c)
  BY DEF IInv, TypeOK, RotateCommit
<1>2. c.key \in Keys /\ b \in 0..MaxVersion /\ c.dek \in 0..MaxCalls
  BY <1>1 DEF Call
<1>3. /\ b \in Versions /\ b + 1 \in Versions /\ Present(t, b) /\ ~Present(t, b + 1)
      /\ t[b].mv = b
  BY <1>1, <1>2 DEF CallInv, ReadyToCommit, SnapshotKept, Versions
<1>4. NewVersion(c) = b + 1
  BY <1>3 DEF NewVersion
<1>5. t \in [Versions -> Row] /\ t[b] \in Row /\ rows \in [Keys -> [Versions -> Row]]
  BY <1>2, <1>3 DEF IInv, TypeOK
<1>6. Visible(t) = 1..b
  <2>1. PICK n \in 0..MaxVersion : Visible(t) = 1..n
    BY <1>2 DEF IInv, TableInv, Gapless
  <2>2. b \in 1..n /\ b + 1 \notin 1..n
    BY <1>3, <2>1 DEF Visible
  <2>3. n = b
    BY <1>2, <2>2
  <2>4. QED
    BY <2>1, <2>3
<1>7. RotatedRows(t, c, b + 1) = [t EXCEPT ![b] = r, ![b + 1] = x]
  BY <1>3, <1>5 DEF RotatedRows, NewVersionRow
<1>8. rows' = [rows EXCEPT ![c.key] = RotatedRows(t, c, b + 1)]
  BY <1>4 DEF RotateCommit
<1>9. r \in Row /\ r.status = "rotated" /\ r.mv = t[b].mv /\ r.dek = t[b].dek
  BY <1>5 DEF Row, Statuses
<1>10. x \in Row /\ x.status = "active"
  BY <1>2, <1>3 DEF Row, Statuses, Versions
<1>11. b + 1 # b
  BY <1>2
<1> HIDE DEF r, x
<1>12. /\ rows'[c.key] \in [Versions -> Row]
       /\ rows'[c.key][b] = r /\ rows'[c.key][b + 1] = x
       /\ \A v \in Versions \ {b, b + 1} : rows'[c.key][v] = t[v]
  BY <1>2, <1>3, <1>5, <1>7, <1>8, <1>9, <1>10, <1>11
<1>13. /\ rows' \in [Keys -> [Versions -> Row]]
       /\ \A k \in Keys \ {c.key} : rows'[k] = rows[k]
  BY <1>2, <1>5, <1>8, <1>12
<1>14. Visible(rows'[c.key]) = 1..(b + 1)
  <2>1. \A v \in Versions : Present(rows'[c.key], v) <=> v = b + 1 \/ v \in 1..b
    <3> TAKE v \in Versions
    <3>1. v \in 1..b <=> Present(t, v)
      BY <1>6 DEF Visible
    <3>2. CASE v = b
      BY <1>3, <1>9, <1>12, <3>1, <3>2 DEF Present
    <3>3. CASE v = b + 1
      BY <1>10, <1>12, <3>3 DEF Present
    <3>4. CASE v \in Versions \ {b, b + 1}
      BY <1>12, <3>1, <3>4 DEF Present
    <3>5. QED
      BY <3>2, <3>3, <3>4
  <2>2. \A v \in 1..(b + 1) : v \in Versions /\ (v = b + 1 \/ v \in 1..b)
    BY <1>3 DEF Versions
  <2>3. \A v \in Versions : v = b + 1 \/ v \in 1..b => v \in 1..(b + 1)
    BY <1>3 DEF Versions
  <2>4. QED
    BY <2>1, <2>2, <2>3 DEF Visible
<1>15. QED
  BY <1>1, <1>2, <1>3, <1>4, <1>6, <1>9, <1>12, <1>13, <1>14 DEF x

\* The commit of a rotation.  The other holder of a snapshot of the demoted row
\* notices, no other call is ready to commit to this key, and no other call has
\* this DEK.
LEMMA RotateCommitStep ==
    ASSUME IInv, NEW p \in Procs, NEW replied \in BOOLEAN, RotateCommit(p, replied)
    PROVE  IInv'
<1> DEFINE c == call[p]
           b == c.base
           K == c.key
           W == {K} \X {b, b + 1}
<1>1. /\ c \in Call /\ c.pc = "commit" /\ K \in Keys
      /\ b \in Versions /\ b + 1 \in Versions /\ NewVersion(c) = b + 1
      /\ Visible(rows[K]) = 1..b /\ Visible(rows'[K]) = 1..(b + 1)
      /\ rows' \in [Keys -> [Versions -> Row]]
  BY RotateCommitRows
<1>2. \A k \in Keys \ {K} : rows'[k] = rows[k]
  BY RotateCommitRows
<1>3. \A v \in Versions \ {b, b + 1} : rows'[K][v] = rows[K][v]
  BY RotateCommitRows
<1>4. /\ rows'[K][b].status = "rotated" /\ rows'[K][b].mv = rows[K][b].mv
      /\ rows'[K][b].dek = rows[K][b].dek
  BY RotateCommitRows
<1>5. /\ rows'[K][b + 1].status = "active" /\ rows'[K][b + 1].mv = b + 1
      /\ rows'[K][b + 1].dek = c.dek
  <2>1. rows'[K][b + 1] = [status |-> "active", mv |-> b + 1, dek |-> c.dek]
    BY RotateCommitRows
  <2>2. QED
    BY <2>1
<1>6. CallInv(c) /\ Rotating(c) /\ Locked(c) /\ c.dek \in 1..calls /\ calls \in Nat
  <2>1. CallInv(c) /\ calls \in Nat
    BY DEF IInv, TypeOK
  <2>2. Rotating(c) /\ Locked(c)
    BY <1>1 DEF Rotating, Locked
  <2>3. QED
    BY <2>1, <2>2 DEF CallInv, DekPending
<1>7. Finish(p, W) /\ calls' = calls
  BY <1>1 DEF RotateCommit
<1>8. b \in Nat /\ ~Present(rows[K], b + 1) /\ Present(rows[K], b)
  BY <1>1 DEF Visible, Versions
<1>9. ASSUME NEW k \in Keys, NEW v \in Versions, Present(rows[k], v)
      PROVE  Present(rows'[k], v) /\ rows'[k][v].dek = rows[k][v].dek
  <2>1. CASE k # K
    BY <1>2, <1>9, <2>1
  <2>2. CASE k = K
    <3>1. v # b + 1
      BY <1>8, <1>9, <2>2
    <3>2. CASE v = b
      BY <1>4, <2>2, <3>2 DEF Present
    <3>3. CASE v # b
      BY <1>3, <1>9, <2>2, <3>1, <3>3 DEF Present
    <3>4. QED
      BY <3>2, <3>3
  <2>3. QED
    BY <2>1, <2>2
<1>10. \A v \in Visible(rows[K]) : rows[K][v].dek # c.dek
  BY <1>6 DEF CallInv, DekPending
<1>11. Latest(rows[K]) = b /\ Latest(rows'[K]) = b + 1
  <2> DEFINE m == b + 1
  <2>1. b \in 0..MaxVersion /\ m \in 0..MaxVersion
    BY <1>1 DEF Versions
  <2>2. Visible(rows'[K]) = 1..m
    BY <1>1
  <2> HIDE DEF m
  <2>3. Latest(rows[K]) = b /\ Latest(rows'[K]) = m
    BY <1>1, <2>1, <2>2, LatestIs
  <2>4. QED
    BY <2>3 DEF m
<1>12. TableInv'
  <2>1. Gapless'
    <3> SUFFICES ASSUME NEW k \in Keys
                 PROVE  \E n \in 0..MaxVersion : Visible(rows'[k]) = 1..n
      BY DEF Gapless
    <3>1. CASE k = K
      <4> DEFINE m == b + 1
      <4>1. m \in 0..MaxVersion /\ Visible(rows'[k]) = 1..m
        BY <1>1, <3>1 DEF Versions
      <4> HIDE DEF m
      <4>2. QED
        BY <4>1
    <3>2. CASE k # K
      BY <1>2, <3>2 DEF IInv, TableInv, Gapless
    <3>3. QED
      BY <3>1, <3>2
  <2>2. MetadataBehind'
    <3> SUFFICES ASSUME NEW k \in Keys, NEW v \in Visible(rows'[k])
                 PROVE  rows'[k][v].mv \in 1..v
      BY DEF MetadataBehind
    <3>1. v \in Versions /\ v \in Nat
      BY DEF Visible, Versions
    <3>2. CASE k # K
      BY <1>2, <3>2 DEF IInv, TableInv, MetadataBehind
    <3>3. CASE k = K /\ v = b + 1
      BY <1>5, <1>8, <3>3
    <3>4. CASE k = K /\ v # b + 1
      <4>1. v \in Visible(rows[K])
        BY <1>1, <1>8, <3>1, <3>4
      <4>2. rows[K][v].mv \in 1..v
        BY <1>1, <4>1 DEF IInv, TableInv, MetadataBehind
      <4>3. CASE v = b
        BY <1>4, <3>4, <4>2, <4>3
      <4>4. CASE v # b
        BY <1>3, <3>1, <3>4, <4>2, <4>4
      <4>5. QED
        BY <4>3, <4>4
    <3>5. QED
      BY <3>2, <3>3, <3>4
  <2>3. DeksKnown'
    <3> SUFFICES ASSUME NEW k \in Keys, NEW v \in Versions PROVE rows'[k][v].dek <= calls
      BY <1>7 DEF DeksKnown
    <3>1. rows[k][v].dek <= calls
      BY DEF IInv, TableInv, DeksKnown
    <3>2. rows'[k][v].dek = rows[k][v].dek \/ rows'[k][v].dek = c.dek
      BY <1>2, <1>3, <1>4, <1>5
    <3>3. QED
      BY <1>6, <3>1, <3>2
  <2>4. OnlyLatestActive'
    <3> SUFFICES ASSUME NEW k \in Keys, NEW v \in Versions, rows'[k][v].status = "active"
                 PROVE  v = Latest(rows'[k])
      BY DEF OnlyLatestActive
    <3>1. CASE k # K
      BY <1>2, <3>1 DEF IInv, TableInv, OnlyLatestActive
    <3>2. CASE k = K
      <4>1. v # b
        BY <1>4, <3>2
      <4>2. rows[K][b + 1].status # "active"
        BY <1>8 DEF Present
      <4>3. CASE v # b + 1
        <5>1. rows[K][v].status = "active"
          BY <1>3, <3>2, <4>1, <4>3
        <5>2. QED
          BY <1>1, <1>11, <4>1, <5>1 DEF IInv, TableInv, OnlyLatestActive
      <4>4. QED
        BY <1>11, <3>2, <4>3
    <3>3. QED
      BY <3>1, <3>2
  <2>5. OneVersionPerCall'
    <3> SUFFICES ASSUME NEW k \in Keys, NEW v \in Visible(rows'[k]),
                        NEW w \in Visible(rows'[k]), rows'[k][v].dek = rows'[k][w].dek
                 PROVE  v = w
      BY DEF OneVersionPerCall
    <3>1. CASE k # K
      BY <1>2, <3>1 DEF IInv, TableInv, OneVersionPerCall
    <3>2. CASE k = K
      <4>1. ASSUME NEW u \in Visible(rows'[K])
            PROVE  \/ u = b + 1 /\ rows'[K][u].dek = c.dek
                   \/ /\ u \in Visible(rows[K]) /\ rows'[K][u].dek = rows[K][u].dek
                      /\ rows'[K][u].dek # c.dek
        <5>1. CASE u = b + 1
          BY <1>5, <5>1
        <5>2. CASE u # b + 1
          <6>1. u \in Visible(rows[K])
            BY <1>1, <1>8, <5>2
          <6>2. u \in Versions /\ Present(rows[K], u)
            BY <6>1 DEF Visible
          <6>3. QED
            BY <1>1, <1>9, <1>10, <6>1, <6>2
        <5>3. QED
          BY <5>1, <5>2
      <4>2. QED
        BY <1>1, <3>2, <4>1 DEF IInv, TableInv, OneVersionPerCall
    <3>3. QED
      BY <3>1, <3>2
  <2>6. QED
    BY <2>1, <2>2, <2>3, <2>4, <2>5 DEF TableInv
<1>13. acked' \subseteq Ack /\ AckedDurable'
  <2> DEFINE a0 == [key |-> K, version |-> b + 1, dek |-> c.dek]
  <2>1. acked' \subseteq acked \cup {a0}
    BY <1>1 DEF RotateCommit
  <2>2. a0 \in Ack /\ a0.key = K /\ a0.version = b + 1 /\ a0.dek = c.dek
    BY <1>1 DEF Ack, Call
  <2> HIDE DEF a0
  <2>3. ASSUME NEW a \in acked'
        PROVE  a \in Ack /\ Present(rows'[a.key], a.version)
                         /\ rows'[a.key][a.version].dek = a.dek
    <3>1. CASE a \in acked
      <4>1. /\ a \in Ack /\ a.key \in Keys /\ a.version \in Versions
            /\ Present(rows[a.key], a.version)
            /\ rows[a.key][a.version].dek = a.dek
        BY <3>1 DEF IInv, TypeOK, Ack, AckedDurable
      <4>2. QED
        BY <1>9, <4>1
    <3>2. CASE a = a0
      BY <1>5, <2>2, <3>2 DEF Present
    <3>3. QED
      BY <2>1, <3>1, <3>2
  <2>4. QED
    BY <2>3 DEF AckedDurable
<1>14. ASSUME NEW q \in Procs \ {p} PROVE CallInv(call[q])'
  <2> DEFINE e == call[q]
             d == Touch(e, W)
  <2>1. /\ e \in Call /\ e.key \in Keys /\ e.base \in 0..MaxVersion
        /\ e.mv \in 0..MaxVersion /\ e.seen \subseteq Keys \X Versions /\ CallInv(e)
    BY DEF IInv, TypeOK, Call
  <2>2. /\ d.pc = e.pc /\ d.key = e.key /\ d.dek = e.dek /\ d.base = e.base
        /\ d.old = e.old /\ d.mv = e.mv /\ d.seen = e.seen
        /\ e.pc \in {"lock", "query", "commit"} /\ <<e.key, e.base>> \in W => d.touched
        /\ ~d.touched => ~e.touched
    BY <2>1, TouchFacts
  <2>3. call'[q] = d
    BY <1>7, FinishFacts
  <2> HIDE DEF d
  <2>4. DekPending(call[q])'
    <3> SUFFICES ASSUME Rotating(e)
                 PROVE  /\ e.dek \in 1..calls
                        /\ \A v \in Visible(rows'[e.key]) : rows'[e.key][v].dek # e.dek
      BY <1>7, <2>2, <2>3 DEF DekPending, Rotating
    <3>1. e.dek \in 1..calls /\ \A v \in Visible(rows[e.key]) : rows[e.key][v].dek # e.dek
      BY <2>1 DEF CallInv, DekPending
    <3>2. e.dek # c.dek
      BY <1>6 DEF IInv, DeksDistinct
    <3>3. CASE e.key # K
      BY <1>2, <2>1, <3>1, <3>3
    <3>4. CASE e.key = K
      <4> SUFFICES ASSUME NEW v \in Visible(rows'[K]) PROVE rows'[K][v].dek # e.dek
        BY <3>1, <3>4
      <4>1. CASE v = b + 1
        BY <1>5, <3>2, <4>1
      <4>2. CASE v # b + 1
        <5>1. v \in Visible(rows[K])
          BY <1>1, <1>8, <4>2
        <5>2. v \in Versions /\ Present(rows[K], v)
          BY <5>1 DEF Visible
        <5>3. rows'[K][v].dek = rows[K][v].dek
          BY <1>1, <1>9, <5>2
        <5>4. QED
          BY <3>1, <3>4, <5>1, <5>3
      <4>3. QED
        BY <4>1, <4>2
    <3>5. QED
      BY <3>3, <3>4
  <2>5. SnapshotKept(call[q])'
    <3> SUFFICES ASSUME e.pc \in {"lock", "query", "commit"}, e.base # 0
                 PROVE  /\ Present(rows'[e.key], e.base)
                        /\ d.touched \/ rows'[e.key][e.base] = e.old
      BY <2>2, <2>3 DEF SnapshotKept
    <3>1. /\ e.base \in Versions /\ Present(rows[e.key], e.base)
          /\ e.touched \/ rows[e.key][e.base] = e.old
      BY <2>1 DEF CallInv, SnapshotKept, Versions
    <3>2. CASE <<e.key, e.base>> \in W
      BY <1>9, <2>1, <2>2, <3>1, <3>2
    <3>3. CASE <<e.key, e.base>> \notin W
      <4>1. rows'[e.key][e.base] = rows[e.key][e.base]
        BY <1>2, <1>3, <2>1, <3>1, <3>3
      <4>2. QED
        BY <1>9, <2>1, <2>2, <3>1, <4>1
    <3>4. QED
      BY <3>2, <3>3
  <2>6. ReadyToCommit(call[q])'
    <3>1. e.pc = "commit" => e.key # K
      BY <1>6 DEF IInv, Exclusive, Locked
    <3>2. e.pc = "commit" => rows'[e.key] = rows[e.key]
      BY <1>2, <2>1, <3>1
    <3>3. ReadyToCommit(e)
      BY <2>1 DEF CallInv
    <3>4. QED
      BY <2>2, <2>3, <3>2, <3>3 DEF ReadyToCommit, Present
  <2>7. UpdateBehind(call[q])'
    <3>1. UpdateBehind(e)
      BY <2>1 DEF CallInv
    <3>2. e.pc = "merge" => Present(rows'[e.key], e.mv)
      BY <1>9, <2>1, <3>1 DEF UpdateBehind, Versions
    <3>3. e.pc = "update" => Present(rows'[e.key], e.base)
      BY <1>9, <2>1, <3>1 DEF UpdateBehind, Versions
    <3>4. QED
      BY <2>2, <2>3, <3>1, <3>2, <3>3 DEF UpdateBehind, Present
  <2>8. RevokesRows(call[q])'
    <3>1. e.pc = "revoke" => \A kv \in e.seen : Present(rows'[kv[1]], kv[2])
      BY <1>9, <2>1 DEF CallInv, RevokesRows
    <3>2. QED
      BY <2>2, <2>3, <3>1 DEF RevokesRows, Present
  <2>9. QED
    BY <2>4, <2>5, <2>6, <2>7, <2>8 DEF CallInv
<1>15. /\ call' \in [Procs -> Call] /\ CallInv(call[p])' /\ Exclusive' /\ DeksDistinct'
  BY <1>7, FinishFacts
<1>16. TypeOK'
  BY <1>1, <1>7, <1>13, <1>15 DEF IInv, TypeOK
<1>17. QED
  BY <1>12, <1>13, <1>14, <1>15, <1>16 DEF IInv

-----------------------------------------------------------------------------
(* Theorems *)

\* Every step of every call preserves the invariant.
LEMMA InductiveStep == IInv /\ [Next]_vars => IInv'
<1> SUFFICES ASSUME IInv, [Next]_vars PROVE IInv'
  OBVIOUS
<1>1. CASE UNCHANGED vars
  <2>1. TypeOK' /\ AckedDurable'
    BY <1>1 DEF vars, IInv, TypeOK, AckedDurable, Present
  <2>2. TableInv'
    BY <1>1 DEF vars, IInv, TableInv, Gapless, MetadataBehind, DeksKnown, OnlyLatestActive,
                OneVersionPerCall, Visible, Present, Latest
  <2>3. ASSUME NEW q \in Procs PROVE CallInv(call[q])'
    <3>1. CallInv(call[q])
      BY DEF IInv
    <3>2. QED
      BY <1>1, <3>1 DEF vars, CallInv, DekPending, Rotating, SnapshotKept, ReadyToCommit,
                        UpdateBehind, RevokesRows, Visible, Present
  <2>4. Exclusive' /\ DeksDistinct'
    BY <1>1 DEF vars, IInv, Exclusive, DeksDistinct
  <2>5. QED
    BY <2>1, <2>2, <2>3, <2>4 DEF IInv
<1>2. ASSUME NEW p \in Procs, Start(p) PROVE IInv'
  BY <1>2, CreateKeysStep, RevokeStartStep, RotateGetKeyStep, UpdateGetKeyStep DEF Start
<1>3. ASSUME NEW p \in Procs, Step(p) PROVE IInv'
  BY <1>3, RotateBeginStep, RotateLockStep, RotateQueryStep, RetryStep, RotateCommitStep,
     RevokeApplyStep, UpdateStartStep, UpdateApplyStep DEF Step
<1>4. ASSUME NEW p \in Procs, CallFails(p) PROVE IInv'
  BY <1>4, EndStep DEF CallFails
<1>5. QED
  BY <1>1, <1>2, <1>3, <1>4 DEF Next

\* The empty table and no calls satisfy the invariant.
LEMMA InductiveInit == Init => IInv
<1> SUFFICES ASSUME Init PROVE IInv
  OBVIOUS
<1>1. \A k \in Keys, v \in Versions : rows[k][v] = NoRow
  BY DEF Init
<1>2. \A k \in Keys : Visible(rows[k]) = {}
  BY <1>1 DEF Visible, Present, NoRow
<1>3. TypeOK
  BY IdleType DEF Init, TypeOK
<1>4. Gapless
  <2>1. 0 \in 0..MaxVersion /\ 1..0 = {}
    OBVIOUS
  <2>2. QED
    BY <1>2, <2>1 DEF Gapless
<1>5. MetadataBehind /\ OneVersionPerCall
  BY <1>2 DEF MetadataBehind, OneVersionPerCall
<1>6. DeksKnown /\ OnlyLatestActive
  BY <1>1 DEF DeksKnown, OnlyLatestActive, NoRow, Init
<1>7. AckedDurable
  BY DEF Init, AckedDurable
<1>8. \A p \in Procs : call[p].pc = "idle"
  BY DEF Init, Idle
<1>9. \A p \in Procs : CallInv(call[p])
  BY <1>8 DEF CallInv, DekPending, Rotating, SnapshotKept, ReadyToCommit, UpdateBehind,
              RevokesRows
<1>10. Exclusive /\ DeksDistinct
  BY <1>8 DEF Exclusive, DeksDistinct, Rotating, Locked
<1>11. QED
  BY <1>3, <1>4, <1>5, <1>6, <1>7, <1>9, <1>10 DEF IInv, TableInv

\* The inductive invariant holds in every reachable state.
THEOREM InductiveInvariant == Spec => []IInv
  BY InductiveInit, InductiveStep, PTL DEF Spec

\* Rows, calls and acknowledgements have their types: in particular a retry loop
\* never exceeds its attempts and a rotation never numbers a version beyond the
\* table.
THEOREM TypeCorrect == Spec => []TypeOK
<1>1. IInv => TypeOK
  BY DEF IInv
<1>2. QED
  BY <1>1, InductiveInvariant, PTL

\* The versions of a key have no gap, and no metadata document names a later
\* version than its row's: the rotation query's arithmetic on the metadata is
\* sound, for any number of calls, keys and retries.
THEOREM Contiguous == Spec => []VersionsContiguous
<1>1. IInv => VersionsContiguous
  <2> SUFFICES ASSUME IInv, NEW k \in Keys, NEW v \in Visible(rows[k])
               PROVE  rows[k][v].mv \in 1..v /\ (v > 1 => Present(rows[k], v - 1))
    BY DEF VersionsContiguous
  <2>1. rows[k][v].mv \in 1..v
    BY DEF IInv, TableInv, MetadataBehind
  <2>2. PICK n \in 0..MaxVersion : Visible(rows[k]) = 1..n
    BY DEF IInv, TableInv, Gapless
  <2>3. v > 1 => v - 1 \in 1..n
    BY <2>2
  <2>4. QED
    BY <2>1, <2>2, <2>3 DEF Visible
<1>2. QED
  BY <1>1, InductiveInvariant, PTL

\* No older version of a key is ever active.
THEOREM LatestActive == Spec => []OnlyLatestActive
<1>1. IInv => OnlyLatestActive
  BY DEF IInv, TableInv
<1>2. QED
  BY <1>1, InductiveInvariant, PTL

\* A version that was reported to a client stays in the table with its DEK.
THEOREM Durable == Spec => []AckedDurable
<1>1. IInv => AckedDurable
  BY DEF IInv
<1>2. QED
  BY <1>1, InductiveInvariant, PTL

\* However often its transaction is retried, a call creates at most one version
\* of a key.
THEOREM RotatesOnce == Spec => []OneVersionPerCall
<1>1. IInv => OneVersionPerCall
  BY DEF IInv, TableInv
<1>2. QED
  BY <1>1, InductiveInvariant, PTL

\* A rotation that commits replaces the row its snapshot saw.
THEOREM Isolated == Spec => []RotationIsolated
<1>1. IInv => RotationIsolated
  BY DEF IInv, CallInv, ReadyToCommit, RotationIsolated
<1>2. QED
  BY <1>1, InductiveInvariant, PTL

\* What a step may do to the status of a row that exists.
LEMMA StatusStep ==
    ASSUME IInv, [Next]_vars, NEW k \in Keys, NEW v \in Visible(rows[k])
    PROVE  /\ rows[k][v].status # "active" => rows'[k][v].status # "active"
           /\ rows[k][v].status = "revoked" /\ v < Latest(rows[k])
                => rows'[k][v].status = "revoked"
<1>1. v \in Versions /\ Present(rows[k], v) /\ rows \in [Keys -> [Versions -> Row]]
  BY DEF Visible, IInv, TypeOK
<1>2. CASE rows' = rows
  BY <1>2
<1>3. ASSUME NEW p \in Procs, NEW S \in SUBSET Keys, NEW replied \in BOOLEAN,
             CreateKeys(p, S, replied), Insertable(S)
      PROVE  rows'[k][v] = rows[k][v]
  <2>1. ~(k \in S /\ v = 1)
    BY <1>1, <1>3 DEF Insertable
  <2>2. rows'[k] = IF k \in S THEN [rows[k] EXCEPT ![1] = NewKeyRow(calls + 1)] ELSE rows[k]
    BY <1>3 DEF CreateKeys
  <2>3. QED
    BY <1>1, <2>1, <2>2
<1>4. ASSUME NEW p \in Procs, RevokeApply(p)
      PROVE  rows'[k][v] = rows[k][v] \/ rows'[k][v].status = "revoked"
  <2>1. rows[k][v] \in Row
    BY <1>1
  <2>2. RevokedRow(rows[k][v]).status = "revoked"
    BY <2>1 DEF RevokedRow, Row
  <2>3. rows'[k][v] = rows[k][v] \/ rows'[k][v] = RevokedRow(rows[k][v])
    BY <1>1, <1>4 DEF RevokeApply
  <2>4. QED
    BY <2>2, <2>3
<1>5. ASSUME NEW p \in Procs, UpdateApply(p) PROVE rows'[k][v].status = rows[k][v].status
  <2> DEFINE c == call[p]
             s == [rows[c.key][c.base] EXCEPT !.mv = c.mv]
  <2>1. rows' = [rows EXCEPT ![c.key] = [rows[c.key] EXCEPT ![c.base] = s]]
    BY <1>5 DEF UpdateApply
  <2>2. CASE k = c.key /\ v = c.base
    <3>1. rows[k][v] \in Row
      BY <1>1
    <3>2. s.status = rows[k][v].status
      BY <2>2, <3>1 DEF Row
    <3> HIDE DEF s
    <3>3. rows'[k][v] = s
      BY <1>1, <2>1, <2>2
    <3>4. QED
      BY <3>2, <3>3
  <2>3. CASE ~(k = c.key /\ v = c.base)
    BY <1>1, <2>1, <2>3
  <2>4. QED
    BY <2>2, <2>3
<1>6. ASSUME NEW p \in Procs, NEW replied \in BOOLEAN, RotateCommit(p, replied)
      PROVE  \/ rows'[k][v] = rows[k][v]
             \/ v = Latest(rows[k]) /\ rows'[k][v].status = "rotated"
  <2> DEFINE c == call[p]
             b == c.base
  <2>1. /\ c.key \in Keys /\ b \in Versions /\ Visible(rows[c.key]) = 1..b
        /\ \A l \in Keys \ {c.key} : rows'[l] = rows[l]
        /\ \A w \in Versions \ {b, b + 1} : rows'[c.key][w] = rows[c.key][w]
        /\ rows'[c.key][b].status = "rotated"
    BY <1>6, RotateCommitRows
  <2>2. CASE k # c.key
    BY <2>1, <2>2
  <2>3. CASE k = c.key
    <3>1. v \in 1..b /\ b \in 0..MaxVersion
      BY <2>1, <2>3 DEF Versions
    <3>2. Latest(rows[k]) = b
      BY <2>1, <2>3, <3>1, LatestIs
    <3>3. v # b + 1
      BY <3>1
    <3>4. QED
      BY <1>1, <2>1, <2>3, <3>2, <3>3
  <2>4. QED
    BY <2>2, <2>3
<1>7. Latest(rows[k]) \in Nat /\ v \in Nat
  BY <1>1, LatestFacts DEF IInv, TableInv, Versions
<1>8. \/ rows' = rows
      \/ \E p \in Procs : \/ \E S \in SUBSET Keys, replied \in BOOLEAN :
                               CreateKeys(p, S, replied) /\ Insertable(S)
                          \/ RevokeApply(p) \/ UpdateApply(p)
                          \/ \E replied \in BOOLEAN : RotateCommit(p, replied)
  BY DEF Next, vars, Start, Step, CallFails, CreateKeys, RevokeStart, RotateGetKey,
         UpdateGetKey, RotateBegin, RotateLock, RotateQuery, Retry, UpdateStart
<1>9. QED
  BY <1>2, <1>3, <1>4, <1>5, <1>6, <1>7, <1>8

\* The status of a version never returns to active, and once a newer version
\* exists a revoked one stays revoked.
THEOREM StatusOrdered == Spec => StatusOrder
<1> DEFINE A == \A k \in Keys : \A v \in Visible(rows[k]) :
                  /\ rows[k][v].status # "active" => rows'[k][v].status # "active"
                  /\ rows[k][v].status = "revoked" /\ v < Latest(rows[k])
                       => rows'[k][v].status = "revoked"
<1>1. IInv /\ [Next]_vars => [A]_vars
  BY StatusStep
<1>2. QED
  BY <1>1, InductiveInvariant, PTL DEF Spec, StatusOrder

-----------------------------------------------------------------------------
(***************************************************************************)
(* KeyStore implements VersionedKeys.  CreateKeys maps to Create, the      *)
(* commit of a rotation to Rotate, and the two steps of a revocation       *)
(* statement to Look and Revoke; every other step, the metadata update     *)
(* included, is a stuttering step, or the GiveUp of a revocation that      *)
(* failed.  Beyond IInv the argument needs that only a revocation has      *)
(* chosen rows.                                                            *)
(***************************************************************************)

\* Only a revocation under way covers rows.
SeenInv == \A p \in Procs : call[p].pc # "revoke" => call[p].seen = {}

Covered == [p \in Procs |-> call[p].seen]

-----------------------------------------------------------------------------
(* The rows a revocation has chosen *)

\* The end of a statement or transaction of p: p has chosen nothing any more, and
\* the others have what they had.
LEMMA FinishSeen ==
    ASSUME IInv, NEW p \in Procs, NEW W, Finish(p, W)
    PROVE  /\ call'[p] = Idle
           /\ \A q \in Procs \ {p} : call'[q].seen = call[q].seen /\ call'[q].pc = call[q].pc
<1>1. call'[p] = Idle /\ \A q \in Procs \ {p} : call'[q] = Touch(call[q], W)
  BY DEF Finish
<1>2. ASSUME NEW q \in Procs \ {p}
      PROVE  call'[q].seen = call[q].seen /\ call'[q].pc = call[q].pc
  <2> DEFINE d == Touch(call[q], W)
  <2>1. call[q] \in Call /\ call'[q] = d
    BY <1>1 DEF IInv, TypeOK
  <2>2. d.seen = call[q].seen /\ d.pc = call[q].pc
    BY <2>1, TouchFacts
  <2> HIDE DEF d
  <2>3. QED
    BY <2>1, <2>2
<1>3. QED
  BY <1>1, <1>2

\* Steps that neither begin nor end a revocation leave every choice of rows alone;
\* the other two replace that of p.
LEMMA SeenSteps ==
    ASSUME IInv, SeenInv, NEW p \in Procs, Start(p) \/ Step(p) \/ CallFails(p)
    PROVE  /\ SeenInv'
           /\ \/ Covered' = Covered
              \/ RevokeApply(p) /\ Covered' = [Covered EXCEPT ![p] = {}]
              \/ CallFails(p) /\ Covered' = [Covered EXCEPT ![p] = {}]
              \/ \E S \in SUBSET Keys : RevokeStart(p, S)
<1> DEFINE Kept == SeenInv' /\ Covered' = Covered
           Ended == SeenInv' /\ Covered' = [Covered EXCEPT ![p] = {}]
<1>1. /\ call \in [Procs -> Call] /\ Idle \in Call /\ Idle.seen = {} /\ Idle.pc = "idle"
      /\ \A q \in Procs : call[q].pc # "revoke" => call[q].seen = {}
  BY IdleType DEF IInv, TypeOK, Idle, SeenInv
<1>2. ASSUME NEW W, Finish(p, W) PROVE Ended
  BY <1>1, <1>2, FinishSeen DEF SeenInv, Covered
<1>3. ASSUME Ended, call[p].pc # "revoke" PROVE Kept
  BY <1>1, <1>3 DEF Covered
<1>4. ASSUME NEW c \in Call, call' = [call EXCEPT ![p] = c], call[p].pc # "revoke",
             c.pc # "revoke", c.seen = call[p].seen \/ c.seen = {}
      PROVE  Kept
  BY <1>1, <1>4 DEF SeenInv, Covered
<1>5. ASSUME NEW S \in SUBSET Keys, NEW replied \in BOOLEAN, CreateKeys(p, S, replied)
      PROVE  Kept
  BY <1>1, <1>5 DEF CreateKeys, SeenInv, Covered
<1>6. ASSUME NEW S \in SUBSET Keys, RevokeStart(p, S) PROVE SeenInv'
  <2> DEFINE c == [Idle EXCEPT !.pc = "revoke",
                      !.seen = {kv \in S \X Versions : Present(rows[kv[1]], kv[2])}]
  <2>1. c.pc = "revoke"
    BY DEF Idle
  <2>2. call' = [call EXCEPT ![p] = c]
    BY <1>6 DEF RevokeStart
  <2> HIDE DEF c
  <2>3. QED
    BY <1>1, <2>1, <2>2 DEF SeenInv
<1>7. ASSUME NEW k \in Keys, RotateGetKey(p, k) \/ UpdateGetKey(p, k) PROVE Kept
  <2>1. CASE RotateGetKey(p, k)
    BY <1>1, <2>1 DEF RotateGetKey, Idle, SeenInv, Covered
  <2>2. CASE UpdateGetKey(p, k)
    BY <1>1, <2>2 DEF UpdateGetKey, Idle, SeenInv, Covered
  <2>3. QED
    BY <1>7, <2>1, <2>2
<1>8. CASE RotateBegin(p)
  BY <1>1, <1>8 DEF RotateBegin, Call, SeenInv, Covered
<1>9. CASE RotateLock(p)
  BY <1>1, <1>9 DEF RotateLock, Call, Idle, SeenInv, Covered
<1>10. CASE RotateQuery(p)
  <2> DEFINE c == [call[p] EXCEPT !.pc = "commit"]
  <2>1. call[p].pc = "query" /\ (call' = [call EXCEPT ![p] = Idle] \/ call' = [call EXCEPT ![p] = c])
    BY <1>10 DEF RotateQuery
  <2>2. c \in Call /\ c.pc = "commit" /\ c.seen = call[p].seen
    BY <1>1 DEF Call
  <2> HIDE DEF c
  <2>3. QED
    BY <1>1, <1>4, <2>1, <2>2
<1>11. CASE Retry(p)
  BY <1>1, <1>11 DEF Retry, Call, Idle, SeenInv, Covered
<1>12. ASSUME NEW replied \in BOOLEAN, RotateCommit(p, replied) PROVE Kept
  BY <1>2, <1>3, <1>12 DEF RotateCommit
<1>13. CASE RevokeApply(p)
  BY <1>2, <1>13 DEF RevokeApply
<1>14. CASE UpdateStart(p)
  BY <1>1, <1>14 DEF UpdateStart, Call, SeenInv, Covered
<1>15. CASE UpdateApply(p)
  BY <1>2, <1>3, <1>15 DEF UpdateApply
<1>16. CASE CallFails(p)
  BY <1>1, <1>16 DEF CallFails, SeenInv, Covered
<1>17. QED
  BY <1>5, <1>6, <1>7, <1>8, <1>9, <1>10, <1>11, <1>12, <1>13, <1>14, <1>15, <1>16
     DEF Start, Step

-----------------------------------------------------------------------------
(* Histories *)

\* The history of a key whose versions are 1..n.
LEMMA HistoryIs ==
    ASSUME Gapless, NEW k \in Keys
    PROVE  /\ Histories[k] = [v \in 1..Latest(rows[k]) |->
                                [status |-> rows[k][v].status, dek |-> rows[k][v].dek]]
           /\ DOMAIN Histories[k] = 1..Latest(rows[k])
           /\ DOMAIN Histories[k] = Visible(rows[k])
  BY LatestFacts DEF Histories

\* A key without versions has the empty history.
LEMMA EmptyHistory ==
    ASSUME Gapless, NEW k \in Keys, Visible(rows[k]) = {}
    PROVE  Histories[k] = Abstract!NoVersions
<1>1. DOMAIN Histories[k] = {}
  BY HistoryIs
<1>2. Histories[k] = [v \in {} |-> [status |-> rows[k][v].status, dek |-> rows[k][v].dek]]
  BY <1>1, HistoryIs
<1>3. QED
  BY <1>2 DEF Abstract!NoVersions

\* A step that changes neither the versions, nor a status or a DEK, changes no
\* history.
LEMMA Unseen ==
    ASSUME \A k \in Keys : Visible(rows'[k]) = Visible(rows[k]),
           \A k \in Keys : \A v \in Visible(rows[k]) :
              rows'[k][v].status = rows[k][v].status /\ rows'[k][v].dek = rows[k][v].dek,
           Gapless
    PROVE  Histories' = Histories
<1>1. \A k \in Keys : /\ Latest(rows[k]) \in 0..MaxVersion
                      /\ Visible(rows[k]) = 1..Latest(rows[k])
  BY LatestFacts
<1>2. \A k \in Keys : Latest(rows'[k]) = Latest(rows[k])
  BY <1>1, LatestIs
<1>3. QED
  BY <1>1, <1>2 DEF Histories

\* The initial table has empty histories.
LEMMA RefinesInit == Init => Abstract!Init
<1> SUFFICES ASSUME Init PROVE Abstract!Init
  OBVIOUS
<1>1. IInv
  BY InductiveInit
<1>2. \A k \in Keys : Visible(rows[k]) = {}
  BY DEF Init, Visible, Present, NoRow
<1>3. \A k \in Keys : Histories[k] = Abstract!NoVersions
  BY <1>1, <1>2, EmptyHistory DEF IInv, TableInv
<1>4. Covered = [p \in Procs |-> {}]
  BY DEF Init, Covered, Idle
<1>5. QED
  BY <1>3, <1>4 DEF Abstract!Init, Histories, Covered

\* An insertion is a Create of the keys it names.
LEMMA RefinesCreate ==
    ASSUME IInv, IInv', NEW p \in Procs, NEW S \in SUBSET Keys, NEW replied \in BOOLEAN,
           CreateKeys(p, S, replied)
    PROVE  (Abstract!Create \/ UNCHANGED Histories) /\ UNCHANGED Covered
<1> DEFINE d == calls + 1
<1>0. UNCHANGED Covered
  BY DEF CreateKeys, Covered
<1>1. CASE ~Insertable(S)
  <2>1. rows' = rows
    BY <1>1 DEF CreateKeys
  <2>2. QED
    BY <1>0, <2>1 DEF Histories
<1>2. CASE Insertable(S)
  <2>1. rows' = [k \in Keys |-> IF k \in S THEN [rows[k] EXCEPT ![1] = NewKeyRow(d)]
                                ELSE rows[k]]
    BY <1>2 DEF CreateKeys
  <2>2. d \in 1..MaxCalls
    BY DEF CreateKeys, IInv, TypeOK
  <2>3. ASSUME NEW k \in S
        PROVE  /\ Histories[k] = Abstract!NoVersions
               /\ Histories'[k] = [v \in 1..1 |-> [status |-> "active", dek |-> d]]
    <3>1. Visible(rows[k]) = {}
      <4>1. 1 \notin Visible(rows[k])
        BY <1>2 DEF Insertable, Visible
      <4>2. QED
        BY <4>1, LatestFacts DEF IInv, TableInv
    <3>2. Histories[k] = Abstract!NoVersions
      BY <3>1, EmptyHistory DEF IInv, TableInv
    <3>3. rows'[k] = [rows[k] EXCEPT ![1] = NewKeyRow(d)] /\ rows[k] \in [Versions -> Row]
      BY <2>1 DEF IInv, TypeOK
    <3>4. 1 \in Versions
      BY KeyStoreAssumption DEF Versions
    <3>5. rows'[k][1] = NewKeyRow(d) /\ \A v \in Versions \ {1} : rows'[k][v] = rows[k][v]
      BY <3>3, <3>4
    <3>6. Visible(rows'[k]) = {1}
      BY <3>1, <3>4, <3>5 DEF Visible, Present, NewKeyRow
    <3>7. Visible(rows'[k]) = 1..1
      BY <3>6
    <3>8. Latest(rows'[k]) = 1
      <4> DEFINE one == 1
      <4>1. one \in 0..MaxVersion
        BY KeyStoreAssumption
      <4>2. Visible(rows'[k]) = 1..one
        BY <3>7
      <4> HIDE DEF one
      <4>3. Latest(rows'[k]) = one
        BY <4>1, <4>2, LatestIs
      <4>4. QED
        BY <4>3 DEF one
    <3>9. QED
      BY <3>2, <3>5, <3>8 DEF Histories, NewKeyRow
  <2>4. ASSUME NEW k \in Keys \ S PROVE Histories'[k] = Histories[k]
    BY <2>1 DEF Histories
  <2>5. Histories' = [k \in Keys |-> IF k \in S
                                     THEN [v \in 1..1 |-> [status |-> "active", dek |-> d]]
                                     ELSE Histories[k]]
    BY <2>3, <2>4 DEF Histories
  <2>6. S \in SUBSET Abstract!Absent
    BY <2>3 DEF Abstract!Absent
  <2>7. QED
    BY <1>0, <2>2, <2>5, <2>6 DEF Abstract!Create, Covered
<1>3. QED
  BY <1>0, <1>1, <1>2

\* The commit of a rotation is a Rotate with the DEK of the call.
LEMMA RefinesRotate ==
    ASSUME IInv, IInv', NEW p \in Procs, NEW replied \in BOOLEAN, RotateCommit(p, replied),
           UNCHANGED Covered
    PROVE  Abstract!Rotate
<1> DEFINE c == call[p]
           k == c.key
           b == c.base
           h == Histories[k]
<1>1. /\ c \in Call /\ k \in Keys /\ b \in Versions /\ b + 1 \in Versions
      /\ Visible(rows[k]) = 1..b /\ Visible(rows'[k]) = 1..(b + 1)
      /\ \A j \in Keys \ {k} : rows'[j] = rows[j]
      /\ \A v \in Versions \ {b, b + 1} : rows'[k][v] = rows[k][v]
      /\ rows'[k][b].status = "rotated" /\ rows'[k][b].dek = rows[k][b].dek
      /\ rows'[k][b + 1] = [status |-> "active", mv |-> b + 1, dek |-> c.dek]
      /\ c.pc = "commit"
  BY RotateCommitRows
<1>2. c.dek \in 1..MaxCalls /\ \A v \in 1..b : rows[k][v].dek # c.dek
  <2>1. DekPending(c) /\ calls \in 0..MaxCalls
    BY DEF IInv, CallInv, TypeOK
  <2>2. QED
    BY <1>1, <2>1, KeyStoreAssumption DEF DekPending, Rotating
<1> HIDE DEF c, k, b
<1>3. b \in 1..MaxVersion /\ b + 1 \in 1..MaxVersion /\ MaxVersion \in Nat
  BY <1>1, KeyStoreAssumption DEF Versions
<1>4. Latest(rows[k]) = b /\ Latest(rows'[k]) = b + 1
  BY <1>1, <1>3, LatestIs
<1>5. h = [v \in 1..b |-> [status |-> rows[k][v].status, dek |-> rows[k][v].dek]]
  BY <1>1, <1>4 DEF Histories
<1>6. Histories'[k] = [v \in 1..(b + 1) |-> [status |-> rows'[k][v].status, dek |-> rows'[k][v].dek]]
  BY <1>1, <1>4 DEF Histories
<1>7. Histories'[k] = Abstract!Rotated(h, b, c.dek)
  <2>1. ASSUME NEW v \in 1..(b + 1)
        PROVE  [status |-> rows'[k][v].status, dek |-> rows'[k][v].dek]
                 = IF v = b + 1 THEN [status |-> "active", dek |-> c.dek]
                   ELSE IF v = b THEN [status |-> "rotated", dek |-> h[v].dek]
                   ELSE h[v]
    <3>1. v \in Versions
      BY <1>3 DEF Versions
    <3>2. CASE v = b + 1
      BY <1>1, <3>2
    <3>3. CASE v = b
      BY <1>1, <1>3, <1>5, <3>3
    <3>4. CASE v # b /\ v # b + 1
      <4>1. v \in 1..b /\ rows'[k][v] = rows[k][v]
        BY <1>1, <1>3, <3>1, <3>4
      <4>2. QED
        BY <1>5, <3>4, <4>1
    <3>5. QED
      BY <3>2, <3>3, <3>4
  <2>2. QED
    BY <1>6, <2>1 DEF Abstract!Rotated
<1>8. \A j \in Keys \ {k} : Histories'[j] = Histories[j]
  BY <1>1 DEF Histories
<1>9. Histories' = [Histories EXCEPT ![k] = Abstract!Rotated(h, b, c.dek)]
  <2> DEFINE r == Abstract!Rotated(h, b, c.dek)
  <2>1. /\ Histories = [j \in Keys |-> Histories[j]]
        /\ Histories' = [j \in Keys |-> Histories'[j]]
    BY DEF Histories
  <2> HIDE DEF h, r
  <2>2. Histories'[k] = r
    BY <1>7 DEF r
  <2>3. QED
    BY <1>1, <1>8, <2>1, <2>2 DEF r
<1>10. k \in Keys \ Abstract!Absent
  <2>1. b \in DOMAIN h
    BY <1>3, <1>5
  <2>2. h # Abstract!NoVersions
    BY <2>1 DEF Abstract!NoVersions
  <2>3. QED
    BY <1>1, <2>2 DEF Abstract!Absent
<1>11. (CHOOSE v \in DOMAIN h : v + 1 \notin DOMAIN h) = b
  <2>1. DOMAIN h = 1..b
    BY <1>5
  <2>2. \A v \in 1..b : (v + 1 \notin 1..b) <=> v = b
    BY <1>3
  <2>3. b \in 1..b
    BY <1>3
  <2>4. QED
    BY <2>1, <2>2, <2>3
<1>12. c.dek \in (1..MaxCalls) \ {h[v].dek : v \in DOMAIN h}
  BY <1>2, <1>5
<1>13. QED
  <2> HIDE DEF h
  <2>1. QED
    BY <1>9, <1>10, <1>11, <1>12 DEF Abstract!Rotate, h, Covered

\* The statement snapshot of a revocation holds all versions of its keys.
LEMMA RefinesLook ==
    ASSUME IInv, SeenInv, NEW p \in Procs, NEW S \in SUBSET Keys, RevokeStart(p, S)
    PROVE  Abstract!Look(p, S)
<1> DEFINE chosen == {kv \in S \X Versions : Present(rows[kv[1]], kv[2])}
<1>1. rows' = rows /\ Covered[p] = {}
  BY DEF RevokeStart, SeenInv, Covered
<1>2. UNCHANGED Histories
  BY <1>1 DEF Histories
<1>3. \A k \in Keys : DOMAIN Histories[k] = Visible(rows[k])
  BY HistoryIs DEF IInv, TableInv
<1>4. Abstract!AllVersions(S) = chosen
  BY <1>3 DEF Abstract!AllVersions, Visible
<1>5. [Idle EXCEPT !.pc = "revoke", !.seen = chosen].seen = chosen
  BY DEF Idle
<1>6. Covered' = [Covered EXCEPT ![p] = chosen]
  BY <1>5 DEF RevokeStart, Covered, IInv, TypeOK
<1> HIDE DEF chosen
<1>7. QED
  BY <1>1, <1>2, <1>4, <1>6 DEF Abstract!Look, Covered

\* The write of a revocation is a Revoke of the versions its statement chose.
LEMMA RefinesRevoke ==
    ASSUME IInv, IInv', NEW p \in Procs, RevokeApply(p),
           Covered' = [Covered EXCEPT ![p] = {}]
    PROVE  Abstract!Revoke(p)
<1> DEFINE c == call[p]
<1>1. c \in Call /\ RevokesRows(c) /\ c.pc = "revoke" /\ Covered[p] = c.seen
  BY DEF IInv, TypeOK, RevokeApply, CallInv, Covered
<1>2. \A k \in Keys, v \in Versions :
        rows'[k][v] = IF <<k, v>> \in c.seen THEN RevokedRow(rows[k][v]) ELSE rows[k][v]
  BY DEF RevokeApply
<1>3. \A k \in Keys, v \in Versions : rows[k][v] \in Row
  BY DEF IInv, TypeOK
<1>4. \A r \in Row : /\ RevokedRow(r).status = "revoked" /\ RevokedRow(r).dek = r.dek
  BY DEF RevokedRow, Row
<1>5. ASSUME NEW k \in Keys
      PROVE  Histories'[k] = Abstract!Revoked(k, Histories[k], c.seen)
  <2>1. ASSUME NEW v \in Versions PROVE Present(rows'[k], v) <=> Present(rows[k], v)
    <3>1. CASE <<k, v>> \in c.seen
      BY <1>1, <1>2, <1>3, <1>4, <3>1 DEF RevokesRows, Present
    <3>2. CASE <<k, v>> \notin c.seen
      BY <1>2, <3>2 DEF Present
    <3>3. QED
      BY <3>1, <3>2
  <2>2. Visible(rows'[k]) = Visible(rows[k])
    BY <2>1 DEF Visible
  <2> DEFINE n == Latest(rows[k])
  <2>3. Latest(rows'[k]) = n
    BY <2>2 DEF Latest
  <2>4. n \in 0..MaxVersion /\ Visible(rows[k]) = 1..n
    BY LatestFacts DEF IInv, TableInv
  <2>5. Histories[k] = [v \in 1..n |-> [status |-> rows[k][v].status, dek |-> rows[k][v].dek]]
    BY DEF Histories
  <2>6. Histories'[k] = [v \in 1..n |-> [status |-> rows'[k][v].status, dek |-> rows'[k][v].dek]]
    BY <2>3 DEF Histories
  <2> HIDE DEF n
  <2>7. ASSUME NEW v \in 1..n
        PROVE  [status |-> rows'[k][v].status, dek |-> rows'[k][v].dek]
                 = IF <<k, v>> \in c.seen THEN [status |-> "revoked", dek |-> Histories[k][v].dek]
                   ELSE Histories[k][v]
    <3>1. v \in Versions
      BY <2>4, KeyStoreAssumption DEF Versions
    <3>2. Histories[k][v] = [status |-> rows[k][v].status, dek |-> rows[k][v].dek]
      BY <2>5
    <3>3. CASE <<k, v>> \in c.seen
      BY <1>2, <1>3, <1>4, <3>1, <3>2, <3>3
    <3>4. CASE <<k, v>> \notin c.seen
      BY <1>2, <3>1, <3>2, <3>4
    <3>5. QED
      BY <3>3, <3>4
  <2>8. QED
    BY <2>5, <2>6, <2>7 DEF Abstract!Revoked
<1> HIDE DEF c
<1>6. Histories' = [k \in Keys |-> Abstract!Revoked(k, Histories[k], c.seen)]
  <2>1. Histories' = [k \in Keys |-> Histories'[k]]
    BY DEF Histories
  <2>2. QED
    BY <1>5, <2>1
<1>7. QED
  BY <1>1, <1>6 DEF Abstract!Revoke, Covered

\* A metadata update is invisible in the histories.
LEMMA UpdateUnseen ==
    ASSUME IInv, NEW p \in Procs, UpdateApply(p)
    PROVE  UNCHANGED Histories
<1> DEFINE c == call[p]
<1>1. c \in Call /\ UpdateBehind(c) /\ c.pc = "update"
  BY DEF IInv, TypeOK, CallInv, UpdateApply
<1>2. rows' = [rows EXCEPT ![c.key][c.base].mv = c.mv] /\ rows \in [Keys -> [Versions -> Row]]
  BY DEF UpdateApply, IInv, TypeOK
<1>3. c.key \in Keys
  BY <1>1 DEF Call
<1> HIDE DEF c
<1>4. ASSUME NEW k \in Keys, NEW v \in Versions
      PROVE  rows'[k][v].status = rows[k][v].status /\ rows'[k][v].dek = rows[k][v].dek
  BY <1>2, <1>3 DEF Row
<1>5. \A k \in Keys : Visible(rows'[k]) = Visible(rows[k])
  BY <1>4 DEF Visible, Present
<1>6. QED
  BY <1>4, <1>5, Unseen DEF IInv, TableInv, Visible

\* Every step of the store maps to a step of the histories or to a stutter.
LEMMA RefinesNext ==
    IInv /\ IInv' /\ SeenInv /\ [Next]_vars => SeenInv' /\ [Abstract!Next]_<<Histories, Covered>>
<1> SUFFICES ASSUME IInv, IInv', SeenInv, [Next]_vars
             PROVE  SeenInv' /\ [Abstract!Next]_<<Histories, Covered>>
  OBVIOUS
<1> DEFINE Mapped == [Abstract!Next]_<<Histories, Covered>>
<1>1. ASSUME rows' = rows PROVE UNCHANGED Histories
  BY <1>1 DEF Histories
<1>2. CASE UNCHANGED vars
  BY <1>1, <1>2 DEF vars, Covered, SeenInv
<1>3. ASSUME NEW p \in Procs, Start(p) PROVE SeenInv' /\ Mapped
  <2>1. SeenInv'
    BY <1>3, SeenSteps
  <2>2. ASSUME NEW S \in SUBSET Keys, NEW replied \in BOOLEAN, CreateKeys(p, S, replied)
        PROVE  Mapped
    BY <2>2, RefinesCreate DEF Abstract!Next
  <2>3. ASSUME NEW S \in SUBSET Keys, RevokeStart(p, S) PROVE Mapped
    BY <2>3, RefinesLook DEF Abstract!Next
  <2>4. ASSUME NEW k \in Keys, RotateGetKey(p, k) \/ UpdateGetKey(p, k) PROVE Mapped
    <3>1. rows' = rows /\ call' \in [Procs -> Call] /\ call \in [Procs -> Call]
      BY <2>4 DEF RotateGetKey, UpdateGetKey, IInv, TypeOK
    <3>2. call[p].seen = {} /\ call'[p].seen = {}
      <4>1. call[p].pc = "idle" /\ call[p].seen = {} /\ Idle \in Call /\ Idle.seen = {}
        BY <2>4, IdleType DEF RotateGetKey, UpdateGetKey, SeenInv, Idle
      <4>2. CASE RotateGetKey(p, k)
        BY <3>1, <4>1, <4>2 DEF RotateGetKey, Call
      <4>3. CASE UpdateGetKey(p, k)
        BY <3>1, <4>1, <4>3 DEF UpdateGetKey, Call
      <4>4. QED
        BY <2>4, <4>2, <4>3
    <3>3. \A q \in Procs \ {p} : call'[q] = call[q]
      BY <2>4 DEF RotateGetKey, UpdateGetKey, IInv, TypeOK
    <3>4. QED
      BY <1>1, <3>1, <3>2, <3>3 DEF Covered
  <2>5. QED
    BY <1>3, <2>1, <2>2, <2>3, <2>4 DEF Start
<1>4. ASSUME NEW p \in Procs, Step(p) \/ CallFails(p) PROVE SeenInv' /\ Mapped
  <2>1. SeenInv'
    BY <1>4, SeenSteps
  <2>2. ASSUME NEW S \in SUBSET Keys, RevokeStart(p, S) PROVE FALSE
    <3>1. call[p].pc = "idle"
      BY <2>2 DEF RevokeStart
    <3>2. ~CallFails(p)
      BY <3>1 DEF CallFails
    <3>3. ~Step(p)
      BY <3>1 DEF Step, RotateBegin, RotateLock, RotateQuery, Retry, RotateCommit,
                  RevokeApply, UpdateStart, UpdateApply
    <3>4. QED
      BY <1>4, <3>2, <3>3
  <2>3. CASE RevokeApply(p) /\ Covered' = [Covered EXCEPT ![p] = {}]
    BY <2>1, <2>3, RefinesRevoke DEF Abstract!Next
  <2>4. CASE CallFails(p) /\ Covered' = [Covered EXCEPT ![p] = {}]
    <3>1. Abstract!GiveUp(p)
      BY <1>1, <2>4 DEF CallFails, Abstract!GiveUp, Covered
    <3>2. QED
      BY <2>1, <3>1 DEF Abstract!Next
  <2>5. CASE UNCHANGED Covered
    <3>1. ASSUME NEW replied \in BOOLEAN, RotateCommit(p, replied) PROVE Mapped
      BY <2>5, <3>1, RefinesRotate DEF Abstract!Next
    <3>2. CASE UpdateApply(p)
      BY <2>1, <2>5, <3>2, UpdateUnseen
    <3>3. CASE RevokeApply(p)
      <4>1. Covered[p] = {} /\ Covered' = [Covered EXCEPT ![p] = {}]
        BY <2>5, <3>3, IdleType DEF RevokeApply, Finish, Covered, Idle
      <4>2. QED
        BY <2>1, <3>3, <4>1, RefinesRevoke DEF Abstract!Next
    <3>4. CASE rows' = rows
      BY <1>1, <2>1, <2>5, <3>4
    <3>5. QED
      BY <1>4, <2>1, <3>1, <3>2, <3>3, <3>4
         DEF Step, CallFails, RotateBegin, RotateLock, RotateQuery, Retry, UpdateStart
  <2>6. QED
    BY <1>4, <2>1, <2>2, <2>3, <2>4, <2>5, SeenSteps
<1>5. QED
  BY <1>2, <1>3, <1>4 DEF Next

\* The key store implements VersionedKeys: transactions, locks, retries and
\* metadata updates included, clients see atomic creations and rotations with a
\* fresh DEK, and revocations of all versions there were when the statement
\* looked, for any number of keys and concurrent calls.
THEOREM Refinement == Spec => ImplementsVersionedKeys
<1>1. Init => SeenInv
  BY DEF Init, Idle, SeenInv
<1>2. QED
  BY <1>1, RefinesInit, RefinesNext, InductiveInvariant, PTL
     DEF Spec, ImplementsVersionedKeys, Abstract!Spec, Abstract!vars, Covered
=============================================================================
