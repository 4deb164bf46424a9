------------------------------- MODULE KeyStore -------------------------------
(***************************************************************************)
(* The keys table (migrations/001, PRIMARY KEY (id, version)) and the      *)
(* service calls that change it: CreateKey and BatchCreateKeys, the key    *)
(* rotation of RotateKey and BatchRotateKeys, RevokeKey and                *)
(* BatchRevokeKeys, UpdateKeyMetadata.                                     *)
(*                                                                         *)
(* Every call is a process.  A step is one interaction with PostgreSQL:    *)
(*   - a rotation runs in a SERIALIZABLE transaction: its snapshot is      *)
(*     taken by the first statement, it takes a transaction-scoped         *)
(*     advisory lock, and its UPDATE fails with 40001 if the row it        *)
(*     targets was written after the snapshot;                             *)
(*   - revoke and metadata update are autocommitted READ COMMITTED         *)
(*     statements: they choose their rows from a statement snapshot, wait  *)
(*     for a row that an open transaction has written, and then write it.  *)
(* A DEK is identified by the number of the call that generated it, and    *)
(* of the metadata document only its "version" member is kept, because     *)
(* that is the member the rotation query computes with.                    *)
(***************************************************************************)
EXTENDS Integers, FiniteSets

CONSTANTS Keys,        \* key ids
          Procs,       \* concurrent service calls
          MaxVersion,  \* bound: versions of a key
          MaxCalls,    \* bound: calls that generate a DEK (creations, rotations)
          MaxRetries   \* transaction attempts (maxRetries = 5 in the code)

ASSUME KeyStoreAssumption ==
    /\ MaxVersion \in Nat \ {0}
    /\ MaxCalls \in Nat \ {0}
    /\ MaxRetries \in Nat \ {0}
    /\ Keys # {}

VARIABLES rows,   \* rows[k][v]: the committed row (k, v) of table keys
          call,   \* call[p]: the progress of the service call run by p
          calls,  \* how many DEK-generating calls have started
          acked   \* history: the versions reported to clients as created

vars == <<rows, call, calls, acked>>

-----------------------------------------------------------------------------
(* Types *)

Versions == 1..MaxVersion

Statuses == {"active", "rotated", "revoked"}

NoRow == [status |-> "none", mv |-> 0, dek |-> 0]

Row == [status: Statuses \cup {"none"}, mv: 0..MaxVersion, dek: 0..MaxCalls]

Idle == [pc |-> "idle", key |-> CHOOSE k \in Keys : TRUE, dek |-> 0,
         tries |-> 0, base |-> 0, old |-> NoRow, touched |-> FALSE, mv |-> 0,
         seen |-> {}]

Call == [pc: {"idle", "begin", "lock", "query", "commit", "revoke", "merge", "update"},
         key: Keys,              \* the key of a rotation or metadata update
         dek: 0..MaxCalls,       \* the DEK the call generated
         tries: 0..(MaxRetries - 1),  \* failed transaction attempts
         base: 0..MaxVersion,    \* MAX(version) in the snapshot
         old: Row,               \* row base in the snapshot of a rotation
         touched: BOOLEAN,       \* row base was written after the snapshot
         mv: 0..MaxVersion,      \* metadata.version read by UpdateKeyMetadata
         seen: SUBSET (Keys \X Versions)]  \* rows a revoke statement chose

Ack == [key: Keys, version: Versions, dek: 0..MaxCalls]

\* Rows, calls and acknowledgements have their types; a rotation keeps within its
\* retries.
TypeOK ==
    /\ rows \in [Keys -> [Versions -> Row]]
    /\ call \in [Procs -> Call]
    /\ calls \in 0..MaxCalls
    /\ acked \subseteq Ack

-----------------------------------------------------------------------------
(* The table *)

Present(t, v) == t[v].status # "none"

Visible(t) == {v \in Versions : Present(t, v)}

\* SELECT MAX(version), and the row of ORDER BY version DESC LIMIT 1.
Latest(t) ==
    IF Visible(t) = {} THEN 0
    ELSE CHOOSE v \in Visible(t) : \A w \in Visible(t) : w <= v

\* Mutant: a write is not noticed by the transactions that began before it.
TouchMissing(c, W) == c

\* A commit writes the rows W: an open snapshot whose target row is among them
\* can no longer update it (40001, could not serialize access).
Touch(c, W) ==
    IF c.pc \in {"lock", "query", "commit"} /\ <<c.key, c.base>> \in W
    THEN [c EXCEPT !.touched = TRUE]
    ELSE c

\* p's call returns; the other calls notice the rows W it wrote.
Finish(p, W) ==
    call' = [q \in Procs |-> IF q = p THEN Idle ELSE Touch(call[q], W)]

\* Row locks: the open rotation that has executed its query holds the row it
\* updated until it commits or rolls back.
RowLocked(k, v) ==
    \E q \in Procs : call[q].pc = "commit" /\ call[q].key = k /\ call[q].base = v

\* pg_try_advisory_xact_lock: held from the successful try to the end of the
\* transaction.
LockHeld(k) ==
    \E q \in Procs : call[q].pc \in {"query", "commit"} /\ call[q].key = k

-----------------------------------------------------------------------------
(* CreateKey and BatchCreateKeys *)

NewKeyRow(d) == [status |-> "active", mv |-> 1, dek |-> d]

\* Mutant: an insert that overwrites the row instead of failing with 23505.
InsertableUpsert(S) == TRUE

\* COPY fails as a whole if one of the rows violates the primary key.
Insertable(S) == \A k \in S : ~Present(rows[k], 1)

CreateKeys(p, S, replied) ==
    /\ call[p].pc = "idle"
    /\ calls < MaxCalls
    /\ calls' = calls + 1
    /\ \/ /\ Insertable(S)
          /\ rows' = [k \in Keys |-> IF k \in S
                                     THEN [rows[k] EXCEPT ![1] = NewKeyRow(calls + 1)]
                                     ELSE rows[k]]
          /\ acked' = acked \cup
                {[key |-> k, version |-> 1, dek |-> calls + 1] :
                    k \in IF replied THEN S ELSE {}}
       \/ /\ ~Insertable(S)
          /\ UNCHANGED <<rows, acked>>
    /\ UNCHANGED call

-----------------------------------------------------------------------------
(* Rotation: processRotation, then PSQLAdapter.RotateKey *)

\* Mutant: the DEK of the call before is used again.
RotateGetKeySameDek(p, k) ==
    /\ call[p].pc = "idle"
    /\ calls < MaxCalls
    /\ Latest(rows[k]) # 0
    /\ calls' = calls + 1
    /\ call' = [call EXCEPT ![p] = [Idle EXCEPT !.pc = "begin", !.key = k,
                                       !.dek = calls]]
    /\ UNCHANGED <<rows, acked>>

\* GetKey, a fresh DEK, EncryptDEK.
RotateGetKey(p, k) ==
    /\ call[p].pc = "idle"
    /\ calls < MaxCalls
    /\ Latest(rows[k]) # 0
    /\ calls' = calls + 1
    /\ call' = [call EXCEPT ![p] = [Idle EXCEPT !.pc = "begin", !.key = k,
                                       !.dek = calls + 1]]
    /\ UNCHANGED <<rows, acked>>

\* BeginTx; the snapshot is that of the first statement, the lock request.
RotateBegin(p) ==
    /\ call[p].pc = "begin"
    /\ call' = [call EXCEPT ![p].pc = "lock",
                            ![p].base = Latest(rows[call[p].key]),
                            ![p].old = IF Latest(rows[call[p].key]) = 0 THEN NoRow
                                       ELSE rows[call[p].key][Latest(rows[call[p].key])],
                            ![p].touched = FALSE]
    /\ UNCHANGED <<rows, calls, acked>>

\* TryAcquireLock; ErrKeyRotationLocked is not retried.
RotateLock(p) ==
    /\ call[p].pc = "lock"
    /\ call' = [call EXCEPT ![p] = IF LockHeld(@.key) THEN Idle
                                   ELSE [@ EXCEPT !.pc = "query"]]
    /\ UNCHANGED <<rows, calls, acked>>

\* Mutant: the metadata version is incremented twice.
NewVersionRowTwice(old, d) == [status |-> "active", mv |-> old.mv + 2, dek |-> d]

\* The row new_key inserts: jsonb_set(metadata, '{version}', version + 1).
NewVersionRow(old, d) == [status |-> "active", mv |-> old.mv + 1, dek |-> d]

\* (metadata->>'version')::int + 1
NewVersion(c) == rows[c.key][c.base].mv + 1

\* rotateQuery: 40001 is Retry's business; no row, or a new version that
\* violates the primary key (23505), ends the call with an error.
RotateQuery(p) ==
    LET c == call[p] IN
    /\ c.pc = "query"
    /\ ~c.touched
    /\ ~RowLocked(c.key, c.base)
    /\ \/ /\ c.base = 0
          /\ call' = [call EXCEPT ![p] = Idle]
       \/ /\ c.base # 0
          /\ NewVersion(c) \in Versions
          /\ call' = [call EXCEPT ![p] = IF Present(rows[c.key], NewVersion(c)) THEN Idle
                                         ELSE [@ EXCEPT !.pc = "commit"]]
    /\ UNCHANGED <<rows, calls, acked>>

\* Mutant: the old version keeps its status.
RotatedRowsNoDemotion(t, c, v) ==
    [t EXCEPT ![v] = NewVersionRow(t[c.base], c.dek)]

\* The effect of old_key and new_key on the rows of the key.
RotatedRows(t, c, v) ==
    [t EXCEPT ![c.base].status = "rotated", ![v] = NewVersionRow(t[c.base], c.dek)]

\* tx.Commit.  The reply is lost if the connection breaks after the commit:
\* then the transaction manager reports a failure that did take effect.
RotateCommit(p, replied) ==
    LET c == call[p]
        v == NewVersion(c)
    IN  /\ c.pc = "commit"
        /\ rows' = [rows EXCEPT ![c.key] = RotatedRows(@, c, v)]
        /\ acked' = acked \cup (IF replied
                                THEN {[key |-> c.key, version |-> v, dek |-> c.dek]}
                                ELSE {})
        /\ Finish(p, {c.key} \X {c.base, v})
        /\ UNCHANGED calls

\* Mutant: the retry counter is never incremented.
RetryForever(p) ==
    /\ call[p].pc \in {"query", "commit"}
    /\ call' = [call EXCEPT ![p].pc = "begin"]
    /\ UNCHANGED <<rows, calls, acked>>

\* Mutant: one attempt too many.
RetryOffByOne(p) ==
    /\ call[p].pc \in {"query", "commit"}
    /\ call' = [call EXCEPT ![p] = IF @.tries < MaxRetries
                                   THEN [@ EXCEPT !.pc = "begin", !.tries = @ + 1]
                                   ELSE Idle]
    /\ UNCHANGED <<rows, calls, acked>>

\* 40001, on the query or on commit: roll back, sleep, start again, at most
\* MaxRetries attempts.  PostgreSQL may also raise it spuriously.
Retry(p) ==
    LET c == call[p] IN
    /\ c.pc \in {"query", "commit"}
    /\ call' = [call EXCEPT ![p] = IF c.tries + 1 < MaxRetries
                                   THEN [c EXCEPT !.pc = "begin", !.tries = c.tries + 1]
                                   ELSE Idle]
    /\ UNCHANGED <<rows, calls, acked>>

-----------------------------------------------------------------------------
(* RevokeKey and BatchRevokeKeys *)

\* Mutant: the latest version is left out, as if revoking were for old versions.
RevokeStartOlder(p, S) ==
    /\ call[p].pc = "idle"
    /\ call' = [call EXCEPT ![p] = [Idle EXCEPT !.pc = "revoke",
                    !.seen = {kv \in S \X Versions : kv[2] < Latest(rows[kv[1]])}]]
    /\ UNCHANGED <<rows, calls, acked>>

RevokeStart(p, S) ==
    /\ call[p].pc = "idle"
    /\ call' = [call EXCEPT ![p] = [Idle EXCEPT !.pc = "revoke",
                    !.seen = {kv \in S \X Versions : Present(rows[kv[1]], kv[2])}]]
    /\ UNCHANGED <<rows, calls, acked>>

RevokedRow(r) == [r EXCEPT !.status = "revoked"]

RevokeApply(p) ==
    LET c == call[p] IN
    /\ c.pc = "revoke"
    /\ \A kv \in c.seen : ~RowLocked(kv[1], kv[2])
    /\ rows' = [k \in Keys |-> [v \in Versions |->
                    IF <<k, v>> \in c.seen THEN RevokedRow(rows[k][v]) ELSE rows[k][v]]]
    /\ Finish(p, c.seen)
    /\ UNCHANGED <<calls, acked>>

-----------------------------------------------------------------------------
(* UpdateKeyMetadata *)

\* Reads the latest key and edits its metadata in memory.
UpdateGetKey(p, k) ==
    /\ call[p].pc = "idle"
    /\ Latest(rows[k]) # 0
    /\ call' = [call EXCEPT ![p] = [Idle EXCEPT !.pc = "merge", !.key = k,
                                       !.mv = rows[k][Latest(rows[k])].mv]]
    /\ UNCHANGED <<rows, calls, acked>>

UpdateStart(p) ==
    /\ call[p].pc = "merge"
    /\ call' = [call EXCEPT ![p].pc = "update",
                            ![p].base = Latest(rows[call[p].key])]
    /\ UNCHANGED <<rows, calls, acked>>

\* Mutant: the whole row is written back as it was when the key was created.
UpdateApplyWholeRow(p) ==
    LET c == call[p] IN
    /\ c.pc = "update"
    /\ ~RowLocked(c.key, c.base)
    /\ rows' = [rows EXCEPT ![c.key][c.base].mv = c.mv, ![c.key][c.base].status = "active"]
    /\ Finish(p, {<<c.key, c.base>>})
    /\ UNCHANGED <<calls, acked>>

UpdateApply(p) ==
    LET c == call[p] IN
    /\ c.pc = "update"
    /\ ~RowLocked(c.key, c.base)
    /\ rows' = [rows EXCEPT ![c.key][c.base].mv = c.mv]
    /\ Finish(p, {<<c.key, c.base>>})
    /\ UNCHANGED <<calls, acked>>

-----------------------------------------------------------------------------

\* Any other error or timeout: the transaction is rolled back, the call fails.
CallFails(p) ==
    /\ call[p].pc # "idle"
    /\ call' = [call EXCEPT ![p] = Idle]
    /\ UNCHANGED <<rows, calls, acked>>

Init ==
    /\ rows = [k \in Keys |-> [v \in Versions |-> NoRow]]
    /\ call = [p \in Procs |-> Idle]
    /\ calls = 0
    /\ acked = {}

Start(p) ==
    \/ \E S \in SUBSET Keys \ {{}}, replied \in BOOLEAN : CreateKeys(p, S, replied)
    \/ \E S \in SUBSET Keys \ {{}} : RevokeStart(p, S)
    \/ \E k \in Keys : RotateGetKey(p, k) \/ UpdateGetKey(p, k)

Step(p) ==
    \/ RotateBegin(p) \/ RotateLock(p) \/ RotateQuery(p) \/ Retry(p)
    \/ \E replied \in BOOLEAN : RotateCommit(p, replied)
    \/ RevokeApply(p)
    \/ UpdateStart(p) \/ UpdateApply(p)

Next == \E p \in Procs : Start(p) \/ Step(p) \/ CallFails(p)

Spec == Init /\ [][Next]_vars

\* The goroutine of a call is scheduled, and PostgreSQL answers its statements.
FairSpec == Spec /\ \A p \in Procs : WF_vars(Step(p))

-----------------------------------------------------------------------------
(* Properties *)

\* The versions of a key are numbered 1, 2, ... without a gap, and the version
\* in a row's metadata, from which the rotation query computes the next number,
\* is never ahead of the row's own: a rotation either creates the successor of
\* the latest version or fails on the primary key, whatever metadata updates
\* and retries it is interleaved with.
VersionsContiguous ==
    \A k \in Keys : \A v \in Visible(rows[k]) :
        /\ rows[k][v].mv \in 1..v
        /\ v > 1 => Present(rows[k], v - 1)

\* Only the latest version of a key is active: the demotion of the old version
\* and the insertion of the new one are never separated, not by a retry, a lost
\* reply or a rotation that works from an old snapshot.
OnlyLatestActive ==
    \A k \in Keys, v \in Versions :
        rows[k][v].status = "active" => v = Latest(rows[k])

\* What RotateKey or CreateKey reported to a client stays in the table: the
\* version it named holds the DEK it returned.
AckedDurable ==
    \A a \in acked : /\ Present(rows[a.key], a.version)
                     /\ rows[a.key][a.version].dek = a.dek

\* A call creates at most one version of a key, although the transaction manager
\* runs its transaction up to MaxRetries times.
OneVersionPerCall ==
    \A k \in Keys : \A v, w \in Visible(rows[k]) :
        rows[k][v].dek = rows[k][w].dek => v = w

\* A rotation about to commit replaces exactly the row its snapshot saw: a
\* revocation or metadata update that came between forces a retry.
RotationIsolated ==
    \A p \in Procs : LET c == call[p] IN
        c.pc = "commit" => c.base # 0 /\ rows[c.key][c.base] = c.old

\* The status of a version never goes back to active, and a revoked version
\* stays revoked once a newer one exists.
StatusOrder ==
    [][\A k \in Keys : \A v \in Visible(rows[k]) :
        /\ rows[k][v].status # "active" => rows'[k][v].status # "active"
        /\ rows[k][v].status = "revoked" /\ v < Latest(rows[k])
              => rows'[k][v].status = "revoked"]_vars

\* Every call returns: no wait on a row or an advisory lock is for ever and the
\* retry loop ends.
CallsReturn == \A p \in Procs : call[p].pc # "idle" ~> call[p].pc = "idle"

\* The histories of the table: of every version its status and its DEK.
Histories ==
    [k \in Keys |-> [v \in 1..Latest(rows[k]) |->
                        [status |-> rows[k][v].status, dek |-> rows[k][v].dek]]]

Abstract == INSTANCE VersionedKeys WITH
    Deks <- 1..MaxCalls, Callers <- Procs,
    versions <- Histories, revoking <- [p \in Procs |-> call[p].seen]

\* Transactions, locks, retries, lost replies and whole-document metadata writes
\* are invisible in the histories: seen from outside, the keys change by atomic
\* creations and rotations with a fresh DEK, and by revocations that cover all
\* versions there were at one moment of the call, the latest included, or none.
ImplementsVersionedKeys == Abstract!Spec

\* docs/API_REFERENCE.md, RevokeKey: "Revokes all versions of a key, making it
\* unusable": a key whose versions are all revoked has no usable version later.
RevokedIsFinal ==
    [][\A k \in Keys :
        (/\ Visible(rows[k]) # {}
         /\ \A v \in Visible(rows[k]) : rows[k][v].status = "revoked")
        => \A v \in Visible(rows'[k]) : rows'[k][v].status = "revoked"]_vars
=============================================================================
