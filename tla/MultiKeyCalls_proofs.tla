------------------------- MODULE MultiKeyCalls_proofs -------------------------
(***************************************************************************)
(* Proofs about module MultiKeyCalls, for any keys, page sizes, batch      *)
(* sizes and bounds.  The invariant has a part for each kind of call:      *)
(* where a listing stands, what the goroutines of BatchGetKeys have        *)
(* answered, and what the update loop has recorded of the items it has     *)
(* read.                                                                   *)
(***************************************************************************)
EXTENDS MultiKeyCalls, FiniteSetTheorems, TLAPS

\* A version was listed at most once, and while it is the latest of its key it is
\* not older than the cursor, so that no further page can have it.
ListInv ==
    client.pc \in {"list", "listed"} =>
        \A k \in Keys, v \in 1..MaxVersion :
            /\ client.listed[<<k, v>>] \in 0..1
            /\ client.listed[<<k, v>>] = 1 =>
                 /\ v <= rows[k].version
                 /\ v = rows[k].version => rows[k].created >= client.cursor

\* An item that is done has its own answer, computed from the one snapshot.
GetInv ==
    client.pc \in {"get", "got"} =>
        /\ DOMAIN client.snapshot = DOMAIN client.items
        /\ DOMAIN client.state = DOMAIN client.items
        /\ DOMAIN client.results = DOMAIN client.items
        /\ \A i, j \in DOMAIN client.items :
             client.items[i] = client.items[j] => client.snapshot[i] = client.snapshot[j]
        /\ \A i \in DOMAIN client.items :
             IF client.state[i] = "done"
             THEN client.results[i] = Answer(client, i, i \in client.failed)
             ELSE client.pc = "get" /\ i \notin client.failed

\* Before the reply, the items read so far that failed have one error each and
\* nothing else has a result.
ReplyInv ==
    client.pc \in {"read", "write", "replied"} =>
        /\ DOMAIN client.errors = DOMAIN client.items
        /\ DOMAIN client.successes = DOMAIN client.items
        /\ client.pc = "read" => client.next \in DOMAIN client.items
        /\ client.pc \in {"read", "write"} =>
             \A i \in DOMAIN client.items :
                /\ client.successes[i] = 0
                /\ client.errors[i] = (IF i \in client.failed THEN 1 ELSE 0)
                /\ i \in client.failed => i < client.next

IInv == TypeOK /\ ListInv /\ GetInv /\ ReplyInv

-----------------------------------------------------------------------------
(* The kinds of calls *)

\* Which record the client's call is.
LEMMA ClientKind ==
    ASSUME TypeOK
    PROVE  /\ client.pc \in {"list", "listed"} => client \in Listing
           /\ client.pc \in {"get", "got"} =>
                client \in GetCall /\ Cardinality(Running(client)) <= MaxConcurrency
           /\ client.pc \in {"read", "write", "replied"} => client \in ListCall
           /\ client = Idle => client.pc = "idle"
  BY DEF TypeOK, Idle

\* After a step there is a listing ...
LEMMA ListKind ==
    ASSUME now' \in 0..MaxTime, rows' \in [Keys -> Row], client' \in Listing, ListInv'
    PROVE  IInv'
<1>1. client'.pc \in {"list", "listed"}
  BY DEF Listing
<1>2. TypeOK'
  BY <1>1 DEF TypeOK
<1>3. QED
  BY <1>1, <1>2 DEF IInv, GetInv, ReplyInv

\* ... or a BatchGetKeys ...
LEMMA GetKind ==
    ASSUME now' \in 0..MaxTime, rows' \in [Keys -> Row],
           client' \in GetCall, Cardinality(Running(client')) <= MaxConcurrency, GetInv'
    PROVE  IInv'
<1>1. client'.pc \in {"get", "got"}
  BY DEF GetCall
<1>2. TypeOK'
  BY <1>1 DEF TypeOK
<1>3. QED
  BY <1>1, <1>2 DEF IInv, ListInv, ReplyInv

\* ... or a call about metadata ...
LEMMA ReplyKind ==
    ASSUME now' \in 0..MaxTime, rows' \in [Keys -> Row],
           client' \in ListCall, ReplyInv'
    PROVE  IInv'
<1>1. client'.pc \in {"read", "write", "replied"}
  BY DEF ListCall
<1>2. TypeOK'
  BY <1>1 DEF TypeOK
<1>3. QED
  BY <1>1, <1>2 DEF IInv, ListInv, GetInv

\* ... or none.
LEMMA IdleKind ==
    ASSUME now' \in 0..MaxTime, rows' \in [Keys -> Row], client' = Idle
    PROVE  IInv'
<1>1. client'.pc = "idle"
  BY DEF Idle
<1>2. TypeOK'
  BY DEF TypeOK
<1>3. QED
  BY <1>1, <1>2 DEF IInv, ListInv, GetInv, ReplyInv

-----------------------------------------------------------------------------
(* Batches *)

\* A batch is a sequence of at most MaxItems members.
LEMMA BatchFacts ==
    ASSUME NEW S, NEW f \in Batches(S)
    PROVE  \E n \in 1..MaxItems :
              /\ DOMAIN f = 1..n /\ Len(f) = n /\ f \in [1..n -> S]
              /\ \A i \in 1..n : f[i] \in S
<1>1. PICK n \in 1..MaxItems : f \in [1..n -> S]
  BY DEF Batches
<1>2. f \in Seq(S) /\ Len(f) = n
  BY <1>1, MultiKeyAssumption
<1>3. QED
  BY <1>1, <1>2

\* Each of its items is one of them.
LEMMA BatchItem ==
    ASSUME NEW S, NEW f \in Batches(S), NEW i \in DOMAIN f
    PROVE  f[i] \in S
  BY BatchFacts

\* Anything with a value for each item is one.
LEMMA BatchIntro ==
    ASSUME NEW S, NEW n \in 1..MaxItems, NEW f \in [1..n -> S]
    PROVE  f \in Batches(S) /\ DOMAIN f = 1..n
  BY DEF Batches

\* A new value for one item.
LEMMA BatchUpdate ==
    ASSUME NEW S, NEW f \in Batches(S), NEW i \in DOMAIN f, NEW v \in S
    PROVE  /\ [f EXCEPT ![i] = v] \in Batches(S) /\ DOMAIN [f EXCEPT ![i] = v] = DOMAIN f
           /\ \A j \in DOMAIN f : [f EXCEPT ![i] = v][j] = IF j = i THEN v ELSE f[j]
<1>1. PICK n \in 1..MaxItems : DOMAIN f = 1..n /\ f \in [1..n -> S]
  BY BatchFacts
<1>2. [f EXCEPT ![i] = v] \in [1..n -> S]
  BY <1>1
<1>3. QED
  BY <1>1, <1>2, BatchIntro

-----------------------------------------------------------------------------
(* Other clients *)

\* The initial states.
LEMMA InitIInv == Init => IInv
<1> SUFFICES ASSUME Init PROVE IInv
  OBVIOUS
<1>1. TypeOK
  BY MultiKeyAssumption DEF Init, TypeOK, Row
<1>2. client.pc = "idle"
  BY DEF Init, Idle
<1>3. QED
  BY <1>1, <1>2 DEF IInv, ListInv, GetInv, ReplyInv

\* A row of the table.
LEMMA RowType ==
    ASSUME NEW v \in 1..MaxVersion, NEW s \in 0..MaxTime
    PROVE  LET r == [version |-> v, created |-> s]
           IN  r \in Row /\ r # Absent /\ r.version = v /\ r.created = s
  BY MultiKeyAssumption DEF Row, Absent

\* What is in the table of a key.
LEMMA PresentType ==
    ASSUME TypeOK, NEW k \in Keys
    PROVE  /\ rows[k].created \in 0..MaxTime /\ rows[k].version \in 0..MaxVersion
           /\ Present(k) => rows[k].version \in 1..MaxVersion
  BY MultiKeyAssumption DEF TypeOK, Row, Absent, Present

\* A new latest version of k leaves the rest of the invariant alone: it was not
\* listed before.
LEMMA WriteStep ==
    ASSUME IInv, NEW k \in Keys, NEW r \in Row, r.version = rows[k].version + 1,
           rows' = [rows EXCEPT ![k] = r], UNCHANGED <<now, client>>
    PROVE  IInv'
<1>1. TypeOK'
  BY DEF IInv, TypeOK, Running
<1>2. GetInv' /\ ReplyInv'
  BY DEF IInv, GetInv, ReplyInv, Answer
<1>3. ASSUME client.pc \in {"list", "listed"}, NEW l \in Keys, NEW v \in 1..MaxVersion
      PROVE  /\ client.listed[<<l, v>>] \in 0..1
             /\ client.listed[<<l, v>>] = 1 =>
                  /\ v <= rows'[l].version
                  /\ v = rows'[l].version => rows'[l].created >= client.cursor
  <2>1. /\ client.listed[<<l, v>>] \in 0..1
        /\ client.listed[<<l, v>>] = 1 =>
             /\ v <= rows[l].version
             /\ v = rows[l].version => rows[l].created >= client.cursor
    BY <1>3 DEF IInv, ListInv
  <2>2. CASE l = k
    <3>1. rows'[l].version = rows[l].version + 1 /\ rows[l].version \in 0..MaxVersion
      BY <2>2, PresentType DEF IInv, TypeOK
    <3>2. QED
      BY <2>1, <3>1, MultiKeyAssumption
  <2>3. CASE l # k
    BY <2>1, <2>3 DEF IInv, TypeOK
  <2>4. QED
    BY <2>2, <2>3
<1>4. ListInv'
  BY <1>3 DEF ListInv
<1>5. QED
  BY <1>1, <1>2, <1>4 DEF IInv

\* A key is created.
LEMMA CreateStep ==
    ASSUME IInv, NEW k \in Keys, NEW s \in Stamps, Create(k, s)
    PROVE  IInv'
<1>1. s \in 0..MaxTime /\ 1 \in 1..MaxVersion
  BY MultiKeyAssumption DEF IInv, TypeOK, Stamps
<1> DEFINE r == [version |-> 1, created |-> s]
<1>2. r \in Row /\ r.version = 1
  BY <1>1, RowType
<1>3. rows' = [rows EXCEPT ![k] = r] /\ ~Present(k) /\ UNCHANGED <<now, client>>
  BY DEF Create
<1>4. rows[k].version = 0
  BY <1>3 DEF Present, Absent
<1> HIDE DEF r
<1>5. r.version = rows[k].version + 1
  BY <1>2, <1>4
<1>6. QED
  BY <1>2, <1>3, <1>5, WriteStep

\* A key is rotated.
LEMMA RotateStep ==
    ASSUME IInv, NEW k \in Keys, NEW s \in Stamps, Rotate(k, s)
    PROVE  IInv'
<1> DEFINE v == rows[k].version + 1
           r == [version |-> v, created |-> s]
<1>1. s \in 0..MaxTime /\ v \in 1..MaxVersion
  BY PresentType, MultiKeyAssumption DEF IInv, TypeOK, Stamps, Rotate
<1>2. rows' = [rows EXCEPT ![k] = r] /\ UNCHANGED <<now, client>>
  BY DEF Rotate
<1>3. r \in Row /\ r.version = v
  BY <1>1, RowType
<1> HIDE DEF r
<1>4. QED
  BY <1>2, <1>3, WriteStep

\* Time passes.
LEMMA TickStep ==
    ASSUME IInv, Tick
    PROVE  IInv'
<1>1. now' \in 0..MaxTime /\ UNCHANGED <<rows, client>>
  BY MultiKeyAssumption DEF IInv, TypeOK, Tick
<1>2. TypeOK'
  BY <1>1 DEF IInv, TypeOK, Running
<1>3. QED
  BY <1>1, <1>2 DEF IInv, ListInv, GetInv, ReplyInv, Answer, Present

-----------------------------------------------------------------------------
(* ListKeys *)

\* A set of numbers has a least one.
LEMMA LeastNatural ==
    ASSUME NEW T \in SUBSET Nat, T # {}
    PROVE  \E x \in T : \A y \in T : x <= y
<1> DEFINE R == OpToRel(<, Nat)
<1>1. IsWellFoundedOn(R, Nat)
  BY NatLessThanWellFounded
<1>2. \A x, y \in Nat : <<y, x>> \in R <=> y < x
  BY DEF OpToRel
<1> HIDE DEF R
<1>3. PICK x \in T : \A y \in T : ~(<<y, x>> \in R)
  BY <1>1, WFMin
<1>4. ASSUME NEW y \in T
      PROVE  x <= y
  <2>1. x \in Nat /\ y \in Nat
    OBVIOUS
  <2>2. ~(y < x)
    BY <1>2, <1>3, <2>1, Zenon
  <2>3. QED
    BY <2>1, <2>2
<1>5. QED
  BY <1>4

\* The token of a page: the time of its last row.
Last(P) ==
    IF P = {} THEN client.cursor
    ELSE CHOOSE t \in 0..MaxTime :
            /\ \E k \in P : rows[k].created = t
            /\ \A k \in P : rows[k].created >= t

\* It is the least time in the page.
LEMMA LastIs ==
    ASSUME TypeOK, NEW P \in SUBSET Keys, P # {}
    PROVE  /\ Last(P) \in 0..MaxTime
           /\ \E k \in P : rows[k].created = Last(P)
           /\ \A k \in P : rows[k].created >= Last(P)
<1> DEFINE T == {rows[k].created : k \in P}
<1>1. \A k \in P : rows[k].created \in 0..MaxTime
  BY PresentType
<1>2. T \subseteq Nat /\ T # {}
  BY <1>1, MultiKeyAssumption
<1>3. PICK t \in T : \A y \in T : t <= y
  BY <1>2, LeastNatural
<1>4. t \in 0..MaxTime /\ (\E k \in P : rows[k].created = t) /\ \A k \in P : rows[k].created >= t
  BY <1>1, <1>3, MultiKeyAssumption
<1>5. QED
  BY <1>4 DEF Last

\* A listing begins with nothing listed.
LEMMA StartListingStep ==
    ASSUME IInv, NEW limit \in PageSizes, StartListing(limit)
    PROVE  IInv'
<1> DEFINE listed == [kv \in Keys \X (1..MaxVersion) |-> 0]
           c == [pc |-> "list", limit |-> limit, cursor |-> NoToken, listed |-> listed]
<1>1. client' = c /\ UNCHANGED <<now, rows>>
  BY DEF StartListing
<1>2. /\ listed \in [Keys \X (1..MaxVersion) -> Nat]
      /\ \A k \in Keys, v \in 1..MaxVersion : listed[<<k, v>>] = 0
  OBVIOUS
<1> HIDE DEF listed
<1>3. c \in Listing /\ c.listed = listed
  BY <1>2, MultiKeyAssumption DEF Listing, NoToken
<1> HIDE DEF c
<1>4. \A k \in Keys, v \in 1..MaxVersion : listed[<<k, v>>] \in 0..1 /\ listed[<<k, v>>] # 1
  <2>1. 0 \in 0..1 /\ 0 # 1
    OBVIOUS
  <2>2. QED
    BY <1>2, <2>1, Zenon
<1>5. ListInv'
  BY <1>1, <1>3, <1>4, Zenon DEF ListInv
<1>6. now' \in 0..MaxTime /\ rows' \in [Keys -> Row]
  BY <1>1 DEF IInv, TypeOK
<1>7. QED
  BY <1>1, <1>3, <1>5, <1>6, ListKind

\* What a page that is given to the client consists of: rows strictly older than
\* the cursor, of which the oldest makes the new cursor.
LEMMA PageFacts ==
    ASSUME IInv, NEW P \in SUBSET Keys, NEW lost, Page(P, lost)
    PROVE  LET kept == P \ lost
           IN  /\ client \in Listing /\ client.cursor \in 0..NoToken
               /\ client.listed \in [Keys \X (1..MaxVersion) -> Nat]
               /\ \A k \in kept : rows[k].created < client.cursor
               /\ \A k \in kept : rows[k].created >= Last(kept)
               /\ Last(kept) \in 0..NoToken /\ Last(kept) <= client.cursor
               /\ kept # {} => Last(kept) < client.cursor
               /\ HasNext(Cardinality(kept), client.limit) => kept # {}
<1> DEFINE kept == P \ lost
<1>1. /\ client \in Listing /\ client.cursor \in 0..NoToken /\ client.limit \in PageSizes
      /\ client.listed \in [Keys \X (1..MaxVersion) -> Nat]
  BY ClientKind DEF IInv, Listing, Page
<1>2. \A k \in kept : rows[k].created < client.cursor
  BY DEF Page, IsPage, Matching
<1>3. kept \in SUBSET Keys
  OBVIOUS
<1> HIDE DEF kept
<1>4. CASE kept = {}
  <2>1. Last(kept) = client.cursor
    BY <1>4 DEF Last
  <2>2. ~HasNext(Cardinality(kept), client.limit)
    BY <1>1, <1>4, FS_EmptySet, MultiKeyAssumption DEF HasNext
  <2>3. QED
    BY <1>1, <1>4, <2>1, <2>2, MultiKeyAssumption DEF kept, NoToken
<1>5. CASE kept # {}
  <2>1. /\ Last(kept) \in 0..MaxTime
        /\ \E k \in kept : rows[k].created = Last(kept)
        /\ \A k \in kept : rows[k].created >= Last(kept)
    BY <1>3, <1>5, LastIs DEF IInv
  <2>2. Last(kept) < client.cursor
    BY <1>2, <2>1
  <2>3. Last(kept) \in 0..NoToken /\ Last(kept) <= client.cursor
    BY <1>1, <2>1, <2>2, MultiKeyAssumption DEF NoToken
  <2>4. QED
    BY <1>1, <1>2, <1>5, <2>1, <2>2, <2>3, Zenon DEF kept
<1>6. QED
  BY <1>4, <1>5

\* A page lists rows older than the cursor, which were not listed before, and moves
\* the cursor to the last of them.
LEMMA PageStep ==
    ASSUME IInv, NEW P \in SUBSET Keys, NEW lost, Page(P, lost)
    PROVE  IInv'
<1> DEFINE kept == P \ lost
           listed == [kv \in Keys \X (1..MaxVersion) |->
                        IF kv[1] \in kept /\ kv[2] = rows[kv[1]].version
                        THEN client.listed[kv] + 1 ELSE client.listed[kv]]
           pc == IF HasNext(Cardinality(kept), client.limit) THEN "list" ELSE "listed"
           c == [client EXCEPT !.pc = pc, !.cursor = Last(kept), !.listed = listed]
<1>1. client.pc = "list" /\ client' = c /\ UNCHANGED <<now, rows>>
  BY DEF Page, Last
<1>2. /\ client \in Listing /\ client.cursor \in 0..NoToken
      /\ client.listed \in [Keys \X (1..MaxVersion) -> Nat]
      /\ \A k \in kept : rows[k].created < client.cursor
      /\ \A k \in kept : rows[k].created >= Last(kept)
      /\ Last(kept) \in 0..NoToken /\ Last(kept) <= client.cursor
  BY PageFacts
<1>3. /\ listed \in [Keys \X (1..MaxVersion) -> Nat]
      /\ \A k \in Keys, v \in 1..MaxVersion :
           listed[<<k, v>>] = IF k \in kept /\ v = rows[k].version
                              THEN client.listed[<<k, v>>] + 1 ELSE client.listed[<<k, v>>]
  BY <1>2
<1> HIDE DEF listed, kept
<1>4. c \in Listing /\ c.cursor = Last(kept) /\ c.listed = listed
  BY <1>2, <1>3 DEF Listing
<1> HIDE DEF c
<1>5. ASSUME NEW k \in Keys, NEW v \in 1..MaxVersion
      PROVE  /\ listed[<<k, v>>] \in 0..1
             /\ listed[<<k, v>>] = 1 =>
                  /\ v <= rows[k].version
                  /\ v = rows[k].version => rows[k].created >= Last(kept)
  <2>1. /\ client.listed[<<k, v>>] \in 0..1
        /\ client.listed[<<k, v>>] = 1 =>
             /\ v <= rows[k].version
             /\ v = rows[k].version => rows[k].created >= client.cursor
    BY <1>1 DEF IInv, ListInv
  <2>2. rows[k].created \in 0..MaxTime /\ rows[k].version \in 0..MaxVersion
    BY PresentType DEF IInv
  <2>3. CASE k \in kept /\ v = rows[k].version
    <3>1. client.listed[<<k, v>>] # 1
      BY <1>2, <2>1, <2>2, <2>3, MultiKeyAssumption DEF NoToken
    <3>2. listed[<<k, v>>] = 1
      BY <1>3, <2>1, <2>3, <3>1
    <3>3. QED
      BY <1>2, <2>2, <2>3, <3>2, MultiKeyAssumption
  <2>4. CASE ~(k \in kept /\ v = rows[k].version)
    <3>1. listed[<<k, v>>] = client.listed[<<k, v>>]
      BY <1>3, <2>4
    <3>2. QED
      BY <1>2, <2>1, <2>2, <3>1, MultiKeyAssumption DEF NoToken
  <2>5. QED
    BY <2>3, <2>4
<1>6. ListInv'
  BY <1>1, <1>4, <1>5 DEF ListInv
<1>7. now' \in 0..MaxTime /\ rows' \in [Keys -> Row]
  BY <1>1 DEF IInv, TypeOK
<1>8. QED
  BY <1>1, <1>4, <1>6, <1>7, ListKind

-----------------------------------------------------------------------------
(* BatchGetKeys *)

\* The version the key map holds is one of those that were read.
LEMMA InKeyMapIs ==
    ASSUME NEW V \in SUBSET (1..MaxVersion), V # {}
    PROVE  InKeyMap(V) \in V
<1>1. V \in SUBSET Nat
  BY MultiKeyAssumption
<1>2. \E v \in V : \A w \in V : v <= w
  BY <1>1, LeastNatural
<1>3. QED
  BY <1>2 DEF InKeyMap

\* The answer for an item is an error, or a version of its key that was read.
LEMMA AnswerIs ==
    ASSUME NEW c \in GetCall, DOMAIN c.snapshot = DOMAIN c.items,
           NEW i \in DOMAIN c.items, NEW b \in BOOLEAN
    PROVE  /\ Answer(c, i, b) \in Result
           /\ c.snapshot[i] = {} \/ b => Answer(c, i, b) = Error
           /\ Answer(c, i, b) # Error =>
                /\ Answer(c, i, b) = [key |-> c.items[i], version |-> InKeyMap(c.snapshot[i])]
                /\ InKeyMap(c.snapshot[i]) \in c.snapshot[i]
<1>1. c.items \in Batches(Keys) /\ c.snapshot \in Batches(SUBSET (1..MaxVersion))
  BY DEF GetCall
<1>2. c.items[i] \in Keys
  BY <1>1, BatchItem
<1>3. c.snapshot[i] \in SUBSET (1..MaxVersion)
  <2>1. i \in DOMAIN c.snapshot
    OBVIOUS
  <2>2. QED
    BY <1>1, <2>1, BatchItem
<1>4. CASE c.snapshot[i] = {} \/ b
  BY <1>4 DEF Answer, Result
<1>5. CASE ~(c.snapshot[i] = {} \/ b)
  <2> DEFINE v == InKeyMap(c.snapshot[i])
  <2>1. v \in c.snapshot[i] /\ v \in 1..MaxVersion
    BY <1>3, <1>5, InKeyMapIs
  <2>2. Answer(c, i, b) = [key |-> c.items[i], version |-> v]
    BY <1>5 DEF Answer
  <2> HIDE DEF v
  <2>3. [key |-> c.items[i], version |-> v] \in Result
    BY <1>2, <2>1 DEF Result
  <2>4. QED
    BY <1>5, <2>1, <2>2, <2>3 DEF v
<1>6. QED
  BY <1>4, <1>5

\* BatchGetKeys begins: all items are read in one snapshot.
LEMMA BatchGetKeysStep ==
    ASSUME IInv, NEW items \in Batches(Keys), NEW lost, BatchGetKeys(items, lost)
    PROVE  IInv'
<1> DEFINE snapshot == Snapshot(items, lost)
           state == [i \in DOMAIN items |-> "waiting"]
           results == [i \in DOMAIN items |-> NoResult]
           c == [pc |-> "get", items |-> items, snapshot |-> snapshot, state |-> state,
                 results |-> results, failed |-> {}]
<1>1. PICK n \in 1..MaxItems : DOMAIN items = 1..n /\ \A i \in 1..n : items[i] \in Keys
  BY BatchFacts
<1>2. /\ snapshot \in Batches(SUBSET (1..MaxVersion)) /\ DOMAIN snapshot = DOMAIN items
      /\ \A i, j \in DOMAIN items : items[i] = items[j] => snapshot[i] = snapshot[j]
  <2>1. snapshot \in [1..n -> SUBSET (1..MaxVersion)]
    <3>1. \A i \in 1..n : rows[items[i]].version \in 0..MaxVersion
      BY <1>1, PresentType DEF IInv
    <3>2. \A i \in 1..n : {v \in 1..rows[items[i]].version : <<items[i], v>> \notin lost}
                            \in SUBSET (1..MaxVersion)
      BY <3>1, MultiKeyAssumption
    <3>3. QED
      BY <1>1, <3>2 DEF Snapshot
  <2>2. QED
    BY <1>1, <2>1, BatchIntro DEF Snapshot
<1>3. /\ state \in Batches({"waiting", "running", "done"}) /\ DOMAIN state = DOMAIN items
      /\ \A i \in DOMAIN items : state[i] = "waiting"
  <2>1. state \in [1..n -> {"waiting", "running", "done"}]
    BY <1>1
  <2>2. QED
    BY <1>1, <2>1, BatchIntro
<1>4. results \in Batches(Result \cup {NoResult}) /\ DOMAIN results = DOMAIN items
  <2>1. results \in [1..n -> Result \cup {NoResult}]
    BY <1>1
  <2>2. QED
    BY <1>1, <2>1, BatchIntro
<1>5. client' = c /\ UNCHANGED <<now, rows>>
  BY DEF BatchGetKeys
<1> HIDE DEF snapshot, state, results
<1>6. /\ c \in GetCall /\ c.pc = "get" /\ c.items = items /\ c.snapshot = snapshot
      /\ c.state = state /\ c.results = results /\ c.failed = {}
  BY <1>2, <1>3, <1>4 DEF GetCall
<1> HIDE DEF c
<1>7. Running(client') = {}
  BY <1>3, <1>5, <1>6 DEF Running
<1>8. Cardinality(Running(client')) <= MaxConcurrency
  BY <1>7, FS_EmptySet, MultiKeyAssumption
<1>9. GetInv'
  BY <1>2, <1>3, <1>4, <1>5, <1>6 DEF GetInv
<1>10. now' \in 0..MaxTime /\ rows' \in [Keys -> Row]
  BY <1>5 DEF IInv, TypeOK
<1>11. QED
  BY <1>5, <1>6, <1>8, <1>9, <1>10, GetKind

\* What a step of a BatchGetKeys under way begins with.
LEMMA GetFacts ==
    ASSUME IInv, client.pc \in {"get", "got"}
    PROVE  /\ client \in GetCall /\ Cardinality(Running(client)) <= MaxConcurrency
           /\ DOMAIN client.snapshot = DOMAIN client.items
           /\ DOMAIN client.state = DOMAIN client.items
           /\ DOMAIN client.results = DOMAIN client.items
           /\ DOMAIN client.items \subseteq 1..MaxItems
           /\ client.state \in Batches({"waiting", "running", "done"})
           /\ client.results \in Batches(Result \cup {NoResult})
           /\ client.failed \subseteq 1..MaxItems
           /\ IsFiniteSet(Running(client)) /\ Cardinality(Running(client)) \in Nat
<1>1. client \in GetCall /\ Cardinality(Running(client)) <= MaxConcurrency
  BY ClientKind DEF IInv
<1>2. /\ client.items \in Batches(Keys)
      /\ client.state \in Batches({"waiting", "running", "done"})
      /\ client.results \in Batches(Result \cup {NoResult})
      /\ client.failed \subseteq 1..MaxItems
  BY <1>1 DEF GetCall
<1>3. PICK n \in 1..MaxItems : DOMAIN client.items = 1..n
  BY <1>2, BatchFacts
<1>4. DOMAIN client.items \subseteq 1..MaxItems
  BY <1>3, MultiKeyAssumption
<1>5. IsFiniteSet(1..MaxItems)
  BY FS_Interval, MultiKeyAssumption
<1>6. Running(client) \in SUBSET (1..MaxItems)
  BY <1>4 DEF Running
<1>7. IsFiniteSet(Running(client)) /\ Cardinality(Running(client)) \in Nat
  BY <1>5, <1>6, FS_Subset, FS_CardinalityType
<1>8. QED
  BY <1>1, <1>2, <1>4, <1>7 DEF IInv, GetInv

\* How a member changes the size of a set.
LEMMA OneMoreOrLess ==
    ASSUME NEW A, IsFiniteSet(A), NEW x
    PROVE  /\ Cardinality(A \cup {x}) <= Cardinality(A) + 1
           /\ Cardinality(A \cup {x}) \in Nat
           /\ Cardinality(A \ {x}) <= Cardinality(A)
           /\ Cardinality(A \ {x}) \in Nat
<1>1. Cardinality(A) \in Nat
  BY FS_CardinalityType
<1>2. /\ IsFiniteSet(A \cup {x})
      /\ Cardinality(A \cup {x}) = IF x \in A THEN Cardinality(A) ELSE Cardinality(A) + 1
  BY FS_AddElement
<1>3. /\ IsFiniteSet(A \ {x})
      /\ Cardinality(A \ {x}) = IF x \in A THEN Cardinality(A) - 1 ELSE Cardinality(A)
  BY FS_RemoveElement
<1>4. Cardinality(A \cup {x}) \in Nat /\ Cardinality(A \ {x}) \in Nat
  BY <1>2, <1>3, FS_CardinalityType
<1>5. QED
  BY <1>1, <1>2, <1>3, <1>4

\* A goroutine enters the semaphore.
LEMMA AcquireStep ==
    ASSUME IInv, NEW i \in 1..MaxItems, Acquire(i)
    PROVE  IInv'
<1> DEFINE state == [client.state EXCEPT ![i] = "running"]
           c == [client EXCEPT !.state = state]
<1>1. /\ client.pc = "get" /\ i \in DOMAIN client.items /\ client.state[i] = "waiting"
      /\ Cardinality(Running(client)) < MaxConcurrency
      /\ client' = c /\ UNCHANGED <<now, rows>>
  BY DEF Acquire
<1>2. /\ client \in GetCall
      /\ DOMAIN client.snapshot = DOMAIN client.items
      /\ DOMAIN client.state = DOMAIN client.items
      /\ DOMAIN client.results = DOMAIN client.items
      /\ client.state \in Batches({"waiting", "running", "done"})
      /\ IsFiniteSet(Running(client)) /\ Cardinality(Running(client)) \in Nat
  BY <1>1, GetFacts
<1>3. /\ state \in Batches({"waiting", "running", "done"}) /\ DOMAIN state = DOMAIN client.items
      /\ \A j \in DOMAIN client.items : state[j] = IF j = i THEN "running" ELSE client.state[j]
  BY <1>1, <1>2, BatchUpdate
<1> HIDE DEF state
<1>4. /\ c \in GetCall /\ c.pc = client.pc /\ c.items = client.items
      /\ c.snapshot = client.snapshot /\ c.state = state /\ c.results = client.results
      /\ c.failed = client.failed
  BY <1>2, <1>3 DEF GetCall
<1> HIDE DEF c
<1>5. Running(client') = Running(client) \cup {i}
  BY <1>1, <1>3, <1>4 DEF Running
<1>6. Cardinality(Running(client')) <= MaxConcurrency
  <2>1. /\ Cardinality(Running(client) \cup {i}) <= Cardinality(Running(client)) + 1
        /\ Cardinality(Running(client) \cup {i}) \in Nat
    BY <1>2, OneMoreOrLess, Zenon
  <2>2. Cardinality(Running(client) \cup {i}) <= MaxConcurrency
    BY <1>1, <1>2, <2>1, MultiKeyAssumption
  <2>3. QED
    BY <1>5, <2>2, Zenon
<1>7. GetInv'
  BY <1>1, <1>2, <1>3, <1>4 DEF IInv, GetInv, Answer
<1>8. now' \in 0..MaxTime /\ rows' \in [Keys -> Row]
  BY <1>1 DEF IInv, TypeOK
<1>9. QED
  BY <1>1, <1>4, <1>6, <1>7, <1>8, GetKind

\* A goroutine stores the answer of its item and leaves the semaphore.
LEMMA FinishStep ==
    ASSUME IInv, NEW i \in 1..MaxItems, NEW b \in BOOLEAN, Finish(i, b)
    PROVE  IInv'
<1> DEFINE state == [client.state EXCEPT ![i] = "done"]
           answer == Answer(client, i, b)
           results == [client.results EXCEPT ![i] = answer]
           failed == IF b THEN client.failed \cup {i} ELSE client.failed
           c == [client EXCEPT !.state = state, !.results = results, !.failed = failed]
<1>1. /\ client.pc = "get" /\ i \in Running(client)
      /\ client' = c /\ UNCHANGED <<now, rows>>
  BY DEF Finish
<1>2. /\ client \in GetCall /\ Cardinality(Running(client)) <= MaxConcurrency
      /\ DOMAIN client.snapshot = DOMAIN client.items
      /\ DOMAIN client.state = DOMAIN client.items
      /\ DOMAIN client.results = DOMAIN client.items
      /\ client.state \in Batches({"waiting", "running", "done"})
      /\ client.results \in Batches(Result \cup {NoResult})
      /\ client.failed \subseteq 1..MaxItems
      /\ IsFiniteSet(Running(client)) /\ Cardinality(Running(client)) \in Nat
  BY <1>1, GetFacts
<1>3. i \in DOMAIN client.items /\ client.state[i] = "running" /\ i \notin client.failed
  BY <1>1 DEF Running, IInv, GetInv
<1>4. answer \in Result
  BY <1>2, <1>3, AnswerIs
<1> HIDE DEF answer
<1>5. /\ state \in Batches({"waiting", "running", "done"}) /\ DOMAIN state = DOMAIN client.items
      /\ \A j \in DOMAIN client.items : state[j] = IF j = i THEN "done" ELSE client.state[j]
  BY <1>2, <1>3, BatchUpdate
<1>6. /\ results \in Batches(Result \cup {NoResult}) /\ DOMAIN results = DOMAIN client.items
      /\ \A j \in DOMAIN client.items : results[j] = IF j = i THEN answer ELSE client.results[j]
  BY <1>2, <1>3, <1>4, BatchUpdate
<1>7. failed \subseteq 1..MaxItems /\ \A j : j \in failed <=> j \in client.failed \/ (b /\ j = i)
  BY <1>2
<1> HIDE DEF state, results, failed
<1>8. /\ c \in GetCall /\ c.pc = "get" /\ c.items = client.items
      /\ c.snapshot = client.snapshot /\ c.state = state /\ c.results = results
      /\ c.failed = failed
  BY <1>1, <1>2, <1>5, <1>6, <1>7 DEF GetCall
<1> HIDE DEF c
<1>9. Running(client') = Running(client) \ {i}
  BY <1>1, <1>3, <1>5, <1>8 DEF Running
<1>10. Cardinality(Running(client')) <= MaxConcurrency
  <2>1. /\ Cardinality(Running(client) \ {i}) <= Cardinality(Running(client))
        /\ Cardinality(Running(client) \ {i}) \in Nat
    BY <1>2, OneMoreOrLess, Zenon
  <2>2. Cardinality(Running(client) \ {i}) <= MaxConcurrency
    BY <1>2, <2>1, MultiKeyAssumption
  <2>3. QED
    BY <1>9, <2>2, Zenon
<1>11. \A x : \A j \in DOMAIN client.items : Answer(c, j, x) = Answer(client, j, x)
  BY <1>8 DEF Answer
<1>12. ASSUME NEW j \in DOMAIN client.items
       PROVE  IF state[j] = "done"
              THEN results[j] = Answer(c, j, j \in failed)
              ELSE j \notin failed
  <2>1. CASE j = i
    <3>1. results[j] = Answer(client, i, b)
      BY <1>6, <2>1 DEF answer
    <3>2. (j \in failed) = b
      BY <1>3, <1>7, <2>1
    <3>3. results[j] = Answer(c, j, j \in failed)
      BY <1>11, <2>1, <3>1, <3>2
    <3>4. QED
      BY <1>5, <2>1, <3>3
  <2>2. CASE j # i
    <3>1. (j \in failed) = (j \in client.failed)
      BY <1>7, <2>2
    <3>2. Answer(c, j, j \in failed) = Answer(client, j, j \in client.failed)
      BY <1>11, <3>1
    <3>3. results[j] = client.results[j] /\ state[j] = client.state[j]
      BY <1>5, <1>6, <2>2
    <3>4. QED
      BY <1>1, <3>1, <3>2, <3>3 DEF IInv, GetInv
  <2>3. QED
    BY <2>1, <2>2
<1>13. GetInv'
  BY <1>1, <1>2, <1>5, <1>6, <1>8, <1>12 DEF IInv, GetInv
<1>14. now' \in 0..MaxTime /\ rows' \in [Keys -> Row]
  BY <1>1 DEF IInv, TypeOK
<1>15. QED
  BY <1>1, <1>8, <1>10, <1>13, <1>14, GetKind

\* The results become the reply.
LEMMA CollectStep ==
    ASSUME IInv, Collect
    PROVE  IInv'
<1> DEFINE c == [client EXCEPT !.pc = "got"]
<1>1. /\ client.pc = "get" /\ \A i \in DOMAIN client.items : client.state[i] = "done"
      /\ client' = c /\ UNCHANGED <<now, rows>>
  BY DEF Collect
<1>2. client \in GetCall /\ Cardinality(Running(client)) <= MaxConcurrency
  BY <1>1, GetFacts
<1>3. /\ c \in GetCall /\ c.pc = "got" /\ c.items = client.items
      /\ c.snapshot = client.snapshot /\ c.state = client.state /\ c.results = client.results
      /\ c.failed = client.failed
  BY <1>2 DEF GetCall
<1> HIDE DEF c
<1>4. Running(client') = Running(client)
  BY <1>1, <1>3 DEF Running
<1>5. GetInv'
  BY <1>1, <1>3 DEF IInv, GetInv, Answer
<1>6. now' \in 0..MaxTime /\ rows' \in [Keys -> Row]
  BY <1>1 DEF IInv, TypeOK
<1>7. QED
  BY <1>1, <1>2, <1>3, <1>4, <1>5, <1>6, GetKind

-----------------------------------------------------------------------------
(* BatchGetKeyMetadata and BatchUpdateKeyMetadata *)

\* No results yet.
LEMMA ZeroIs ==
    ASSUME NEW items \in Batches(Keys \cup {Bad})
    PROVE  /\ Zero(items) \in Batches(Nat) /\ DOMAIN Zero(items) = DOMAIN items
           /\ \A i \in DOMAIN items : Zero(items)[i] = 0
<1>1. PICK n \in 1..MaxItems : DOMAIN items = 1..n
  BY BatchFacts
<1>2. Zero(items) \in [1..n -> Nat]
  BY <1>1 DEF Zero
<1>3. QED
  BY <1>1, <1>2, BatchIntro DEF Zero

\* One more result for some items.
LEMMA AddIs ==
    ASSUME NEW f \in Batches(Nat), NEW I
    PROVE  /\ Add(f, I) \in Batches(Nat) /\ DOMAIN Add(f, I) = DOMAIN f
           /\ \A i \in DOMAIN f : Add(f, I)[i] = IF i \in I THEN f[i] + 1 ELSE f[i]
<1>1. PICK n \in 1..MaxItems : DOMAIN f = 1..n /\ \A i \in 1..n : f[i] \in Nat
  BY BatchFacts
<1>2. Add(f, I) \in [1..n -> Nat]
  BY <1>1 DEF Add
<1>3. QED
  BY <1>1, <1>2, BatchIntro DEF Add

\* Counts that are small enough.
LEMMA BatchCounts ==
    ASSUME NEW b \in Nat, NEW f \in Batches(Nat), \A i \in DOMAIN f : f[i] <= b
    PROVE  f \in Batches(0..b)
<1>1. PICK n \in 1..MaxItems :
        DOMAIN f = 1..n /\ f \in [1..n -> Nat] /\ \A i \in 1..n : f[i] \in Nat
  BY BatchFacts
<1>2. \A i \in 1..n : f[i] \in 0..b
  BY <1>1
<1>3. f \in [1..n -> 0..b]
  BY <1>1, <1>2
<1>4. QED
  BY <1>3, BatchIntro

\* Counts are numbers.
LEMMA BatchNat ==
    ASSUME NEW b \in Nat, NEW f \in Batches(0..b)
    PROVE  f \in Batches(Nat)
<1>1. PICK n \in 1..MaxItems : f \in [1..n -> 0..b]
  BY BatchFacts
<1>2. f \in [1..n -> Nat]
  BY <1>1
<1>3. QED
  BY <1>2, BatchIntro

\* The reply of BatchGetKeyMetadata: what could not be read has an error, an item
\* with an invalid id perhaps two.
LEMMA BatchGetKeyMetadataStep ==
    ASSUME IInv, NEW items \in Batches(Keys \cup {Bad}), NEW b \in BOOLEAN,
           NEW fails \in BOOLEAN, NEW lost, BatchGetKeyMetadata(items, b, fails, lost)
    PROVE  IInv'
<1> DEFINE bad == {i \in DOMAIN items : items[i] = Bad}
           unread == Unread(items, fails, lost)
           read == DOMAIN items \ unread
           zero == Zero(items)
           first == Add(zero, bad)
           errors == Add(first, unread)
           successes == Add(zero, read)
           c == [pc |-> "replied", items |-> items, continue |-> b, next |-> Len(items) + 1,
                 failed |-> unread, errors |-> errors, successes |-> successes]
<1>1. client' = c /\ UNCHANGED <<now, rows>>
  BY DEF BatchGetKeyMetadata
<1>2. PICK n \in 1..MaxItems : DOMAIN items = 1..n /\ Len(items) = n
  BY BatchFacts
<1>3. /\ bad \subseteq unread /\ unread \subseteq DOMAIN items /\ unread \subseteq 1..MaxItems
      /\ Len(items) + 1 \in 1..(MaxItems + 1)
      /\ \A i \in DOMAIN items : i \in read <=> i \notin unread
  BY <1>2, MultiKeyAssumption DEF Unread
<1>4. /\ zero \in Batches(Nat) /\ DOMAIN zero = DOMAIN items
      /\ \A i \in DOMAIN items : zero[i] = 0
  BY ZeroIs
<1> HIDE DEF bad, unread, read, zero
<1>5. /\ first \in Batches(Nat) /\ DOMAIN first = DOMAIN items
      /\ \A i \in DOMAIN items : first[i] = IF i \in bad THEN 1 ELSE 0
  BY <1>4, AddIs
<1>6. /\ successes \in Batches(Nat) /\ DOMAIN successes = DOMAIN items
      /\ \A i \in DOMAIN items : successes[i] = IF i \in read THEN 1 ELSE 0
  BY <1>4, AddIs
<1> HIDE DEF first, successes
<1>7. /\ errors \in Batches(Nat) /\ DOMAIN errors = DOMAIN items
      /\ \A i \in DOMAIN items : errors[i] = IF i \in unread THEN first[i] + 1 ELSE first[i]
  BY <1>5, AddIs
<1> HIDE DEF errors
<1>8. \A i \in DOMAIN items :
        errors[i] \in 0..2 /\ (IF i \in unread THEN errors[i] > 0 ELSE errors[i] = 0)
  BY <1>3, <1>5, <1>7
<1>9. errors \in Batches(0..2) /\ successes \in Batches(0..1)
  <2>1. \A i \in DOMAIN errors : errors[i] <= 2
    BY <1>7, <1>8
  <2>2. \A i \in DOMAIN successes : successes[i] <= 1
    BY <1>6
  <2>3. QED
    BY <1>6, <1>7, <2>1, <2>2, BatchCounts
<1>10. /\ c \in ListCall /\ c.pc = "replied" /\ c.items = items /\ c.failed = unread
       /\ c.errors = errors /\ c.successes = successes
  BY <1>3, <1>9 DEF ListCall
<1> HIDE DEF c
<1>11. ReplyInv'
  BY <1>1, <1>6, <1>7, <1>10 DEF ReplyInv
<1>12. now' \in 0..MaxTime /\ rows' \in [Keys -> Row]
  BY <1>1 DEF IInv, TypeOK
<1>13. QED
  BY <1>1, <1>10, <1>11, <1>12, ReplyKind

\* BatchUpdateKeyMetadata begins.
LEMMA BatchUpdateStep ==
    ASSUME IInv, NEW items \in Batches(Keys \cup {Bad}), NEW b \in BOOLEAN,
           BatchUpdateKeyMetadata(items, b)
    PROVE  IInv'
<1> DEFINE z == Zero(items)
           c == [pc |-> "read", items |-> items, continue |-> b, next |-> 1,
                 failed |-> {}, errors |-> z, successes |-> z]
<1>1. client' = c /\ UNCHANGED <<now, rows>>
  BY DEF BatchUpdateKeyMetadata
<1>2. PICK n \in 1..MaxItems : DOMAIN items = 1..n
  BY BatchFacts
<1>3. z \in Batches(Nat) /\ DOMAIN z = DOMAIN items /\ \A i \in DOMAIN items : z[i] = 0
  BY ZeroIs
<1> HIDE DEF z
<1>4. z \in Batches(0..1) /\ z \in Batches(0..2)
  <2>1. \A i \in DOMAIN z : z[i] <= 1 /\ z[i] <= 2
    BY <1>3
  <2>2. QED
    BY <1>3, <2>1, BatchCounts
<1>5. 1 \in 1..(MaxItems + 1) /\ 1 \in DOMAIN items
  BY <1>2, MultiKeyAssumption
<1>6. /\ c \in ListCall /\ c.pc = "read" /\ c.items = items /\ c.failed = {} /\ c.next = 1
      /\ c.errors = z /\ c.successes = z
  BY <1>4, <1>5 DEF ListCall
<1> HIDE DEF c
<1>7. ReplyInv'
  BY <1>1, <1>3, <1>5, <1>6 DEF ReplyInv
<1>8. now' \in 0..MaxTime /\ rows' \in [Keys -> Row]
  BY <1>1 DEF IInv, TypeOK
<1>9. QED
  BY <1>1, <1>6, <1>7, <1>8, ReplyKind

\* What a step of an update under way begins with.
LEMMA UpdateFacts ==
    ASSUME IInv, client.pc \in {"read", "write"}
    PROVE  /\ client \in ListCall
           /\ client.items \in Batches(Keys \cup {Bad})
           /\ client.errors \in Batches(Nat) /\ client.successes \in Batches(Nat)
           /\ DOMAIN client.errors = DOMAIN client.items
           /\ DOMAIN client.successes = DOMAIN client.items
           /\ client.failed \subseteq 1..MaxItems /\ client.next \in 1..(MaxItems + 1)
           /\ \A i \in DOMAIN client.items :
                /\ client.successes[i] = 0
                /\ client.errors[i] = (IF i \in client.failed THEN 1 ELSE 0)
                /\ i \in client.failed => i < client.next
<1>1. client \in ListCall
  BY ClientKind DEF IInv
<1>2. /\ client.items \in Batches(Keys \cup {Bad})
      /\ client.errors \in Batches(0..2) /\ client.successes \in Batches(0..1)
      /\ client.failed \subseteq 1..MaxItems /\ client.next \in 1..(MaxItems + 1)
  BY <1>1 DEF ListCall
<1>3. client.errors \in Batches(Nat) /\ client.successes \in Batches(Nat)
  BY <1>2, BatchNat
<1>4. QED
  BY <1>1, <1>2, <1>3 DEF IInv, ReplyInv

\* One item more is read; if it fails it gets its error.
LEMMA UpdateReadStep ==
    ASSUME IInv, NEW fails \in BOOLEAN, UpdateRead(fails)
    PROVE  IInv'
<1> DEFINE i == client.next
           ok == IF client.items[i] = Bad \/ fails THEN FALSE ELSE Present(client.items[i])
           pc == IF i = Len(client.items) THEN "write" ELSE "read"
           failed == IF ok THEN client.failed ELSE client.failed \cup {i}
           errors == IF ok THEN client.errors ELSE Add(client.errors, {i})
           c == [client EXCEPT !.next = i + 1, !.pc = pc, !.failed = failed, !.errors = errors]
<1>1. client.pc = "read" /\ (client' = Idle \/ client' = c) /\ UNCHANGED <<now, rows>>
  BY DEF UpdateRead
<1>2. now' \in 0..MaxTime /\ rows' \in [Keys -> Row]
  BY <1>1 DEF IInv, TypeOK
<1>3. CASE client' = Idle
  BY <1>2, <1>3, IdleKind
<1>4. CASE client' = c
  <2>1. /\ client \in ListCall
        /\ client.items \in Batches(Keys \cup {Bad})
        /\ client.errors \in Batches(Nat) /\ client.successes \in Batches(Nat)
        /\ DOMAIN client.errors = DOMAIN client.items
        /\ DOMAIN client.successes = DOMAIN client.items
        /\ client.failed \subseteq 1..MaxItems /\ i \in 1..(MaxItems + 1)
        /\ \A j \in DOMAIN client.items :
             /\ client.successes[j] = 0
             /\ client.errors[j] = (IF j \in client.failed THEN 1 ELSE 0)
             /\ j \in client.failed => j < i
    BY <1>1, UpdateFacts
  <2>2. i \in DOMAIN client.items
    BY <1>1 DEF IInv, ReplyInv
  <2>3. PICK n \in 1..MaxItems : DOMAIN client.items = 1..n /\ Len(client.items) = n
    BY <2>1, BatchFacts
  <2>4. /\ i \in 1..n /\ i + 1 \in 1..(MaxItems + 1) /\ i \in 1..MaxItems
        /\ pc \in {"read", "write"} /\ (pc = "read" => i + 1 \in 1..n)
    BY <2>2, <2>3, MultiKeyAssumption
  <2>5. i \notin client.failed
    BY <2>1, <2>2, <2>4
  <2>6. /\ Add(client.errors, {i}) \in Batches(Nat)
        /\ DOMAIN Add(client.errors, {i}) = DOMAIN client.items
        /\ \A j \in DOMAIN client.items :
             Add(client.errors, {i})[j] = IF j \in {i} THEN client.errors[j] + 1
                                          ELSE client.errors[j]
    BY <2>1, AddIs
  <2>7. failed \subseteq 1..MaxItems /\ \A j \in DOMAIN client.items : j \in failed => j < i + 1
    BY <2>1, <2>3, <2>4
  <2>8. /\ errors \in Batches(Nat) /\ DOMAIN errors = DOMAIN client.items
        /\ \A j \in DOMAIN client.items : errors[j] = (IF j \in failed THEN 1 ELSE 0)
    <3>1. CASE ok
      BY <2>1, <3>1
    <3>2. CASE ~ok
      <4>1. errors = Add(client.errors, {i}) /\ failed = client.failed \cup {i}
        BY <3>2
      <4> HIDE DEF errors, failed, i
      <4>2. \A j \in DOMAIN client.items : errors[j] = IF j = i THEN client.errors[j] + 1
                                                      ELSE client.errors[j]
        BY <2>6, <4>1
      <4>3. \A j \in DOMAIN client.items : j \in failed <=> j = i \/ j \in client.failed
        BY <4>1
      <4>4. ASSUME NEW j \in DOMAIN client.items
            PROVE  errors[j] = (IF j \in failed THEN 1 ELSE 0)
        <5>1. client.errors[j] = (IF j \in client.failed THEN 1 ELSE 0)
          BY <2>1
        <5>2. QED
          BY <2>5, <4>2, <4>3, <5>1
      <4>5. errors \in Batches(Nat) /\ DOMAIN errors = DOMAIN client.items
        BY <2>6, <4>1
      <4>6. QED
        BY <4>4, <4>5
    <3>3. QED
      BY <3>1, <3>2
  <2> HIDE DEF pc, failed, errors
  <2>9. errors \in Batches(0..2)
    <3>1. \A j \in DOMAIN errors : errors[j] <= 2
      BY <2>8
    <3>2. QED
      BY <2>8, <3>1, BatchCounts
  <2>10. /\ c \in ListCall /\ c.pc = pc /\ c.items = client.items /\ c.next = i + 1
         /\ c.failed = failed /\ c.errors = errors /\ c.successes = client.successes
    BY <2>1, <2>4, <2>7, <2>9 DEF ListCall
  <2> HIDE DEF c, i
  <2>11. ReplyInv'
    BY <1>4, <2>1, <2>3, <2>4, <2>7, <2>8, <2>10 DEF ReplyInv
  <2>12. QED
    BY <1>2, <1>4, <2>10, <2>11, ReplyKind
<1>5. QED
  BY <1>1, <1>3, <1>4

\* After the write every item gets one result more.
LEMMA UpdateWriteStep ==
    ASSUME IInv, NEW fails \in BOOLEAN, UpdateWrite(fails)
    PROVE  IInv'
<1> DEFINE all == DOMAIN client.items
           errors == IF fails THEN Add(client.errors, all) ELSE client.errors
           successes == IF fails THEN client.successes ELSE Add(client.successes, all)
           c == [client EXCEPT !.pc = "replied", !.errors = errors, !.successes = successes]
<1>1. client.pc = "write" /\ (client' = Idle \/ client' = c) /\ UNCHANGED <<now, rows>>
  BY DEF UpdateWrite, UpdateReply
<1>2. now' \in 0..MaxTime /\ rows' \in [Keys -> Row]
  BY <1>1 DEF IInv, TypeOK
<1>3. CASE client' = Idle
  BY <1>2, <1>3, IdleKind
<1>4. CASE client' = c
  <2>1. /\ client \in ListCall
        /\ client.errors \in Batches(Nat) /\ client.successes \in Batches(Nat)
        /\ DOMAIN client.errors = all /\ DOMAIN client.successes = all
        /\ \A j \in all :
             /\ client.successes[j] = 0
             /\ client.errors[j] = (IF j \in client.failed THEN 1 ELSE 0)
    BY <1>1, UpdateFacts
  <2> HIDE DEF all
  <2>2. /\ Add(client.errors, all) \in Batches(Nat) /\ DOMAIN Add(client.errors, all) = all
        /\ \A j \in all : Add(client.errors, all)[j] = client.errors[j] + 1
    BY <2>1, AddIs
  <2>3. /\ Add(client.successes, all) \in Batches(Nat)
        /\ DOMAIN Add(client.successes, all) = all
        /\ \A j \in all : Add(client.successes, all)[j] = 1
    BY <2>1, AddIs
  <2>4. /\ errors \in Batches(Nat) /\ successes \in Batches(Nat)
        /\ DOMAIN errors = all /\ DOMAIN successes = all
        /\ \A j \in all : errors[j] <= 2 /\ successes[j] <= 1
    BY <2>1, <2>2, <2>3
  <2> HIDE DEF errors, successes
  <2>5. errors \in Batches(0..2) /\ successes \in Batches(0..1)
    BY <2>4, BatchCounts
  <2>6. /\ c \in ListCall /\ c.pc = "replied" /\ c.items = client.items
        /\ c.failed = client.failed /\ c.errors = errors /\ c.successes = successes
    BY <2>1, <2>5 DEF ListCall
  <2> HIDE DEF c
  <2>7. ReplyInv'
    BY <1>4, <2>4, <2>6 DEF ReplyInv, all
  <2>8. QED
    BY <1>2, <1>4, <2>6, <2>7, ReplyKind
<1>5. QED
  BY <1>1, <1>3, <1>4

-----------------------------------------------------------------------------
(* The theorems *)

\* Every step preserves the invariant.
LEMMA NextIInv == IInv /\ [Next]_vars => IInv'
<1> SUFFICES ASSUME IInv, [Next]_vars
             PROVE  IInv'
  OBVIOUS
<1>1. CASE Tick
  BY <1>1, TickStep
<1>2. CASE \E k \in Keys, s \in Stamps : Create(k, s) \/ Rotate(k, s)
  BY <1>2, CreateStep, RotateStep
<1>3. CASE Start
  BY <1>3, StartListingStep, BatchGetKeysStep, BatchGetKeyMetadataStep, BatchUpdateStep
     DEF Start
<1>4. CASE NextPage
  BY <1>4, PageStep DEF NextPage
<1>5. CASE Serve
  BY <1>5, AcquireStep, FinishStep, CollectStep, UpdateReadStep, UpdateWriteStep DEF Serve
<1>6. CASE Reset
  <2>1. client' = Idle /\ now' \in 0..MaxTime /\ rows' \in [Keys -> Row]
    BY <1>6 DEF Reset, IInv, TypeOK
  <2>2. QED
    BY <2>1, IdleKind
<1>7. CASE UNCHANGED vars
  <2>1. TypeOK'
    BY <1>7 DEF IInv, TypeOK, Running, vars
  <2>2. QED
    BY <1>7, <2>1 DEF IInv, ListInv, GetInv, ReplyInv, Answer, Present, vars
<1>8. QED
  BY <1>1, <1>2, <1>3, <1>4, <1>5, <1>6, <1>7 DEF Next

\* The inductive invariant, for any finite set of keys, page sizes and batches.
THEOREM InductiveInvariant == Spec => []IInv
  BY InitIInv, NextIInv, PTL DEF Spec

\* Type correctness: in particular no more goroutines run than the semaphore admits.
THEOREM TypeCorrect == Spec => []TypeOK
<1>1. IInv => TypeOK
  BY DEF IInv
<1>2. QED
  BY <1>1, InductiveInvariant, PTL

\* A client that follows the page tokens never gets a version of a key twice.
THEOREM Listed == Spec => []ListedOnce
<1>1. IInv => ListedOnce
  BY DEF IInv, ListInv, ListedOnce
<1>2. QED
  BY <1>1, InductiveInvariant, PTL

\* The reply to BatchGetKeys has at each index the answer for its item, and the same
\* version for items that name the same key.
THEOREM BatchAnswered == Spec => []BatchExact
<1>1. ASSUME IInv, client.pc = "got", NEW i \in DOMAIN client.items
      PROVE  LET v == InKeyMap(client.snapshot[i])
             IN  /\ client.snapshot[i] = {} \/ i \in client.failed => client.results[i] = Error
                 /\ client.results[i] # Error =>
                      /\ client.results[i] = [key |-> client.items[i], version |-> v]
                      /\ v \in client.snapshot[i]
  <2>1. client \in GetCall /\ DOMAIN client.snapshot = DOMAIN client.items
    BY <1>1, GetFacts
  <2>2. client.results[i] = Answer(client, i, i \in client.failed)
    BY <1>1 DEF IInv, GetInv
  <2>3. (i \in client.failed) \in BOOLEAN
    OBVIOUS
  <2>4. QED
    BY <1>1, <2>1, <2>2, <2>3, AnswerIs
<1>2. IInv => BatchExact
  <2> SUFFICES ASSUME IInv, client.pc = "got"
               PROVE  BatchExact
    BY DEF BatchExact
  <2>1. ASSUME NEW i \in DOMAIN client.items, client.results[i] # Error
        PROVE  /\ client.results[i].key = client.items[i]
               /\ client.results[i].version \in client.snapshot[i]
    <3> DEFINE v == InKeyMap(client.snapshot[i])
    <3>1. client.results[i] = [key |-> client.items[i], version |-> v]
          /\ v \in client.snapshot[i]
      BY <1>1, <2>1
    <3> HIDE DEF v
    <3>2. client.results[i].key = client.items[i] /\ client.results[i].version = v
      BY <3>1
    <3>3. QED
      BY <3>1, <3>2
  <2>2. ASSUME NEW i \in DOMAIN client.items, NEW j \in DOMAIN client.items,
               client.items[j] = client.items[i],
               client.results[i] # Error, client.results[j] # Error
        PROVE  client.results[j] = client.results[i]
    <3>1. client.snapshot[j] = client.snapshot[i]
      BY <2>2 DEF IInv, GetInv
    <3>2. QED
      BY <1>1, <2>2, <3>1
  <2>3. \A i \in DOMAIN client.items :
          client.snapshot[i] = {} \/ i \in client.failed => client.results[i] = Error
    BY <1>1
  <2>4. QED
    BY <2>1, <2>2, <2>3 DEF BatchExact
<1>3. QED
  BY <1>2, InductiveInvariant, PTL

\* Each token is older than the one before: however many rows are added, a listing
\* asks for at most as many pages as there are times below its cursor.
TokensDescend ==
    [][\A P \in SUBSET Keys : \A lost \in SUBSET P : Page(P, lost) =>
        /\ client'.cursor <= client.cursor
        /\ client'.pc = "list" => client'.cursor < client.cursor]_vars

\* The token of each page is older than that of the page before, whatever other
\* clients do to the table between the two requests.
THEOREM ListingVariant == Spec => TokensDescend
<1> DEFINE A == \A P \in SUBSET Keys : \A lost \in SUBSET P : Page(P, lost) =>
                  /\ client'.cursor <= client.cursor
                  /\ client'.pc = "list" => client'.cursor < client.cursor
<1>1. ASSUME IInv, NEW P \in SUBSET Keys, NEW lost \in SUBSET P, Page(P, lost)
      PROVE  /\ client'.cursor <= client.cursor
             /\ client'.pc = "list" => client'.cursor < client.cursor
  <2> DEFINE kept == P \ lost
             more == HasNext(Cardinality(kept), client.limit)
  <2>1. /\ client \in Listing
        /\ Last(kept) <= client.cursor
        /\ more => Last(kept) < client.cursor
    BY <1>1, PageFacts
  <2>2. client'.pc = (IF more THEN "list" ELSE "listed") /\ client'.cursor = Last(kept)
    BY <1>1, <2>1 DEF Page, Last, Listing
  <2>3. QED
    BY <2>1, <2>2
<1>2. IInv /\ [Next]_vars => [A]_vars
  BY <1>1
<1>3. QED
  BY <1>2, InductiveInvariant, PTL DEF Spec, TokensDescend
=============================================================================
