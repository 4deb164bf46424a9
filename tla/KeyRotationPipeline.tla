-------------------------- MODULE KeyRotationPipeline --------------------------
(***************************************************************************)
(* The asynchronous rotation pipeline (internal/pipelines) and its only    *)
(* client, keyServiceImpl.RotateKey.  Callers put requests on one bounded  *)
(* channel, a fixed set of workers rotates the keys and puts the results   *)
(* on a second bounded channel, and every caller takes whatever result it  *)
(* finds there; a caller whose context ends first leaves its result        *)
(* behind.  The workers run with context.Background(), so their            *)
(* cancellation branches never fire.  What a rotation does to the key is   *)
(* module KeyStore's subject: here it succeeds or fails.                   *)
(***************************************************************************)
EXTENDS Integers, Sequences, FiniteSets

CONSTANTS Keys,        \* key ids
          Callers,     \* concurrent RotateKey calls
          Workers,     \* pipeline workers (5 in NewKeyService)
          QueueDepth   \* capacity of each channel (100 in NewKeyService)

ASSUME PipelineAssumption ==
    /\ QueueDepth \in Nat \ {0}
    /\ IsFiniteSet(Callers)
    /\ IsFiniteSet(Workers)
    /\ Keys # {}

VARIABLES requests,   \* channel of key ids to rotate
          results,    \* channel of KeyRotationResult
          worker,     \* worker[w]: what worker w is doing
          caller,     \* caller[c]: what RotateKey call c is doing
          abandoned   \* how many callers have left before a result reached them

vars == <<requests, results, worker, caller, abandoned>>

-----------------------------------------------------------------------------

Result == [key: Keys, ok: BOOLEAN]

AnyKey == CHOOSE k \in Keys : TRUE

WorkerState == [pc: {"idle", "rotating", "sending"}, result: Result]

CallerState == [pc: {"idle", "ready", "waiting"}, key: Keys]

\* Neither channel holds more than its capacity; workers and callers have their types.
TypeOK ==
    /\ requests \in Seq(Keys) /\ Len(requests) <= QueueDepth
    /\ results \in Seq(Result) /\ Len(results) <= QueueDepth
    /\ worker \in [Workers -> WorkerState]
    /\ caller \in [Callers -> CallerState]
    /\ abandoned \in Nat

Waiting == {c \in Callers : caller[c].pc = "waiting"}

Busy == {w \in Workers : worker[w].pc # "idle"}

NoResult == [pc |-> "idle", result |-> [key |-> AnyKey, ok |-> FALSE]]

NoCall == [pc |-> "idle", key |-> AnyKey]

Init ==
    /\ requests = <<>>
    /\ results = <<>>
    /\ worker = [w \in Workers |-> NoResult]
    /\ caller = [c \in Callers |-> NoCall]
    /\ abandoned = 0

-----------------------------------------------------------------------------
(* RotateKey *)

\* The checks before the pipeline: the key exists, its KMS provider and DEK
\* pool are known.  (A failed check ends the call without a trace.)
Prepare(c, k) ==
    /\ caller[c].pc = "idle"
    /\ caller' = [caller EXCEPT ![c] = [pc |-> "ready", key |-> k]]
    /\ UNCHANGED <<requests, results, worker, abandoned>>

\* Mutant: the request is queued without looking at the capacity.
EnqueueUnbounded(c) ==
    /\ caller[c].pc = "ready"
    /\ requests' = Append(requests, caller[c].key)
    /\ caller' = [caller EXCEPT ![c].pc = "waiting"]
    /\ UNCHANGED <<results, worker, abandoned>>

\* Enqueue never blocks: the request is queued, or RotateKey returns
\* ResourceExhausted.
Enqueue(c) ==
    /\ caller[c].pc = "ready"
    /\ \/ /\ Len(requests) < QueueDepth
          /\ requests' = Append(requests, caller[c].key)
          /\ caller' = [caller EXCEPT ![c].pc = "waiting"]
       \/ /\ Len(requests) = QueueDepth
          /\ caller' = [caller EXCEPT ![c] = NoCall]
          /\ UNCHANGED requests
    /\ UNCHANGED <<results, worker, abandoned>>

\* case result := <-Results(): the next result, whosever it is.
Receive(c) ==
    /\ caller[c].pc = "waiting"
    /\ results # <<>>
    /\ results' = Tail(results)
    /\ caller' = [caller EXCEPT ![c] = NoCall]
    /\ UNCHANGED <<requests, worker, abandoned>>

\* case <-ctx.Done(): the request stays in the pipeline.
Cancel(c) ==
    /\ caller[c].pc = "waiting"
    /\ caller' = [caller EXCEPT ![c] = NoCall]
    /\ abandoned' = abandoned + 1
    /\ UNCHANGED <<requests, results, worker>>

-----------------------------------------------------------------------------
(* worker *)

Take(w) ==
    /\ worker[w].pc = "idle"
    /\ requests # <<>>
    /\ worker' = [worker EXCEPT ![w] =
                    [pc |-> "rotating", result |-> [key |-> Head(requests), ok |-> FALSE]]]
    /\ requests' = Tail(requests)
    /\ UNCHANGED <<results, caller, abandoned>>

\* processRotation: GetKey, EncryptDEK and RotateKey, each of which can fail.
ProcessRotation(w) ==
    /\ worker[w].pc = "rotating"
    /\ \E ok \in BOOLEAN :
         worker' = [worker EXCEPT ![w] = [pc |-> "sending",
                                          result |-> [key |-> @.result.key, ok |-> ok]]]
    /\ UNCHANGED <<requests, results, caller, abandoned>>

\* Mutant: a failed rotation only logs its error and produces no result.
SendResultOnlySuccess(w) ==
    /\ worker[w].pc = "sending"
    /\ Len(results) < QueueDepth
    /\ results' = IF worker[w].result.ok THEN Append(results, worker[w].result) ELSE results
    /\ worker' = [worker EXCEPT ![w] = NoResult]
    /\ UNCHANGED <<requests, caller, abandoned>>

\* p.results <- result: blocks while the channel is full.
SendResult(w) ==
    /\ worker[w].pc = "sending"
    /\ Len(results) < QueueDepth
    /\ results' = Append(results, worker[w].result)
    /\ worker' = [worker EXCEPT ![w] = NoResult]
    /\ UNCHANGED <<requests, caller, abandoned>>

-----------------------------------------------------------------------------

Next ==
    \/ \E c \in Callers, k \in Keys : Prepare(c, k)
    \/ \E c \in Callers : Enqueue(c) \/ Receive(c) \/ Cancel(c)
    \/ \E w \in Workers : Take(w) \/ ProcessRotation(w) \/ SendResult(w)

Spec == Init /\ [][Next]_vars

\* Goroutines are scheduled; a channel serves its blocked receivers, and its
\* blocked senders, in the order in which they arrived.
FairSpec ==
    /\ Spec
    /\ \A c \in Callers : WF_vars(Enqueue(c)) /\ SF_vars(Receive(c))
    /\ \A w \in Workers :
         SF_vars(Take(w)) /\ WF_vars(ProcessRotation(w)) /\ SF_vars(SendResult(w))

-----------------------------------------------------------------------------
(* Properties *)

\* Nothing is lost in the pipeline: the requests queued, being processed or
\* answered are as many as the callers still waiting plus those that gave up.
\* Every waiting caller therefore has a result coming, and a result nobody
\* waited for stays for ever: callers that leave fill the pipeline for good.
Conservation ==
    Len(requests) + Cardinality(Busy) + Len(results)
        = Cardinality(Waiting) + abandoned

\* A RotateKey call that does not give up is answered, with any number of other
\* callers taking results and any number of them leaving.
WaitersServed ==
    \A c \in Callers : caller[c].pc = "waiting" ~> caller[c].pc = "idle"

\* docs/API_REFERENCE.md, RotateKeyResponse: key_id is "The UUID of the key" and
\* new_version, new_key_material those of its rotation: the result a caller
\* receives is of the key it asked for.
ReplyIsForTheKey ==
    [][\A c \in Callers : Receive(c) => Head(results).key = caller[c].key]_vars

\* RotateKey, when it refuses a request: "key rotation queue is full, please try
\* again later": a full queue does not stay full for ever.
QueueDrains == []<>(Len(requests) < QueueDepth)
=============================================================================
