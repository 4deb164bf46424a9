---------------------- MODULE KeyRotationPipeline_proofs ----------------------
(***************************************************************************)
(* Proofs about KeyRotationPipeline, for every number of callers, workers  *)
(* and keys and every queue depth.  Conservation is inductive: each action *)
(* moves one request between the terms of the equation, so each of its     *)
(* cases follows from how the sets Waiting and Busy change.                *)
(***************************************************************************)
EXTENDS KeyRotationPipeline, FiniteSetTheorems, TLAPS

USE PipelineAssumption

\* The placeholder key of an idle caller or worker is a key.
LEMMA AnyKeyType == AnyKey \in Keys
  BY DEF AnyKey

\* What a channel operation does to a channel.
LEMMA AppendFacts ==
    ASSUME NEW S, NEW s \in Seq(S), NEW x \in S
    PROVE  Append(s, x) \in Seq(S) /\ Len(Append(s, x)) = Len(s) + 1
  OBVIOUS

LEMMA TailFacts ==
    ASSUME NEW S, NEW s \in Seq(S), s # <<>>
    PROVE  Head(s) \in S /\ Tail(s) \in Seq(S) /\ Len(Tail(s)) = Len(s) - 1
  OBVIOUS

\* Every step of a caller or a worker preserves the types.
LEMMA TypeStep == TypeOK /\ [Next]_vars => TypeOK'
<1> SUFFICES ASSUME TypeOK, [Next]_vars PROVE TypeOK'
  OBVIOUS
<1> USE DEF TypeOK
<1>1. CASE UNCHANGED vars
  BY <1>1 DEF vars
<1>2. ASSUME NEW c \in Callers, NEW k \in Keys, Prepare(c, k) PROVE TypeOK'
  BY <1>2 DEF Prepare, CallerState
<1>3. ASSUME NEW c \in Callers, Enqueue(c) PROVE TypeOK'
  <2>1. CASE Len(requests) < QueueDepth
    <3>1. requests' \in Seq(Keys) /\ Len(requests') <= QueueDepth
      <4>1. caller[c].key \in Keys
        BY DEF CallerState
      <4>2. requests' = Append(requests, caller[c].key)
        BY <1>3, <2>1 DEF Enqueue
      <4>3. requests' \in Seq(Keys) /\ Len(requests') = Len(requests) + 1
        BY <4>1, <4>2, AppendFacts
      <4>4. Len(requests) \in Nat
        OBVIOUS
      <4>5. QED
        BY <2>1, <4>3, <4>4, PipelineAssumption
    <3>2. caller' \in [Callers -> CallerState]
      <4>1. caller' = [caller EXCEPT ![c].pc = "waiting"]
        BY <1>3, <2>1 DEF Enqueue
      <4>2. QED
        BY <4>1 DEF CallerState
    <3>3. QED
      BY <1>3, <3>1, <3>2 DEF Enqueue
  <2>2. CASE Len(requests) = QueueDepth
    <3>1. caller' = [caller EXCEPT ![c] = NoCall] /\ UNCHANGED requests
      BY <1>3, <2>2 DEF Enqueue
    <3>2. QED
      BY <1>3, <3>1, AnyKeyType DEF Enqueue, CallerState, NoCall
  <2>3. QED
    BY <1>3, <2>1, <2>2 DEF Enqueue
<1>4. ASSUME NEW c \in Callers, Receive(c) PROVE TypeOK'
  BY <1>4, AnyKeyType, TailFacts DEF Receive, CallerState, NoCall
<1>5. ASSUME NEW c \in Callers, Cancel(c) PROVE TypeOK'
  BY <1>5, AnyKeyType DEF Cancel, CallerState, NoCall
<1>6. ASSUME NEW w \in Workers, Take(w) PROVE TypeOK'
  BY <1>6, TailFacts DEF Take, WorkerState, Result
<1>7. ASSUME NEW w \in Workers, ProcessRotation(w) PROVE TypeOK'
  BY <1>7 DEF ProcessRotation, WorkerState, Result
<1>8. ASSUME NEW w \in Workers, SendResult(w) PROVE TypeOK'
  BY <1>8, AnyKeyType, AppendFacts DEF SendResult, WorkerState, Result, NoResult
<1>9. QED
  BY <1>1, <1>2, <1>3, <1>4, <1>5, <1>6, <1>7, <1>8 DEF Next

\* The channels hold keys and results of keys and never more than their
\* capacity, and callers and workers are in a state of the code.
THEOREM TypeCorrect == Spec => []TypeOK
<1>1. Init => TypeOK
  BY AnyKeyType DEF Init, TypeOK, NoResult, NoCall, WorkerState, CallerState, Result
<1>2. QED
  BY <1>1, TypeStep, PTL DEF Spec

\* Waiting and Busy are finite, and their cardinalities are numbers.
LEMMA Counts ==
    /\ IsFiniteSet(Waiting) /\ Cardinality(Waiting) \in Nat
    /\ IsFiniteSet(Busy) /\ Cardinality(Busy) \in Nat
<1>1. IsFiniteSet(Waiting)
  BY FS_Subset DEF Waiting
<1>2. IsFiniteSet(Busy)
  BY FS_Subset DEF Busy
<1>3. QED
  BY <1>1, <1>2, FS_CardinalityType

\* One more caller or worker.
LEMMA CountUp ==
    ASSUME NEW S, IsFiniteSet(S), NEW T, NEW x, x \notin S, T = S \cup {x}
    PROVE  Cardinality(T) = Cardinality(S) + 1
  BY FS_AddElement

\* One caller or worker fewer.
LEMMA CountDown ==
    ASSUME NEW S, IsFiniteSet(S), NEW T, NEW x \in S, T = S \ {x}
    PROVE  Cardinality(T) = Cardinality(S) - 1
  BY FS_RemoveElement

\* Each action moves a request from one term of the equation to the next, or
\* removes one from each side.
LEMMA ConservationStep == TypeOK /\ Conservation /\ [Next]_vars => Conservation'
<1> SUFFICES ASSUME TypeOK, Conservation, [Next]_vars PROVE Conservation'
  OBVIOUS
<1> USE DEF Conservation
<1>0. /\ Len(requests) \in Nat /\ Len(results) \in Nat /\ abandoned \in Nat
  BY DEF TypeOK
<1>1. CASE UNCHANGED vars
  BY <1>1 DEF vars, Waiting, Busy
<1>2. ASSUME NEW c \in Callers, NEW k \in Keys, Prepare(c, k) PROVE Conservation'
  <2>1. Waiting' = Waiting /\ Busy' = Busy
    BY <1>2 DEF Prepare, Waiting, Busy, TypeOK
  <2>2. QED
    BY <1>2, <2>1 DEF Prepare
<1>3. ASSUME NEW c \in Callers, Enqueue(c) PROVE Conservation'
  <2>1. Busy' = Busy
    BY <1>3 DEF Enqueue, Busy, TypeOK
  <2>2. CASE Len(requests) < QueueDepth
    <3>1. Waiting' = Waiting \cup {c} /\ c \notin Waiting
      BY <1>3, <2>2 DEF Enqueue, Waiting, CallerState, TypeOK
    <3>2. Cardinality(Waiting') = Cardinality(Waiting) + 1
      BY <3>1, CountUp, Counts
    <3>3. Len(requests') = Len(requests) + 1 /\ UNCHANGED <<results, abandoned>>
      BY <1>3, <2>2, AppendFacts DEF Enqueue, CallerState, TypeOK
    <3>4. QED
      BY <1>0, <2>1, <3>2, <3>3, Counts
  <2>3. CASE Len(requests) = QueueDepth
    <3>0. caller[c].pc = "ready" /\ caller' = [caller EXCEPT ![c] = NoCall]
      BY <1>3, <2>3 DEF Enqueue
    <3>1. Waiting' = Waiting
      BY <3>0 DEF Waiting, CallerState, NoCall, TypeOK
    <3>2. QED
      BY <1>3, <2>1, <2>3, <3>1 DEF Enqueue
  <2>4. QED
    BY <1>3, <2>2, <2>3 DEF Enqueue
<1>4. ASSUME NEW c \in Callers, Receive(c) PROVE Conservation'
  <2>1. Busy' = Busy
    BY <1>4 DEF Receive, Busy, TypeOK
  <2>2. Waiting' = Waiting \ {c} /\ c \in Waiting
    BY <1>4 DEF Receive, Waiting, CallerState, NoCall, TypeOK
  <2>3. Cardinality(Waiting') = Cardinality(Waiting) - 1
    BY <2>2, CountDown, Counts
  <2>4. Len(results') = Len(results) - 1 /\ UNCHANGED <<requests, abandoned>>
    BY <1>4, TailFacts DEF Receive, TypeOK
  <2>5. QED
    BY <1>0, <2>1, <2>3, <2>4, Counts
<1>5. ASSUME NEW c \in Callers, Cancel(c) PROVE Conservation'
  <2>1. Busy' = Busy
    BY <1>5 DEF Cancel, Busy, TypeOK
  <2>2. Waiting' = Waiting \ {c} /\ c \in Waiting
    BY <1>5 DEF Cancel, Waiting, CallerState, NoCall, TypeOK
  <2>3. Cardinality(Waiting') = Cardinality(Waiting) - 1
    BY <2>2, CountDown, Counts
  <2>4. abandoned' = abandoned + 1 /\ UNCHANGED <<requests, results>>
    BY <1>5 DEF Cancel
  <2>5. QED
    BY <1>0, <2>1, <2>3, <2>4, Counts
<1>6. ASSUME NEW w \in Workers, Take(w) PROVE Conservation'
  <2>1. Waiting' = Waiting
    BY <1>6 DEF Take, Waiting, TypeOK
  <2>2. Busy' = Busy \cup {w} /\ w \notin Busy
    BY <1>6 DEF Take, Busy, WorkerState, TypeOK
  <2>3. Cardinality(Busy') = Cardinality(Busy) + 1
    BY <2>2, CountUp, Counts
  <2>4. Len(requests') = Len(requests) - 1 /\ UNCHANGED <<results, abandoned>>
    BY <1>6, TailFacts DEF Take, TypeOK
  <2>5. QED
    BY <1>0, <2>1, <2>3, <2>4, Counts
<1>7. ASSUME NEW w \in Workers, ProcessRotation(w) PROVE Conservation'
  <2>1. Waiting' = Waiting /\ Busy' = Busy
    BY <1>7 DEF ProcessRotation, Waiting, Busy, WorkerState, TypeOK
  <2>2. QED
    BY <1>7, <2>1 DEF ProcessRotation
<1>8. ASSUME NEW w \in Workers, SendResult(w) PROVE Conservation'
  <2>1. Waiting' = Waiting
    BY <1>8 DEF SendResult, Waiting, TypeOK
  <2>2. Busy' = Busy \ {w} /\ w \in Busy
    BY <1>8 DEF SendResult, Busy, WorkerState, NoResult, TypeOK
  <2>3. Cardinality(Busy') = Cardinality(Busy) - 1
    BY <2>2, CountDown, Counts
  <2>4. Len(results') = Len(results) + 1 /\ UNCHANGED <<requests, abandoned>>
    BY <1>8, AppendFacts DEF SendResult, WorkerState, TypeOK
  <2>5. QED
    BY <1>0, <2>1, <2>3, <2>4, Counts
<1>9. QED
  BY <1>1, <1>2, <1>3, <1>4, <1>5, <1>6, <1>7, <1>8 DEF Next

\* Nothing is lost or duplicated between the callers, the two channels and the
\* workers: whoever has left the pipeline without its result has left a result
\* in it.
THEOREM Conserved == Spec => []Conservation
<1>1. Init => Conservation
  <2> SUFFICES ASSUME Init PROVE Conservation
    OBVIOUS
  <2>1. Waiting = {} /\ Busy = {}
    BY DEF Init, Waiting, Busy, NoCall, NoResult
  <2>2. QED
    BY <2>1, FS_EmptySet DEF Init, Conservation
<1>2. QED
  BY <1>1, TypeCorrect, ConservationStep, PTL DEF Spec
=============================================================================
