------------------------ MODULE AsyncAuditLogger_proofs ------------------------
(***************************************************************************)
(* Proofs about module AsyncAuditLogger, for any number of handlers and    *)
(* workers and any sizes.  Two arguments share one inductive invariant:    *)
(* the places an event can be in are disjoint, and the order of the        *)
(* shutdown leaves a worker that has ended nothing to do.                  *)
(***************************************************************************)
EXTENDS AsyncAuditLogger, FiniteSetTheorems, TLAPS

Batch(w) == Elems(worker[w].batch)

\* The events that have left the workers, or never reached the channel.
Settled == dropped \cup written \cup failed

\* An event is in one place only, and the places hold every event emitted.
Partition ==
    /\ IsInjective(eventChannel)
    /\ \A v, w \in Workers : v # w => Batch(v) \cap Batch(w) = {}
    /\ Elems(eventChannel) \cap InBatches = {}
    /\ Elems(eventChannel) \cap Settled = {}
    /\ InBatches \cap Settled = {}
    /\ dropped \cap written = {} /\ dropped \cap failed = {} /\ written \cap failed = {}
    /\ 1..emitted = Elems(eventChannel) \cup InBatches \cup Settled

\* A worker that receives has room for one more event.
RoomLeft == \A w \in Workers : worker[w].pc = "select" => Len(worker[w].batch) < BatchSize

\* The channel is closed by the phase that waits for the workers, which ends with
\* the last of them.
PhaseOrder ==
    /\ closed <=> phase \in {"waiting", "poolClosed"}
    /\ phase = "poolClosed" => \A w \in Workers : worker[w].pc = "done"

\* A worker leaves its loop only when the channel is closed and empty.
EndedEmpty ==
    \A w \in Workers :
        /\ worker[w].pc \in {"lastFlush", "done"} => closed /\ eventChannel = <<>>
        /\ worker[w].pc = "done" => worker[w].batch = <<>>

IInv ==
    TypeOK /\ Partition /\ RoomLeft /\ PhaseOrder /\ NoSendOnClosed /\ EndedEmpty

-----------------------------------------------------------------------------
(* Channels and batches as sequences *)

\* What sending to a channel, or adding to a batch, leaves.
LEMMA AppendElems ==
    ASSUME NEW s \in Seq(Event), NEW e \in Event
    PROVE  /\ Append(s, e) \in Seq(Event) /\ Len(Append(s, e)) = Len(s) + 1 /\ Len(s) \in Nat
           /\ Elems(Append(s, e)) = Elems(s) \cup {e}
           /\ IsInjective(s) /\ e \notin Elems(s) => IsInjective(Append(s, e))
<1> DEFINE t == Append(s, e)
<1>1. /\ t \in Seq(Event) /\ Len(t) = Len(s) + 1 /\ Len(s) \in Nat
      /\ \A i \in 1..Len(s) : t[i] = s[i]
      /\ t[Len(s) + 1] = e
      /\ DOMAIN t = 1..(Len(s) + 1) /\ DOMAIN s = 1..Len(s)
  OBVIOUS
<1> HIDE DEF t
<1>2. \A i \in 1..(Len(s) + 1) : i \in 1..Len(s) \/ i = Len(s) + 1
  BY <1>1
<1>3. \A i \in 1..Len(s) : i \in 1..(Len(s) + 1)
  BY <1>1
<1>4. Len(s) + 1 \in 1..(Len(s) + 1)
  BY <1>1
<1>5. Elems(t) = Elems(s) \cup {e}
  <2>1. Elems(t) \subseteq Elems(s) \cup {e}
    BY <1>1, <1>2 DEF Elems
  <2>2. Elems(s) \subseteq Elems(t)
    BY <1>1, <1>3 DEF Elems
  <2>3. e \in Elems(t)
    BY <1>1, <1>4 DEF Elems
  <2>4. QED
    BY <2>1, <2>2, <2>3
<1>6. ASSUME IsInjective(s), e \notin Elems(s)
      PROVE  IsInjective(t)
  <2> SUFFICES ASSUME NEW i \in 1..(Len(s) + 1), NEW j \in 1..(Len(s) + 1), t[i] = t[j]
               PROVE  i = j
    BY <1>1 DEF IsInjective
  <2>1. \A k \in 1..Len(s) : t[k] # e
    BY <1>1, <1>6 DEF Elems
  <2>2. QED
    BY <1>1, <1>2, <1>6, <2>1 DEF IsInjective
<1>7. QED
  BY <1>1, <1>5, <1>6 DEF t

\* What receiving from a channel leaves.
LEMMA TailElems ==
    ASSUME NEW s \in Seq(Event), s # <<>>, IsInjective(s)
    PROVE  /\ Head(s) \in Event /\ Head(s) \in Elems(s)
           /\ Tail(s) \in Seq(Event) /\ Len(Tail(s)) = Len(s) - 1 /\ Len(s) \in Nat
           /\ Elems(Tail(s)) = Elems(s) \ {Head(s)}
           /\ IsInjective(Tail(s))
<1> DEFINE t == Tail(s)
<1>1. /\ Len(s) \in Nat \ {0} /\ t \in Seq(Event) /\ Len(t) = Len(s) - 1
      /\ Head(s) = s[1] /\ Head(s) \in Event
      /\ DOMAIN t = 1..(Len(s) - 1) /\ DOMAIN s = 1..Len(s)
  OBVIOUS
<1>2. \A i \in 1..(Len(s) - 1) : t[i] = s[i + 1]
  OBVIOUS
<1> HIDE DEF t
<1>3. 1 \in 1..Len(s)
  BY <1>1
<1>4. Head(s) \in Elems(s)
  BY <1>1, <1>3 DEF Elems
<1>5. \A i \in 1..(Len(s) - 1) : i + 1 \in 1..Len(s) /\ i + 1 # 1
  BY <1>1
<1>6. \A i \in 1..Len(s) : i # 1 => i - 1 \in 1..(Len(s) - 1) /\ s[i] = t[i - 1]
  BY <1>1, <1>2
<1>7. Elems(t) = Elems(s) \ {Head(s)}
  <2>1. ASSUME NEW e \in Elems(t)
        PROVE  e \in Elems(s) /\ e # Head(s)
    <3>1. PICK i \in 1..(Len(s) - 1) : e = t[i]
      BY <1>1, <2>1 DEF Elems
    <3>2. e = s[i + 1] /\ i + 1 \in 1..Len(s) /\ i + 1 # 1
      BY <1>2, <1>5, <3>1
    <3>3. QED
      BY <1>1, <1>3, <3>2 DEF Elems, IsInjective
  <2>2. ASSUME NEW e \in Elems(s), e # Head(s)
        PROVE  e \in Elems(t)
    <3>1. PICK i \in 1..Len(s) : e = s[i]
      BY <1>1, <2>2 DEF Elems
    <3>2. i # 1
      BY <1>1, <2>2, <3>1
    <3>3. QED
      BY <1>1, <1>6, <3>1, <3>2 DEF Elems
  <2>3. QED
    BY <2>1, <2>2
<1>8. IsInjective(t)
  <2> SUFFICES ASSUME NEW i \in 1..(Len(s) - 1), NEW j \in 1..(Len(s) - 1), t[i] = t[j]
               PROVE  i = j
    BY <1>1 DEF IsInjective
  <2>1. s[i + 1] = s[j + 1] /\ i + 1 \in 1..Len(s) /\ j + 1 \in 1..Len(s)
    BY <1>2, <1>5
  <2>2. i + 1 = j + 1
    BY <2>1 DEF IsInjective
  <2>3. QED
    BY <1>1, <2>2
<1>9. QED
  BY <1>1, <1>4, <1>7, <1>8 DEF t

\* The empty channel, or batch.
LEMMA EmptySeq ==
    <<>> \in Seq(Event) /\ Len(<<>>) = 0 /\ Elems(<<>>) = {} /\ IsInjective(<<>>)
  BY DEF Elems, IsInjective

\* A channel without duplicates holds as many events as it is long.
LEMMA LenIsCardinality ==
    ASSUME NEW s \in Seq(Event), IsInjective(s)
    PROVE  Cardinality(Elems(s)) = Len(s)
<1>1. Len(s) \in Nat /\ DOMAIN s = 1..Len(s)
  OBVIOUS
<1>2. s \in Bijection(1..Len(s), Elems(s))
  <2>1. s \in [1..Len(s) -> Elems(s)]
    BY <1>1 DEF Elems
  <2>2. QED
    BY <1>1, <2>1 DEF Bijection, Injection, Surjection, IsInjective, Elems
<1>3. QED
  BY <1>1, <1>2, FS_CountingElements DEF ExistsBijection

-----------------------------------------------------------------------------
(* The inductive invariant *)

\* The initial states.
LEMMA InitIInv == Init => IInv
<1> SUFFICES ASSUME Init PROVE IInv
  OBVIOUS
<1>1. [pc |-> "select", batch |-> <<>>] \in Worker
  BY EmptySeq DEF Worker
<1>2. \A w \in Workers : worker[w].pc = "select" /\ worker[w].batch = <<>>
  BY DEF Init
<1>3. worker \in [Workers -> Worker]
  BY <1>1 DEF Init
<1>4. TypeOK
  <2>1. 0 <= ChannelBufferSize /\ 0 <= BatchSize /\ 0 \in 0..MaxEvents
    BY AuditAssumption
  <2>2. eventChannel \in Seq(Event) /\ Len(eventChannel) <= ChannelBufferSize
    BY <2>1, EmptySeq DEF Init
  <2>3. \A w \in Workers : Len(worker[w].batch) <= BatchSize
    BY <1>2, <2>1, EmptySeq
  <2>4. handler \in [Handlers -> BOOLEAN]
    BY DEF Init
  <2>5. QED
    BY <1>3, <2>1, <2>2, <2>3, <2>4 DEF Init, TypeOK, Phases
<1>5. InBatches = {} /\ \A w \in Workers : Batch(w) = {}
  BY <1>2, EmptySeq DEF InBatches, Batch
<1>6. 1..emitted = {}
  BY DEF Init
<1>7. Partition
  BY <1>5, <1>6, EmptySeq DEF Init, Partition, Settled
<1>8. RoomLeft /\ EndedEmpty
  BY <1>2, EmptySeq, AuditAssumption DEF RoomLeft, EndedEmpty
<1>9. PhaseOrder /\ NoSendOnClosed
  BY DEF Init, PhaseOrder, NoSendOnClosed
<1>10. QED
  BY <1>4, <1>7, <1>8, <1>9 DEF IInv

\* A worker changes its own record only.
LEMMA OneWorker ==
    ASSUME TypeOK, NEW w \in Workers, NEW n \in Worker, worker' = [worker EXCEPT ![w] = n]
    PROVE  /\ worker' \in [Workers -> Worker]
           /\ \A x \in Workers : worker'[x] = IF x = w THEN n ELSE worker[x]
  BY DEF TypeOK

\* The handlers come and go while the channel is open.
LEMMA HandlerStep ==
    ASSUME IInv, NEW h \in Handlers, Accept(h) \/ Finish(h)
    PROVE  IInv'
<1>1. UNCHANGED <<phase, eventChannel, closed, worker, emitted, dropped, written, failed>>
  BY DEF Accept, Finish, history
<1>2. handler' \in [Handlers -> BOOLEAN]
  BY DEF IInv, TypeOK, Accept, Finish
<1>3. NoSendOnClosed'
  <2>1. CASE Accept(h)
    BY <2>1, <1>1 DEF IInv, PhaseOrder, NoSendOnClosed, Accept
  <2>2. CASE Finish(h)
    BY <2>2, <1>1 DEF IInv, TypeOK, NoSendOnClosed, Finish
  <2>3. QED
    BY <2>1, <2>2
<1>4. TypeOK'
  BY <1>1, <1>2 DEF IInv, TypeOK
<1>5. QED
  BY <1>1, <1>3, <1>4
     DEF IInv, Partition, Batch, InBatches, Settled, RoomLeft, PhaseOrder, EndedEmpty

\* An event is queued or dropped: it is new, and the channel is open.
LEMMA AuditLogStep ==
    ASSUME IInv, NEW h \in Handlers, AuditLog(h)
    PROVE  IInv'
<1> DEFINE e == emitted + 1
<1>1. /\ emitted \in Nat /\ e \in Event /\ emitted' = e
      /\ UNCHANGED <<phase, handler, closed, worker, written, failed>>
  BY AuditAssumption DEF IInv, TypeOK, AuditLog, Event
<1>2. e \notin 1..emitted /\ 1..e = 1..emitted \cup {e}
  BY <1>1
<1>3. ~closed
  BY DEF IInv, NoSendOnClosed, AuditLog
<1>4. \A w \in Workers : worker[w].pc \notin {"lastFlush", "done"}
  BY <1>3 DEF IInv, EndedEmpty
<1>5. /\ eventChannel' \in Seq(Event) /\ Len(eventChannel') <= ChannelBufferSize
      /\ IsInjective(eventChannel')
      /\ dropped' \subseteq Event
      /\ \/ Elems(eventChannel') = Elems(eventChannel) \cup {e} /\ dropped' = dropped
         \/ Elems(eventChannel') = Elems(eventChannel) /\ dropped' = dropped \cup {e}
  <2>1. e \notin Elems(eventChannel)
    BY <1>2 DEF IInv, Partition
  <2>2. CASE /\ Len(eventChannel) < ChannelBufferSize
             /\ eventChannel' = Append(eventChannel, emitted + 1)
             /\ UNCHANGED dropped
    BY <1>1, <2>1, <2>2, AppendElems, AuditAssumption DEF IInv, TypeOK, Partition
  <2>3. CASE dropped' = dropped \cup {emitted + 1} /\ UNCHANGED eventChannel
    BY <1>1, <2>3 DEF IInv, TypeOK, Partition
  <2>4. QED
    BY <2>2, <2>3 DEF AuditLog
<1>6. InBatches' = InBatches /\ \A w \in Workers : Batch(w)' = Batch(w)
  BY <1>1 DEF InBatches, Batch
<1>7. emitted' \in 0..MaxEvents
  BY <1>1, AuditAssumption DEF Event
<1>8. TypeOK'
  BY <1>1, <1>5, <1>7 DEF IInv, TypeOK
<1> HIDE DEF e
<1>9. Partition'
  BY <1>1, <1>2, <1>5, <1>6 DEF IInv, Partition, Settled
<1>10. RoomLeft' /\ PhaseOrder' /\ NoSendOnClosed' /\ EndedEmpty'
  BY <1>1, <1>4 DEF IInv, RoomLeft, PhaseOrder, NoSendOnClosed, EndedEmpty
<1>11. QED
  BY <1>8, <1>9, <1>10 DEF IInv

\* An event moves from the channel to the batch of a worker, which has room.
LEMMA ReceiveStep ==
    ASSUME IInv, NEW w \in Workers, Receive(w)
    PROVE  IInv'
<1> DEFINE q == worker[w]
           e == Head(eventChannel)
           n == [pc |-> IF Len(q.batch) + 1 >= BatchSize THEN "flush" ELSE "select",
                 batch |-> Append(q.batch, e)]
<1>1. /\ eventChannel # <<>> /\ eventChannel' = Tail(eventChannel)
      /\ worker' = [worker EXCEPT ![w] = n] /\ q.pc = "select"
      /\ UNCHANGED <<phase, handler, closed, emitted, dropped, written, failed>>
  BY DEF Receive, history
<1>2. /\ e \in Event /\ e \in Elems(eventChannel)
      /\ eventChannel' \in Seq(Event) /\ Len(eventChannel') <= ChannelBufferSize
      /\ Elems(eventChannel') = Elems(eventChannel) \ {e} /\ IsInjective(eventChannel')
  BY <1>1, TailElems, AuditAssumption DEF IInv, TypeOK, Partition
<1>3. q.batch \in Seq(Event) /\ Len(q.batch) < BatchSize
  BY <1>1 DEF IInv, TypeOK, Worker, RoomLeft
<1> HIDE DEF q, e
<1>4. /\ Append(q.batch, e) \in Seq(Event) /\ Len(Append(q.batch, e)) = Len(q.batch) + 1
      /\ Len(q.batch) \in Nat /\ Elems(Append(q.batch, e)) = Elems(q.batch) \cup {e}
  BY <1>2, <1>3, AppendElems
<1>5. /\ n \in Worker /\ n.batch = Append(q.batch, e) /\ n.pc \in {"flush", "select"}
      /\ n.pc = "select" => Len(q.batch) + 1 < BatchSize
  BY <1>4, AuditAssumption DEF Worker
<1> HIDE DEF n
<1>6. /\ worker' \in [Workers -> Worker]
      /\ \A x \in Workers : worker'[x] = IF x = w THEN n ELSE worker[x]
  BY <1>1, <1>5, OneWorker DEF IInv
<1>7. \A x \in Workers : Batch(x)' = IF x = w THEN Batch(x) \cup {e} ELSE Batch(x)
  BY <1>4, <1>5, <1>6 DEF Batch, q
<1>8. InBatches' = InBatches \cup {e}
  <2>1. \A x : x \in InBatches <=> \E v \in Workers : x \in Batch(v)
    BY DEF InBatches, Batch
  <2>2. \A x : x \in InBatches' <=> \E v \in Workers : x \in Batch(v)'
    BY DEF InBatches, Batch
  <2>3. QED
    BY <1>7, <2>1, <2>2
<1>9. TypeOK'
  <2>1. \A x \in Workers : Len(worker'[x].batch) <= BatchSize
    BY <1>3, <1>4, <1>5, <1>6, AuditAssumption DEF IInv, TypeOK
  <2>2. QED
    BY <1>1, <1>2, <1>6, <2>1 DEF IInv, TypeOK
<1>10. Partition'
  <2>1. \A x \in Workers : e \notin Batch(x)
    BY <1>2 DEF IInv, Partition, InBatches, Batch
  <2>2. \A u, v \in Workers : u # v => Batch(u)' \cap Batch(v)' = {}
    BY <1>7, <2>1 DEF IInv, Partition
  <2>3. QED
    BY <1>1, <1>2, <1>8, <2>2 DEF IInv, Partition, Settled
<1>11. RoomLeft'
  BY <1>4, <1>5, <1>6 DEF IInv, RoomLeft
<1>12. \A x \in Workers : worker[x].pc \notin {"lastFlush", "done"}
  BY <1>1 DEF IInv, EndedEmpty
<1>13. PhaseOrder'
  BY <1>1, <1>12 DEF IInv, PhaseOrder
<1>14. NoSendOnClosed' /\ EndedEmpty'
  BY <1>1, <1>5, <1>6, <1>12 DEF IInv, NoSendOnClosed, EndedEmpty
<1>15. QED
  BY <1>9, <1>10, <1>11, <1>13, <1>14 DEF IInv

\* A worker goes to another place in its loop, or out of it, with its batch.
LEMMA MoveStep ==
    ASSUME IInv, NEW w \in Workers, Tick(w) \/ ReceiveClosed(w)
    PROVE  IInv'
<1> DEFINE q == worker[w]
           to == IF Tick(w) THEN "flush" ELSE IF q.batch = <<>> THEN "done" ELSE "lastFlush"
           n == [q EXCEPT !.pc = to]
<1>1. /\ q \in Worker /\ q.pc = "select"
      /\ UNCHANGED <<phase, handler, eventChannel, closed, emitted, dropped, written, failed>>
  BY DEF IInv, TypeOK, Tick, ReceiveClosed, history
<1>2. to \in {"flush", "done", "lastFlush"} /\ (to = "done" => q.batch = <<>>)
  OBVIOUS
<1>3. to # "flush" => closed /\ eventChannel = <<>>
  BY DEF ReceiveClosed
<1>4. worker' = [worker EXCEPT ![w] = n]
  <2>1. CASE Tick(w)
    BY <2>1 DEF Tick
  <2>2. CASE ~Tick(w)
    BY <2>2 DEF ReceiveClosed
  <2>3. QED
    BY <2>1, <2>2
<1> HIDE DEF to, q
<1>5. n \in Worker /\ n.pc = to /\ n.batch = q.batch
  BY <1>1, <1>2 DEF Worker
<1> HIDE DEF n
<1>6. /\ worker' \in [Workers -> Worker]
      /\ \A x \in Workers : worker'[x] = IF x = w THEN n ELSE worker[x]
  BY <1>4, <1>5, OneWorker DEF IInv
<1>7. \A x \in Workers : worker'[x].batch = worker[x].batch
  BY <1>5, <1>6 DEF q
<1>8. InBatches' = InBatches /\ \A x \in Workers : Batch(x)' = Batch(x)
  BY <1>7 DEF InBatches, Batch
<1>9. TypeOK'
  BY <1>1, <1>6, <1>7 DEF IInv, TypeOK
<1>10. Partition'
  BY <1>1, <1>8 DEF IInv, Partition, Settled
<1>11. RoomLeft' /\ NoSendOnClosed'
  BY <1>1, <1>2, <1>5, <1>6 DEF IInv, RoomLeft, NoSendOnClosed
<1>12. PhaseOrder'
  BY <1>1 DEF IInv, PhaseOrder, q
<1>13. EndedEmpty'
  BY <1>1, <1>2, <1>3, <1>5, <1>6 DEF IInv, EndedEmpty
<1>14. QED
  BY <1>9, <1>10, <1>11, <1>12, <1>13 DEF IInv

\* A batch leaves its worker as a whole, written or failed.
LEMMA WriteBatchStep ==
    ASSUME IInv, NEW w \in Workers, NEW ok \in BOOLEAN, WriteBatchToDB(w, ok)
    PROVE  IInv'
<1> DEFINE q == worker[w]
           n == [pc |-> IF q.pc = "flush" THEN "select" ELSE "done", batch |-> <<>>]
<1>1. /\ q.pc \in {"flush", "lastFlush"} /\ q \in Worker
      /\ worker' = [worker EXCEPT ![w] = n]
      /\ \/ written' = written \cup Batch(w) /\ failed' = failed
         \/ written' = written /\ failed' = failed \cup Batch(w)
      /\ UNCHANGED <<phase, handler, eventChannel, closed, emitted, dropped>>
  BY DEF IInv, TypeOK, WriteBatchToDB, Batch
<1>2. /\ n \in Worker /\ n.batch = <<>> /\ n.pc \in {"select", "done"}
      /\ n.pc = "done" => q.pc = "lastFlush"
  BY <1>1, EmptySeq DEF Worker
<1> HIDE DEF n
<1>3. /\ worker' \in [Workers -> Worker]
      /\ \A x \in Workers : worker'[x] = IF x = w THEN n ELSE worker[x]
  BY <1>1, <1>2, OneWorker DEF IInv
<1>4. \A x \in Workers : Batch(x)' = IF x = w THEN {} ELSE Batch(x)
  BY <1>2, <1>3, EmptySeq DEF Batch
<1>5. InBatches' = InBatches \ Batch(w) /\ Batch(w) \subseteq InBatches
  <2>1. \A x : x \in InBatches <=> \E v \in Workers : x \in Batch(v)
    BY DEF InBatches, Batch
  <2>2. \A x : x \in InBatches' <=> \E v \in Workers : x \in Batch(v)'
    BY DEF InBatches, Batch
  <2>3. QED
    BY <1>4, <2>1, <2>2 DEF IInv, Partition
<1>6. TypeOK'
  <2>1. \A x \in Workers : Len(worker'[x].batch) <= BatchSize
    BY <1>2, <1>3, EmptySeq, AuditAssumption DEF IInv, TypeOK
  <2>2. Batch(w) \subseteq Event
    BY <1>1 DEF Batch, Elems, Worker
  <2>3. QED
    BY <1>1, <1>3, <2>1, <2>2 DEF IInv, TypeOK
<1>7. Partition'
  <2>1. \A u, v \in Workers : u # v => Batch(u)' \cap Batch(v)' = {}
    BY <1>4 DEF IInv, Partition
  <2>2. Settled' = Settled \cup Batch(w)
    BY <1>1 DEF Settled
  <2>3. dropped' \cap written' = {} /\ dropped' \cap failed' = {} /\ written' \cap failed' = {}
    BY <1>1, <1>5 DEF IInv, Partition, Settled
  <2>4. QED
    BY <1>1, <1>5, <2>1, <2>2, <2>3 DEF IInv, Partition
<1>8. RoomLeft'
  BY <1>2, <1>3, EmptySeq, AuditAssumption DEF IInv, RoomLeft
<1>9. PhaseOrder' /\ NoSendOnClosed'
  BY <1>1 DEF IInv, PhaseOrder, NoSendOnClosed
<1>10. EndedEmpty'
  BY <1>1, <1>2, <1>3 DEF IInv, EndedEmpty
<1>11. QED
  BY <1>6, <1>7, <1>8, <1>9, <1>10 DEF IInv

\* The steps of main.
LEMMA MainStep ==
    ASSUME IInv, GracefulStop \/ StopLogger \/ ClosePool
    PROVE  IInv'
<1>1. UNCHANGED <<handler, eventChannel, worker, emitted, dropped, written, failed>>
  BY DEF GracefulStop, StopLogger, ClosePool, history
<1>2. TypeOK'
  BY <1>1 DEF IInv, TypeOK, Phases, GracefulStop, StopLogger, ClosePool
<1>3. Partition' /\ RoomLeft'
  BY <1>1 DEF IInv, Partition, Batch, InBatches, Settled, RoomLeft
<1>4. PhaseOrder'
  BY <1>1 DEF IInv, PhaseOrder, GracefulStop, StopLogger, ClosePool
<1>5. NoSendOnClosed'
  BY <1>1 DEF IInv, NoSendOnClosed, GracefulStop, StopLogger, ClosePool
<1>6. EndedEmpty'
  BY <1>1 DEF IInv, EndedEmpty, GracefulStop, StopLogger, ClosePool
<1>7. QED
  BY <1>2, <1>3, <1>4, <1>5, <1>6 DEF IInv

\* Every step preserves the invariant.
LEMMA NextIInv == IInv /\ [Next]_vars => IInv'
<1> SUFFICES ASSUME IInv, [Next]_vars
             PROVE  IInv'
  OBVIOUS
<1>1. CASE \E h \in Handlers : Accept(h) \/ Finish(h) \/ AuditLog(h)
  BY <1>1, HandlerStep, AuditLogStep
<1>2. CASE \E w \in Workers : WorkerStep(w)
  BY <1>2, ReceiveStep, MoveStep, WriteBatchStep DEF WorkerStep
<1>3. CASE GracefulStop \/ StopLogger \/ ClosePool
  BY <1>3, MainStep
<1>4. CASE UNCHANGED vars
  <2>1. TypeOK'
    BY <1>4 DEF IInv, TypeOK, vars
  <2>2. Partition'
    BY <1>4 DEF IInv, Partition, Batch, InBatches, Settled, vars
  <2>3. RoomLeft' /\ PhaseOrder' /\ NoSendOnClosed' /\ EndedEmpty'
    BY <1>4 DEF IInv, RoomLeft, PhaseOrder, NoSendOnClosed, EndedEmpty, vars
  <2>4. QED
    BY <2>1, <2>2, <2>3 DEF IInv
<1>5. QED
  BY <1>1, <1>2, <1>3, <1>4 DEF Next, Terminated

-----------------------------------------------------------------------------
(* The theorems *)

\* The inductive invariant, for any number of handlers, workers and events.
THEOREM InductiveInvariant == Spec => []IInv
  BY InitIInv, NextIInv, PTL DEF Spec

\* Type correctness: neither the channel nor a batch exceeds its size.
THEOREM TypeCorrect == Spec => []TypeOK
<1>1. IInv => TypeOK
  BY DEF IInv
<1>2. QED
  BY <1>1, InductiveInvariant, PTL

\* AuditLog never sends on the closed channel.
THEOREM SendsBeforeClose == Spec => []NoSendOnClosed
<1>1. IInv => NoSendOnClosed
  BY DEF IInv
<1>2. QED
  BY <1>1, InductiveInvariant, PTL

\* The cardinality of two disjoint sets of numbers up to n.
LEMMA DisjointCardinality ==
    ASSUME NEW n \in Nat, NEW A, NEW B, A \subseteq 1..n, B \subseteq 1..n, A \cap B = {}
    PROVE  /\ Cardinality(A \cup B) = Cardinality(A) + Cardinality(B)
           /\ Cardinality(A) \in Nat /\ Cardinality(B) \in Nat
<1>1. IsFiniteSet(1..n)
  BY FS_Interval
<1>2. IsFiniteSet(A) /\ IsFiniteSet(B)
  BY <1>1, FS_Subset
<1>3. Cardinality(A) \in Nat /\ Cardinality(B) \in Nat
  BY <1>2, FS_CardinalityType
<1>4. Cardinality(A \cap B) = 0
  BY FS_EmptySet
<1>5. Cardinality(A \cup B) = Cardinality(A) + Cardinality(B) - Cardinality(A \cap B)
  BY <1>2, FS_Union
<1>6. QED
  BY <1>3, <1>4, <1>5

\* No event is lost, and none is in two places or written twice.
THEOREM Conservation == Spec => []EventsConserved
<1>1. ASSUME IInv PROVE EventsConserved
  <2> DEFINE C == Elems(eventChannel)
  <2>1. emitted \in Nat /\ 1..emitted = C \cup InBatches \cup Settled
    BY <1>1, AuditAssumption DEF IInv, TypeOK, Partition
  <2>2. /\ C \cap InBatches = {} /\ C \cap Settled = {} /\ InBatches \cap Settled = {}
        /\ dropped \cap written = {} /\ dropped \cap failed = {} /\ written \cap failed = {}
    BY <1>1 DEF IInv, Partition
  <2>3. Cardinality(C) = Len(eventChannel)
    BY <1>1, LenIsCardinality DEF IInv, TypeOK, Partition
  <2> HIDE DEF C
  <2>4. /\ C \subseteq 1..emitted /\ InBatches \subseteq 1..emitted
        /\ dropped \subseteq 1..emitted /\ written \subseteq 1..emitted
        /\ failed \subseteq 1..emitted
    BY <2>1 DEF Settled
  <2>5. /\ Cardinality(dropped \cup written) = Cardinality(dropped) + Cardinality(written)
        /\ Cardinality(dropped) \in Nat /\ Cardinality(written) \in Nat
    BY <2>1, <2>2, <2>4, DisjointCardinality
  <2>6. /\ Cardinality(Settled) = Cardinality(dropped \cup written) + Cardinality(failed)
        /\ Cardinality(failed) \in Nat
    <3> DEFINE D == dropped \cup written
    <3>1. D \cap failed = {} /\ D \subseteq 1..emitted /\ Settled = D \cup failed
      BY <2>2, <2>4 DEF Settled
    <3> HIDE DEF D
    <3>2. /\ Cardinality(D \cup failed) = Cardinality(D) + Cardinality(failed)
          /\ Cardinality(failed) \in Nat
      BY <2>1, <2>4, <3>1, DisjointCardinality
    <3>3. QED
      BY <3>1, <3>2, Zenon DEF D
  <2>7. /\ Cardinality(C \cup InBatches) = Cardinality(C) + Cardinality(InBatches)
        /\ Cardinality(C) \in Nat /\ Cardinality(InBatches) \in Nat
    BY <2>1, <2>2, <2>4, DisjointCardinality
  <2>8. /\ Cardinality((C \cup InBatches) \cup Settled)
             = Cardinality(C \cup InBatches) + Cardinality(Settled)
    <3>1. /\ (C \cup InBatches) \cap Settled = {}
          /\ C \cup InBatches \subseteq 1..emitted /\ Settled \subseteq 1..emitted
      BY <2>1, <2>2
    <3>2. QED
      BY <2>1, <3>1, DisjointCardinality
  <2>9. Cardinality((C \cup InBatches) \cup Settled) = emitted
    <3>1. Cardinality(1..emitted) = emitted
      BY <2>1, FS_Interval
    <3>2. QED
      BY <2>1, <3>1
  <2>10. 1..emitted = dropped \cup C \cup InBatches \cup written \cup failed
    BY <2>1 DEF Settled
  <2>11. Cardinality(dropped) + Cardinality(C) + Cardinality(InBatches)
           + Cardinality(written) + Cardinality(failed) = emitted
    BY <2>1, <2>5, <2>6, <2>7, <2>8, <2>9
  <2>12. QED
    BY <2>3, <2>10, <2>11 DEF EventsConserved, C
<1>2. QED
  BY <1>1, InductiveInvariant, PTL

\* When the pool is closed, the channel and the batches are empty and nothing is
\* left to write; without any worker nobody would have emptied the channel.
THEOREM ShutdownFlushes ==
    ASSUME Workers # {}
    PROVE  Spec => []StopFlushes
<1>1. IInv => StopFlushes
  BY DEF IInv, PhaseOrder, EndedEmpty, StopFlushes
<1>2. QED
  BY <1>1, InductiveInvariant, PTL
=============================================================================
