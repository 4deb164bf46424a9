--------------------------- MODULE AsyncAuditLogger ---------------------------
(***************************************************************************)
(* The asynchronous audit logger (internal/infra/audit) and the shutdown   *)
(* that depends on it: main stops the gRPC server gracefully, then         *)
(* Container.Close stops the logger and only then closes the database      *)
(* pool.  RPC handlers queue events without ever blocking; workers collect *)
(* them in batches and write a batch when it is full, when their ticker    *)
(* fires, and when the channel is closed and empty.                        *)
(***************************************************************************)
EXTENDS Integers, Sequences, FiniteSets

CONSTANTS Handlers,           \* concurrent RPC handlers
          Workers,            \* WorkerCount goroutines
          ChannelBufferSize,
          BatchSize,
          MaxEvents           \* bound: events emitted

ASSUME AuditAssumption ==
    /\ ChannelBufferSize \in Nat \ {0}
    /\ BatchSize \in Nat \ {0}
    /\ MaxEvents \in Nat
    /\ IsFiniteSet(Workers)

VARIABLES phase,         \* where main is in the life of the process
          handler,       \* handler[h]: an RPC is being handled
          eventChannel,  \* the buffered channel
          closed,        \* close(eventChannel) has been called
          worker,        \* worker[w]: pc and batch of worker w
          emitted,       \* history: how many events AuditLog was called with
          dropped, written, failed  \* history: what became of them

vars == <<phase, handler, eventChannel, closed, worker, emitted, dropped, written, failed>>

-----------------------------------------------------------------------------

Event == 1..MaxEvents

Phases == {"serving", "draining", "waiting", "poolClosed"}

Worker == [pc: {"select", "flush", "lastFlush", "done"}, batch: Seq(Event)]

Elems(s) == {s[i] : i \in DOMAIN s}

\* The channel and the batches of the workers keep within their sizes, and an event
\* is counted in sets of event numbers.
TypeOK ==
    /\ phase \in Phases
    /\ handler \in [Handlers -> BOOLEAN]
    /\ eventChannel \in Seq(Event) /\ Len(eventChannel) <= ChannelBufferSize
    /\ closed \in BOOLEAN
    /\ worker \in [Workers -> Worker]
    /\ \A w \in Workers : Len(worker[w].batch) <= BatchSize
    /\ emitted \in 0..MaxEvents
    /\ dropped \subseteq Event /\ written \subseteq Event /\ failed \subseteq Event

Init ==
    /\ phase = "serving"
    /\ handler = [h \in Handlers |-> FALSE]
    /\ eventChannel = <<>>
    /\ closed = FALSE
    /\ worker = [w \in Workers |-> [pc |-> "select", batch |-> <<>>]]
    /\ emitted = 0
    /\ dropped = {} /\ written = {} /\ failed = {}

history == <<emitted, dropped, written, failed>>

-----------------------------------------------------------------------------
(* RPC handlers *)

\* The server accepts an RPC until GracefulStop.
Accept(h) ==
    /\ phase = "serving" /\ ~handler[h]
    /\ handler' = [handler EXCEPT ![h] = TRUE]
    /\ UNCHANGED <<phase, eventChannel, closed, worker, history>>

Finish(h) ==
    /\ handler[h]
    /\ handler' = [handler EXCEPT ![h] = FALSE]
    /\ UNCHANGED <<phase, eventChannel, closed, worker, history>>

\* AuditLog: queue the event, or drop it if the channel is full.
AuditLog(h) ==
    /\ handler[h]
    /\ emitted < MaxEvents
    /\ emitted' = emitted + 1
    /\ \/ /\ Len(eventChannel) < ChannelBufferSize
          /\ eventChannel' = Append(eventChannel, emitted + 1)
          /\ UNCHANGED dropped
       \/ /\ Len(eventChannel) = ChannelBufferSize
          /\ dropped' = dropped \cup {emitted + 1}
          /\ UNCHANGED eventChannel
    /\ UNCHANGED <<phase, handler, closed, worker, written, failed>>

-----------------------------------------------------------------------------
(* worker *)

\* Mutant: the batch is compared with its limit before the event is added.
ReceiveLate(w) ==
    /\ worker[w].pc = "select"
    /\ eventChannel # <<>>
    /\ worker' = [worker EXCEPT ![w] =
                    [pc |-> IF Len(@.batch) >= BatchSize THEN "flush" ELSE "select",
                     batch |-> Append(@.batch, Head(eventChannel))]]
    /\ eventChannel' = Tail(eventChannel)
    /\ UNCHANGED <<phase, handler, closed, history>>

Receive(w) ==
    /\ worker[w].pc = "select"
    /\ eventChannel # <<>>
    /\ worker' = [worker EXCEPT ![w] =
                    [pc |-> IF Len(@.batch) + 1 >= BatchSize THEN "flush" ELSE "select",
                     batch |-> Append(@.batch, Head(eventChannel))]]
    /\ eventChannel' = Tail(eventChannel)
    /\ UNCHANGED <<phase, handler, closed, history>>

\* Mutant: a worker that finds the channel closed goes on receiving.
ReceiveClosedSpin(w) ==
    /\ worker[w].pc = "select"
    /\ closed /\ eventChannel = <<>>
    /\ UNCHANGED vars

\* The receive reports a closed channel only once it is empty.
ReceiveClosed(w) ==
    /\ worker[w].pc = "select"
    /\ closed /\ eventChannel = <<>>
    /\ worker' = [worker EXCEPT ![w].pc = IF worker[w].batch = <<>>
                                          THEN "done" ELSE "lastFlush"]
    /\ UNCHANGED <<phase, handler, eventChannel, closed, history>>

\* Mutant: the ticker only flushes a batch that is full.
TickFullOnly(w) ==
    /\ worker[w].pc = "select"
    /\ Len(worker[w].batch) >= BatchSize
    /\ worker' = [worker EXCEPT ![w].pc = "flush"]
    /\ UNCHANGED <<phase, handler, eventChannel, closed, history>>

\* case <-ticker.C with a batch to write (without one nothing happens).
Tick(w) ==
    /\ worker[w].pc = "select"
    /\ worker[w].batch # <<>>
    /\ worker' = [worker EXCEPT ![w].pc = "flush"]
    /\ UNCHANGED <<phase, handler, eventChannel, closed, history>>

\* Mutant: a failed batch is kept and written again with the next one.
WriteBatchToDBKeep(w, ok) ==
    /\ worker[w].pc \in {"flush", "lastFlush"}
    /\ written' = written \cup Elems(worker[w].batch)
    /\ failed' = IF ok THEN failed ELSE failed \cup Elems(worker[w].batch)
    /\ worker' = [worker EXCEPT ![w].pc = IF @ = "flush" THEN "select" ELSE "done",
                                ![w].batch = IF ok THEN <<>> ELSE @]
    /\ UNCHANGED <<phase, handler, eventChannel, closed, emitted, dropped>>

\* One COPY for the whole batch; an error is logged and the batch forgotten.
\* After the pool is closed every write fails.
WriteBatchToDB(w, ok) ==
    /\ worker[w].pc \in {"flush", "lastFlush"}
    /\ ok => phase # "poolClosed"
    /\ written' = IF ok THEN written \cup Elems(worker[w].batch) ELSE written
    /\ failed' = IF ok THEN failed ELSE failed \cup Elems(worker[w].batch)
    /\ worker' = [worker EXCEPT ![w] =
                    [pc |-> IF @.pc = "flush" THEN "select" ELSE "done", batch |-> <<>>]]
    /\ UNCHANGED <<phase, handler, eventChannel, closed, emitted, dropped>>

-----------------------------------------------------------------------------
(* main: shutdown *)

\* Server.Stop: GracefulStop accepts nothing new.
GracefulStop ==
    /\ phase = "serving"
    /\ phase' = "draining"
    /\ UNCHANGED <<handler, eventChannel, closed, worker, history>>

\* Mutant: Stop instead of GracefulStop does not wait for the handlers.
StopLoggerAtOnce ==
    /\ phase = "draining"
    /\ closed' = TRUE
    /\ phase' = "waiting"
    /\ UNCHANGED <<handler, eventChannel, worker, history>>

\* GracefulStop has returned, so no handler runs; Container.Close stops the
\* logger, which closes the channel.
StopLogger ==
    /\ phase = "draining"
    /\ \A h \in Handlers : ~handler[h]
    /\ closed' = TRUE
    /\ phase' = "waiting"
    /\ UNCHANGED <<handler, eventChannel, worker, history>>

\* Mutant: the pool is closed without waiting for the workers.
ClosePoolAtOnce ==
    /\ phase = "waiting"
    /\ phase' = "poolClosed"
    /\ UNCHANGED <<handler, eventChannel, closed, worker, history>>

\* waitGroup.Wait, then pgxPool.Close.
ClosePool ==
    /\ phase = "waiting"
    /\ \A w \in Workers : worker[w].pc = "done"
    /\ phase' = "poolClosed"
    /\ UNCHANGED <<handler, eventChannel, closed, worker, history>>

\* main has returned.
Terminated == phase = "poolClosed" /\ (\A w \in Workers : worker[w].pc = "done") /\ UNCHANGED vars

-----------------------------------------------------------------------------

WorkerStep(w) ==
    \/ Receive(w) \/ ReceiveClosed(w) \/ Tick(w)
    \/ \E ok \in BOOLEAN : WriteBatchToDB(w, ok)

Next ==
    \/ \E h \in Handlers : Accept(h) \/ Finish(h) \/ AuditLog(h)
    \/ \E w \in Workers : WorkerStep(w)
    \/ GracefulStop \/ StopLogger \/ ClosePool
    \/ Terminated

Spec == Init /\ [][Next]_vars

\* Handlers return, workers and main are scheduled, and a ticker that keeps
\* firing is not ignored by select for ever.
FairSpec ==
    /\ Spec
    /\ \A h \in Handlers : WF_vars(Finish(h))
    /\ \A w \in Workers : WF_vars(WorkerStep(w)) /\ SF_vars(Tick(w))
    /\ WF_vars(StopLogger) /\ WF_vars(ClosePool)

-----------------------------------------------------------------------------
(* Properties *)

InBatches == UNION {Elems(worker[w].batch) : w \in Workers}

\* Every event is accounted for and in one place only: dropped at the door, in
\* the channel, in the batch of one worker, written, or lost with a failed
\* write.  No interleaving of batches, ticks and the shutdown loses one or
\* writes it twice.
EventsConserved ==
    /\ 1..emitted = dropped \cup Elems(eventChannel) \cup InBatches \cup written \cup failed
    /\ Cardinality(dropped) + Len(eventChannel) + Cardinality(InBatches)
          + Cardinality(written) + Cardinality(failed) = emitted

\* AuditLog never sends on the closed channel (a panic): when the channel is
\* closed no handler is running.
NoSendOnClosed == closed => \A h \in Handlers : ~handler[h]

\* Stop: "ensuring all queued events are processed": when the pool is closed,
\* nothing is left in the channel or in a batch, and no worker still has a write
\* to do that the closed pool would refuse.
StopFlushes ==
    phase = "poolClosed" =>
        /\ eventChannel = <<>>
        /\ \A w \in Workers : worker[w].pc = "done" /\ worker[w].batch = <<>>

\* Shutdown completes.
ShutdownCompletes == phase = "draining" ~> phase = "poolClosed"

\* A queued event does not wait for others to fill its batch: it is written, or
\* its write fails.
EventuallyProcessed ==
    \A e \in Event : e \in Elems(eventChannel) ~> e \in written \cup failed
=============================================================================
