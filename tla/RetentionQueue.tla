--------------------------- MODULE RetentionQueue ---------------------------
(***************************************************************************)
(* Usage events (app/retention.py).  Handlers emit into a bounded          *)
(* asyncio.Queue; one task of the event loop drains it in batches and      *)
(* writes each batch synchronously.  The queue is used from two sides: by  *)
(* the handlers of the event loop, which never run between the task's      *)
(* awaits, and by handlers that run in threads (refresh_single_wallet),    *)
(* for which the queue makes no promise.                                   *)
(***************************************************************************)
EXTENDS Naturals, Sequences, SequencesExt

CONSTANTS QueueSize,  \* maxsize of the queue
          BatchSize,  \* events written at once, at most
          Emitters,   \* threads that emit
          MaxEvents   \* bound: events accepted

ASSUME QueueAssumption ==
  /\ IsFiniteSet(Emitters)
  /\ QueueSize \in Nat \ {0} /\ BatchSize \in Nat \ {0} /\ MaxEvents \in Nat

VARIABLES
  queue,    \* _event_queue; events are numbered as they are put
  putting,  \* threads between full() and the append
  drain,    \* _drain_task: "none", "wait" at its await, "save", "ended"
  batch,    \* what it has taken
  eventLog, \* event_log
  puts,     \* history: the number of events put
  stop      \* stop_drain: "no", "cancel" requested, "await" without effect, "done"

queueVars == <<queue, putting, drain, batch, eventLog, puts, stop>>

QueueTypeOK ==
  /\ queue \in Seq(1..puts) /\ batch \in Seq(1..puts) /\ eventLog \in Seq(1..puts)
  /\ putting \subseteq Emitters
  /\ puts \in 0..MaxEvents
  /\ drain \in {"none", "wait", "save", "ended"}
  /\ stop \in {"no", "cancel", "await", "done"}
  /\ Len(batch) <= BatchSize
  /\ drain = "save" <=> batch # <<>>

QueueInit ==
  /\ queue = <<>> /\ batch = <<>> /\ eventLog = <<>>
  /\ putting = {}
  /\ puts = 0
  /\ drain = "none"
  /\ stop = "no"
-----------------------------------------------------------------------------
\* Bound: nobody begins to put more than MaxEvents.
MayPut == drain \in {"wait", "save"} /\ stop = "no" /\ puts + Cardinality(putting) < MaxEvents

Put ==
  /\ puts' = puts + 1
  /\ queue' = Append(queue, puts + 1)

\* emit in a handler of the event loop, which does not run while the task
\* saves.  When the queue is full the event is dropped, and nothing changes.
Emit ==
  /\ drain # "save" /\ MayPut
  /\ Len(queue) < QueueSize
  /\ Put
  /\ UNCHANGED <<putting, drain, batch, eventLog, stop>>

\* Mutant: put_nowait of a thread that does not look at the size at all.
CheckNothing(t) ==
  /\ t \notin putting /\ MayPut
  /\ Put
  /\ UNCHANGED <<putting, drain, batch, eventLog, stop>>

\* emit in a thread: put_nowait looks at the size and then appends, and the
\* queue may have been filled in between.
CheckFull(t) ==
  /\ t \notin putting /\ MayPut
  /\ Len(queue) < QueueSize
  /\ putting' = putting \cup {t}
  /\ UNCHANGED <<queue, drain, batch, eventLog, puts, stop>>

PutUnchecked(t) ==
  /\ t \in putting
  /\ Put
  /\ putting' = putting \ {t}
  /\ UNCHANGED <<drain, batch, eventLog, stop>>
-----------------------------------------------------------------------------
\* start_drain leaves a task that runs alone.
StartDrain ==
  /\ drain = "none" /\ stop = "no"
  /\ drain' = "wait"
  /\ UNCHANGED <<queue, putting, batch, eventLog, puts, stop>>

Take ==
  LET n == IF Len(queue) < BatchSize THEN Len(queue) ELSE BatchSize IN
    /\ queue # <<>>
    /\ batch' = SubSeq(queue, 1, n)
    /\ queue' = SubSeq(queue, n + 1, Len(queue))
    /\ drain' = "save"

\* _drain_loop: wait_for(get), then what else is there.  A timeout waits again.
TakeBatch ==
  /\ drain = "wait" /\ stop \in {"no", "await"}
  /\ Take
  /\ UNCHANGED <<putting, eventLog, puts, stop>>

\* Mutant: an error ends the loop.
SaveOrEnd ==
  /\ drain = "save"
  /\ \/ eventLog' = eventLog \o batch /\ drain' = "wait"
     \/ UNCHANGED eventLog /\ drain' = "ended"
  /\ batch' = <<>>
  /\ UNCHANGED <<queue, putting, puts, stop>>

\* Mutant: a batch that could not be written is put back.
SavePutsBack ==
  /\ drain = "save"
  /\ \/ eventLog' = eventLog \o batch /\ UNCHANGED queue
     \/ queue' = queue \o batch /\ UNCHANGED eventLog
  /\ batch' = <<>>
  /\ drain' = "wait"
  /\ UNCHANGED <<putting, puts, stop>>

\* bulk_save_objects and COMMIT; an error is logged and the batch is gone.
SaveBatch ==
  /\ drain = "save"
  /\ \/ eventLog' = eventLog \o batch
     \/ UNCHANGED eventLog
  /\ batch' = <<>>
  /\ drain' = "wait"
  /\ UNCHANGED <<queue, putting, puts, stop>>

\* stop_drain from the shutdown of the lifespan.
StopDrain ==
  /\ stop = "no" /\ drain # "save"
  /\ stop' = IF drain = "wait" THEN "cancel" ELSE "done"
  /\ UNCHANGED <<queue, putting, drain, batch, eventLog, puts>>

\* The cancellation ends the loop at its await; what is queued stays there.
Cancelled ==
  /\ stop = "cancel"
  /\ drain' = "ended" /\ stop' = "done"
  /\ UNCHANGED <<queue, putting, batch, eventLog, puts>>

\* wait_for of Python 3.11 returns an event that has arrived just then and
\* forgets the cancellation: the loop goes on, and stop_drain waits for it.
CancelForgotten ==
  /\ stop = "cancel" /\ drain = "wait"
  /\ Take
  /\ stop' = "await"
  /\ UNCHANGED <<putting, eventLog, puts>>

\* The process ends, with a shutdown or without; the next one starts empty.
EndProcess ==
  /\ queue' = <<>> /\ batch' = <<>> /\ putting' = {}
  /\ drain' = "none" /\ stop' = "no"
  /\ UNCHANGED <<eventLog, puts>>

DrainStep == TakeBatch \/ SaveBatch \/ Cancelled \/ CancelForgotten

QueueNext ==
  \/ Emit \/ StartDrain \/ DrainStep \/ StopDrain \/ EndProcess
  \/ \E t \in Emitters : CheckFull(t) \/ PutUnchecked(t)

QueueSpec == QueueInit /\ [][QueueNext]_queueVars

\* The event loop runs its tasks.
QueueFairness == WF_queueVars(DrainStep)
-----------------------------------------------------------------------------
\* Batches, failures, threads, cancellation and the end of the process: what is
\* in event_log went through the queue in this order and once.
Fifo == INSTANCE LossyFifo WITH
          accepted <- puts, pending <- batch \o queue, stored <- eventLog
KeepsOrder == Fifo!Spec

\* The threads that have looked before others put can overfill the queue, but
\* each of them by one event.
OverfullByThreads == Len(queue) + Cardinality(putting) <= QueueSize + Cardinality(Emitters)

\* An event that is queued does not stay there: it is stored, or lost with its
\* batch, unless the task is stopped; a batch that fails or a cancellation that
\* is forgotten does not end the task.
EventsLeave == \A n \in 1..MaxEvents :
  n \in ToSet(queue) ~> n \notin ToSet(queue) \/ stop \in {"cancel", "done"}
=============================================================================
