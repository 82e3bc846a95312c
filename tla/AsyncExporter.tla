--------------------------- MODULE AsyncExporter ----------------------------
(***************************************************************************)
(* The SDK's AsyncExporter: application threads put traces on a bounded    *)
(* queue.Queue, one daemon thread takes them off in batches and calls the  *)
(* inner exporter, and any thread may call flush() or shutdown().          *)
(*                                                                         *)
(* Every action is a step between two points where CPython may switch      *)
(* threads: the queue's own operations are atomic (they hold its mutex),   *)
(* `x += n` on an attribute is a load and a store.                         *)
(*                                                                         *)
(* The data of a trace plays no role here, so a trace IS its place in the  *)
(* order in which export() got traces onto the queue: 1, 2, 3, ...         *)
(***************************************************************************)
EXTENDS Integers, Sequences, FiniteSets

CONSTANTS
    AppThreads,    \* threads that call export()
    Callers,       \* threads that call flush() and shutdown()
    MaxQueueSize,  \* max_queue_size; 0 makes queue.Queue unbounded
    BatchSize,     \* batch_size
    MaxExports,    \* bound: calls of export() in a behaviour
    MaxCalls       \* bound: calls of flush() and shutdown(), per caller

ASSUME ConstantsAssumption ==
    /\ MaxQueueSize \in Nat
    /\ BatchSize \in Nat
    /\ MaxExports \in Nat
    /\ MaxCalls \in Nat

VARIABLES
    queue,       \* self.queue: traces and poison pills
    unfinished,  \* self.queue.unfinished_tasks, what queue.join() waits on
    shutdown,    \* self._shutdown
    exportedCount, droppedCount,  \* the two telemetry counters
    wpc, batch, wload,            \* worker: control, its batch, a loaded counter
    apc, aload,                   \* app threads: control, a loaded counter
    cpc, op, calls,               \* callers: control, current call, calls made
    \* History, read by no action's guard but the bounds:
    accepted,    \* traces put on the queue so far
    rejected,    \* export() calls that met a full queue
    called,      \* the traces passed to the inner exporter, in order
    returned,    \* of those, the traces of calls that returned and did not raise
    mark,        \* per caller: accepted when its current call began
    sealed       \* accepted when _shutdown was first set

fields == <<queue, unfinished, shutdown, exportedCount, droppedCount>>
worker == <<wpc, batch, wload>>
app == <<apc, aload>>
caller == <<cpc, op, calls>>
history == <<accepted, rejected, called, returned, mark, sealed>>
vars == <<fields, worker, app, caller, history>>

None == 0
Full == MaxQueueSize > 0 /\ Len(queue) >= MaxQueueSize

WorkerPC == {"loop", "get", "fill", "export", "count", "load", "store",
             "settle", "pillFirst", "pillFill", "dead"}
CallerPC == {"idle", "join", "innerFlush", "set", "pill", "wait", "innerShutdown"}

Init ==
    /\ queue = <<>> /\ unfinished = 0 /\ shutdown = FALSE
    /\ exportedCount = 0 /\ droppedCount = 0
    /\ wpc = "loop" /\ batch = <<>> /\ wload = 0
    /\ apc = [a \in AppThreads |-> "idle"] /\ aload = [a \in AppThreads |-> 0]
    /\ cpc = [c \in Callers |-> "idle"]
    /\ op = [c \in Callers |-> "flush"]
    /\ calls = [c \in Callers |-> 0]
    /\ accepted = 0 /\ rejected = 0 /\ called = <<>> /\ returned = {}
    /\ mark = [c \in Callers |-> 0] /\ sealed = 0

-----------------------------------------------------------------------------
(* Faulty variants of steps defined below. No specification uses them; each *)
(* shows, put in place of the step it names, that a property notices.      *)

\* PillDone: task_done() both where the pill is met and in a finally clause.
PillDoneTwice ==
    /\ wpc \in {"pillFirst", "pillFill"}
    /\ unfinished' = unfinished - 2
    /\ wpc' = IF wpc = "pillFirst" THEN "dead" ELSE "export"
    /\ UNCHANGED <<queue, shutdown, exportedCount, droppedCount,
                   batch, wload, app, caller, history>>

\* PillDone: no task_done() for a pill that ends the thread.
PillDoneForgotten ==
    /\ wpc \in {"pillFirst", "pillFill"}
    /\ unfinished' = IF wpc = "pillFill" THEN unfinished - 1 ELSE unfinished
    /\ wpc' = IF wpc = "pillFirst" THEN "dead" ELSE "export"
    /\ UNCHANGED <<queue, shutdown, exportedCount, droppedCount,
                   batch, wload, app, caller, history>>

\* ExportRaises: the worker calls the inner exporter again with the batch.
ExportRetries ==
    /\ wpc = "export"
    /\ called' = called \o batch
    /\ UNCHANGED <<fields, worker, app, caller, accepted, rejected, returned, mark, sealed>>

\* ExportRaises: a failed batch is counted as exported.
ExportRaisesCounted ==
    /\ wpc = "export"
    /\ called' = called \o batch
    /\ wpc' = "count"
    /\ UNCHANGED <<fields, batch, wload, app, caller, accepted, rejected, returned,
                   mark, sealed>>

\* LoopCheck: `while not shutdown.is_set()` alone.
LoopChecksEventOnly ==
    /\ wpc = "loop"
    /\ wpc' = IF shutdown THEN "dead" ELSE "get"
    /\ UNCHANGED <<fields, batch, wload, app, caller, history>>

\* LoopCheck: `while True`, leaving it to the pill to end the thread.
LoopUntilPill ==
    /\ wpc = "loop"
    /\ wpc' = "get"
    /\ UNCHANGED <<fields, batch, wload, app, caller, history>>

\* Join: wait until queue.empty() rather than for the tasks to be done.
JoinEmptyQueue(c) ==
    /\ cpc[c] = "join"
    /\ queue = <<>>
    /\ cpc' = [cpc EXCEPT ![c] = "innerFlush"]
    /\ UNCHANGED <<fields, worker, app, op, calls, history>>

\* Join: a wait with a timeout.
JoinTimesOut(c) ==
    /\ cpc[c] = "join"
    /\ cpc' = [cpc EXCEPT ![c] = "innerFlush"]
    /\ UNCHANGED <<fields, worker, app, op, calls, history>>

-----------------------------------------------------------------------------
(* export(): put_nowait, and on queue.Full the dropped counter's += 1.     *)

ExportPut(a) ==
    /\ apc[a] = "idle"
    /\ accepted + rejected < MaxExports
    /\ ~Full
    /\ accepted' = accepted + 1
    /\ queue' = Append(queue, accepted + 1)
    /\ unfinished' = unfinished + 1
    /\ UNCHANGED <<shutdown, exportedCount, droppedCount, worker, app, caller,
                   rejected, called, returned, mark, sealed>>

ExportFull(a) ==
    /\ apc[a] = "idle"
    /\ accepted + rejected < MaxExports
    /\ Full
    /\ rejected' = rejected + 1
    /\ apc' = [apc EXCEPT ![a] = "load"]
    /\ UNCHANGED <<fields, worker, aload, caller,
                   accepted, called, returned, mark, sealed>>

ExportLoad(a) ==
    /\ apc[a] = "load"
    /\ aload' = [aload EXCEPT ![a] = droppedCount]
    /\ apc' = [apc EXCEPT ![a] = "store"]
    /\ UNCHANGED <<fields, worker, caller, history>>

ExportStore(a) ==
    /\ apc[a] = "store"
    /\ droppedCount' = aload[a] + 1
    /\ apc' = [apc EXCEPT ![a] = "idle"]
    /\ UNCHANGED <<queue, unfinished, shutdown, exportedCount,
                   worker, aload, caller, history>>

AppStep(a) == ExportLoad(a) \/ ExportStore(a)
AppNext(a) == ExportPut(a) \/ ExportFull(a) \/ AppStep(a)

-----------------------------------------------------------------------------
(* _run() and _export_batch() on the worker thread.                        *)

\* `while not shutdown.is_set() or not queue.empty()`. One step: the queue is
\* read only after the event was seen set, and the event is never cleared.
LoopCheck ==
    /\ wpc = "loop"
    /\ wpc' = IF ~shutdown \/ queue # <<>> THEN "get" ELSE "dead"
    /\ UNCHANGED <<fields, batch, wload, app, caller, history>>

\* get(timeout=flush_interval) raises Empty: continue.
GetTimeout ==
    /\ wpc = "get"
    /\ queue = <<>>
    /\ wpc' = "loop"
    /\ UNCHANGED <<fields, batch, wload, app, caller, history>>

GetFirst ==
    /\ wpc = "get"
    /\ queue # <<>>
    /\ queue' = Tail(queue)
    /\ IF Head(queue) = None
         THEN wpc' = "pillFirst" /\ UNCHANGED batch
         ELSE wpc' = "fill" /\ batch' = <<Head(queue)>>
    /\ UNCHANGED <<unfinished, shutdown, exportedCount, droppedCount,
                   wload, app, caller, history>>

\* get_nowait() while the batch is short; a pill ends the batch.
FillNext ==
    /\ wpc = "fill"
    /\ Len(batch) < BatchSize
    /\ queue # <<>>
    /\ queue' = Tail(queue)
    /\ IF Head(queue) = None
         THEN wpc' = "pillFill" /\ UNCHANGED batch
         ELSE wpc' = "fill" /\ batch' = Append(batch, Head(queue))
    /\ UNCHANGED <<unfinished, shutdown, exportedCount, droppedCount,
                   wload, app, caller, history>>

FillEnd ==
    /\ wpc = "fill"
    /\ Len(batch) >= BatchSize \/ queue = <<>>
    /\ wpc' = "export"
    /\ UNCHANGED <<fields, batch, wload, app, caller, history>>

\* task_done() for a pill. The first item of a batch being a pill ends the
\* thread; a pill met later only ends the batch.
PillDone ==
    /\ wpc \in {"pillFirst", "pillFill"}
    /\ unfinished' = unfinished - 1
    /\ wpc' = IF wpc = "pillFirst" THEN "dead" ELSE "export"
    /\ UNCHANGED <<queue, shutdown, exportedCount, droppedCount,
                   batch, wload, app, caller, history>>

BatchTraces == {batch[i] : i \in DOMAIN batch}

\* The inner exporter's call returns. That is all this module can say of the
\* batch: a CompositeExporter returns after a child has failed
\* (HTTPExporter.tla), and what a call that raises has sent is not taken back.
ExportReturns ==
    /\ wpc = "export"
    /\ called' = called \o batch
    /\ returned' = returned \cup BatchTraces
    /\ wpc' = "count"
    /\ UNCHANGED <<fields, batch, wload, app, caller, accepted, rejected, mark, sealed>>

\* The call raises.
ExportRaises ==
    /\ wpc = "export"
    /\ called' = called \o batch
    /\ wpc' = "load"
    /\ UNCHANGED <<fields, batch, wload, app, caller, accepted, rejected, returned,
                   mark, sealed>>

\* Only the worker writes this counter, so its load and store are one step.
CountExported ==
    /\ wpc = "count"
    /\ exportedCount' = exportedCount + Len(batch)
    /\ wpc' = "settle"
    /\ UNCHANGED <<queue, unfinished, shutdown, droppedCount,
                   batch, wload, app, caller, history>>

LoadDropped ==
    /\ wpc = "load"
    /\ wload' = droppedCount
    /\ wpc' = "store"
    /\ UNCHANGED <<fields, batch, app, caller, history>>

StoreDropped ==
    /\ wpc = "store"
    /\ droppedCount' = wload + Len(batch)
    /\ wpc' = "settle"
    /\ UNCHANGED <<queue, unfinished, shutdown, exportedCount,
                   batch, wload, app, caller, history>>

\* The finally clause: one task_done() per trace of the batch.
TaskDone ==
    /\ wpc = "settle"
    /\ unfinished' = unfinished - 1
    /\ batch' = Tail(batch)
    /\ wpc' = IF Len(batch) = 1 THEN "loop" ELSE "settle"
    /\ UNCHANGED <<queue, shutdown, exportedCount, droppedCount,
                   wload, app, caller, history>>

WorkerNext ==
    \/ LoopCheck \/ GetTimeout \/ GetFirst \/ FillNext \/ FillEnd \/ PillDone
    \/ ExportReturns \/ ExportRaises \/ CountExported \/ LoadDropped
    \/ StoreDropped \/ TaskDone

-----------------------------------------------------------------------------
(* flush() and shutdown(), called from any thread, atexit's included.      *)

Call(c) ==
    /\ cpc[c] = "idle"
    /\ calls[c] < MaxCalls
    /\ calls' = [calls EXCEPT ![c] = @ + 1]
    /\ \E o \in {"flush", "shutdown"} : op' = [op EXCEPT ![c] = o]
    /\ cpc' = [cpc EXCEPT ![c] = "join"]
    /\ mark' = [mark EXCEPT ![c] = accepted]
    /\ UNCHANGED <<fields, worker, app, accepted, rejected, called, returned, sealed>>

\* queue.join() returns once unfinished_tasks is 0.
Join(c) ==
    /\ cpc[c] = "join"
    /\ unfinished = 0
    /\ cpc' = [cpc EXCEPT ![c] = "innerFlush"]
    /\ UNCHANGED <<fields, worker, app, op, calls, history>>

\* The inner exporter's flush(); what it raises is swallowed.
InnerFlush(c) ==
    /\ cpc[c] = "innerFlush"
    /\ cpc' = [cpc EXCEPT ![c] = IF op[c] = "flush" THEN "idle" ELSE "set"]
    /\ UNCHANGED <<fields, worker, app, op, calls, history>>

SetShutdown(c) ==
    /\ cpc[c] = "set"
    /\ shutdown' = TRUE
    /\ sealed' = IF shutdown THEN sealed ELSE accepted
    /\ cpc' = [cpc EXCEPT ![c] = "pill"]
    /\ UNCHANGED <<queue, unfinished, exportedCount, droppedCount, worker, app,
                   op, calls, accepted, rejected, called, returned, mark>>

\* put_nowait(None), a full queue ignored.
PutPill(c) ==
    /\ cpc[c] = "pill"
    /\ IF Full
         THEN UNCHANGED <<queue, unfinished>>
         ELSE queue' = Append(queue, None) /\ unfinished' = unfinished + 1
    /\ cpc' = [cpc EXCEPT ![c] = "wait"]
    /\ UNCHANGED <<shutdown, exportedCount, droppedCount, worker, app, op, calls, history>>

\* is_alive() is false or join(timeout=5.0) returns: the thread ended, or the
\* five seconds are over with the thread still running.
AwaitWorker(c) ==
    /\ cpc[c] = "wait"
    /\ cpc' = [cpc EXCEPT ![c] = "innerShutdown"]
    /\ UNCHANGED <<fields, worker, app, op, calls, history>>

InnerShutdown(c) ==
    /\ cpc[c] = "innerShutdown"
    /\ cpc' = [cpc EXCEPT ![c] = "idle"]
    /\ UNCHANGED <<fields, worker, app, op, calls, history>>

CallerStep(c) ==
    \/ Join(c) \/ InnerFlush(c) \/ SetShutdown(c) \/ PutPill(c)
    \/ AwaitWorker(c) \/ InnerShutdown(c)

-----------------------------------------------------------------------------

Next ==
    \/ \E a \in AppThreads : AppNext(a)
    \/ WorkerNext
    \/ \E c \in Callers : Call(c) \/ CallerStep(c)

Spec == Init /\ [][Next]_vars

\* Every thread that has something to do is scheduled, and the inner
\* exporter's calls end (HTTPExporter bounds its requests and retries). No
\* thread has to call export(), flush() or shutdown(), and none has to stop.
Fairness ==
    /\ WF_vars(WorkerNext)
    /\ \A a \in AppThreads : WF_vars(AppStep(a))
    /\ \A c \in Callers : WF_vars(CallerStep(c))

FairSpec == Spec /\ Fairness

-----------------------------------------------------------------------------
(* Properties.                                                             *)

\* The fields and the program counters hold what the code can put in them;
\* in particular task_done() is never called once too often, which would
\* raise ValueError in the worker and end it.
TypeOK ==
    /\ queue \in Seq(Nat)
    /\ unfinished \in Nat
    /\ shutdown \in BOOLEAN
    /\ exportedCount \in Nat /\ droppedCount \in Nat
    /\ wpc \in WorkerPC /\ batch \in Seq(Nat) /\ wload \in Nat
    /\ apc \in [AppThreads -> {"idle", "load", "store"}]
    /\ aload \in [AppThreads -> Nat]
    /\ cpc \in [Callers -> CallerPC]
    /\ op \in [Callers -> {"flush", "shutdown"}]
    /\ calls \in [Callers -> Nat]
    /\ accepted \in Nat /\ rejected \in Nat
    /\ called \in Seq(Nat) /\ returned \subseteq Nat
    /\ mark \in [Callers -> Nat] /\ sealed \in Nat

\* unfinished_tasks counts exactly what is queued, what the worker holds and
\* has not called task_done() for, and a pill in its hand, on every path
\* through _run and _export_batch: one too few lets flush() return early, one
\* too many blocks it for ever.
PillInHand == IF wpc \in {"pillFirst", "pillFill"} THEN 1 ELSE 0
UnfinishedExact == unfinished = Len(queue) + Len(batch) + PillInHand

\* The inner exporter is given the traces in the order export() accepted
\* them, each once, whatever the batches, failures and pills in between.
InOrderExactlyOnce == \A i \in DOMAIN called : called[i] = i

\* Once queue.join() has let a flush() or shutdown() call go on, every trace
\* accepted before that call began has been through the inner exporter:
\* "Wait for pending exports to complete" (base.py).
PastJoin == CallerPC \ {"idle", "join"}
FlushWaits == \A c \in Callers : cpc[c] \in PastJoin => Len(called) >= mark[c]

\* The worker ends with nothing left behind that was accepted before
\* _shutdown was set, whether the pill was queued, refused by a full queue,
\* or consumed in the middle of a batch.
ExitDrains == wpc = "dead" => shutdown /\ Len(called) >= sealed

\* Traces held in memory, waiting or in the worker's hands, are bounded by
\* the queue and one batch (a batch holds at least its first trace).
Held == accepted - Len(called)
Capacity == IF MaxQueueSize = 0 THEN 0
            ELSE MaxQueueSize + (IF BatchSize = 0 THEN 1 ELSE BatchSize)
HeldBounded == Capacity > 0 => Held <= Capacity

\* The counters may miss drops (an increment by another thread between the
\* worker's load and store is lost, on either side) but never report what
\* did not happen: exported_traces_count counts only traces of calls that
\* returned, dropped_traces_count only traces that a full queue refused or
\* whose call raised, and no trace is counted twice.  Whether a call that
\* returned delivered its traces is the inner exporter's affair
\* (DeliveryExplained in HTTPExporter.tla).
Raised == Len(called) - Cardinality(returned)
CountersNeverOverstate ==
    /\ exportedCount <= Cardinality(returned)
    /\ droppedCount <= rejected + Raised

\* The exporter implements the abstract channel: the hand-over order, the
\* promise of a wait and the drained close, for every interleaving.
Channel == INSTANCE TraceChannel WITH
    handed <- Len(called),
    promise <- [c \in Callers |-> IF cpc[c] = "join" THEN mark[c] ELSE -1],
    sealed <- IF shutdown THEN sealed ELSE -1,
    open <- wpc # "dead"
ChannelSpec == Channel!ChanSpec

\* A trace accepted before the shutdown began reaches the inner exporter.
AcceptedIsHanded ==
    \A k \in 1..MaxExports : (accepted >= k /\ ~shutdown) ~> (Len(called) >= k)

\* A premise, not something the code sees to: export() puts traces on the
\* queue after the shutdown as before it, and queue.join() waits for those
\* too.  Threads that never stop exporting can keep flush(), shutdown() and
\* the worker from ever ending.  (In an instance MaxExports ends production,
\* so that every behaviour meets the premise.)
ExportingStops == <>[][UNCHANGED accepted]_vars

\* flush() and shutdown() get past their wait, unless another caller shuts
\* the exporter down while they wait and its pill stays on the queue.
EarlyCallReturns ==
    \A c \in Callers :
        (cpc[c] = "join" /\ ~shutdown) ~> (cpc[c] # "join" \/ shutdown)

\* Setting _shutdown ends the worker, though its pill may be refused by a
\* full queue or eaten in the middle of a batch and not put back.
ShutdownEndsWorker == shutdown ~> (wpc = "dead")

\* Once the application stops exporting, no call made before the shutdown
\* waits for ever and the worker ends after it.  (flush and shutdown,
\* async_exporter.py:91-110.)
ThreadsEnd == ExportingStops => EarlyCallReturns /\ ShutdownEndsWorker

\* Every call of flush() and shutdown() gets past its wait.
EveryCallReturns == \A c \in Callers : (cpc[c] = "join") ~> (cpc[c] # "join")
=============================================================================
