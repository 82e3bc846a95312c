--------------------------- MODULE IngestPipeline ---------------------------
(***************************************************************************)
(* The server from POST /api/v1/traces to the traces table: TraceStore's   *)
(* cache, TraceQueue (Redis with an in-memory fallback in each process),   *)
(* IngestionWorker's thread in every process, and the admin deletions.     *)
(*                                                                         *)
(* A process is an API server, which runs a worker thread too, or a bare   *)
(* worker. The batches the API answered "accepted" are numbered 1, 2, ...; *)
(* a queue holds these numbers. A batch is a sequence of snapshots of      *)
(* traces, each with a version number, and ended when it has the end_time, *)
(* the duration_ms and the metadata of a trace that is over.  A trace's    *)
(* row and those of its spans keep the versions of three groups of columns *)
(* apart, for a later snapshot is merged into them, not put in their       *)
(* place: what every snapshot replaces, what only an ended one does, and   *)
(* what stays as it was inserted.                                          *)
(***************************************************************************)
EXTENDS Integers, Sequences, FiniteSets

CONSTANTS
    Procs,        \* server processes
    ApiProcs,     \* those that serve HTTP
    TraceIds,
    Versions,     \* snapshots a trace is exported in; 0 means no row
    Batches,      \* the batches clients may send
    MemQueueSize, \* maxsize of the in-memory queue
    MaxIngests,   \* bound: batches in a behaviour
    MaxFaults     \* bound: faults and stops in a behaviour

ASSUME PipelineAssumption ==
    /\ ApiProcs \subseteq Procs /\ IsFiniteSet(Procs)
    /\ Versions \subseteq Nat \ {0}
    /\ Batches \subseteq Seq([id : TraceIds, ver : Versions, ended : BOOLEAN]) \ {<<>>}
    /\ MemQueueSize \in Nat \ {0}
    /\ MaxIngests \in Nat /\ MaxFaults \in Nat

VARIABLES
    batches,    \* the batches accepted, in order
    cache,      \* per process: _in_memory_traces of main.trace_store
    redisUp, redis,      \* the Redis server and its list
    useRedis, mem,       \* per process: use_redis and _memory_queue
    serving, stopped,    \* per process: lifespan entered; worker._shutdown
    wpc, cur, seen,      \* per worker: control, batch in hand, rows it loaded
    seenEnds,            \* ... and their ends
    purging,    \* per API process: ids the running purge found, or NoPurge
    rows,       \* per trace: the version of its status, and of the status, output
                \* and error of its spans; 0 where there is no row
    ends,       \* the version of end_time, duration_ms and metadata, or 0
    firsts,     \* the version of name and start_time, and of the spans' duration,
                \* attributes, input and metrics
    \* History:
    faults,     \* faults and stops so far
    fates,      \* per batch: what became of its deliveries
    purged,     \* traces a purge removed and nobody ingested since
    deleted     \* traces that were ever deleted

environment == <<redisUp, redis>>
control == <<serving, stopped, wpc, cur, seen, seenEnds>>
table == <<rows, ends, firsts>>
vars == <<batches, cache, redisUp, redis, useRedis, mem, serving, stopped, wpc, cur,
          seen, seenEnds, purging, rows, ends, firsts, faults, fates, purged, deleted>>

Accepted == 1..Len(batches)
Ids(n) == {batches[n][i].id : i \in DOMAIN batches[n]}
NoBatch == 0
NoPurge == [purge |-> FALSE, ids |-> {}]
NoTraces == [x \in TraceIds |-> 0]

\* The version of x in the last snapshot of x in batch n, ...
LastVersion(n, x) ==
    LET last == CHOOSE i \in DOMAIN batches[n] :
            /\ batches[n][i].id = x
            /\ \A j \in DOMAIN batches[n] : batches[n][j].id = x => j <= i
    IN  batches[n][last].ver

\* ... in its first one, ...
FirstVersion(n, x) ==
    LET first == CHOOSE i \in DOMAIN batches[n] :
            /\ batches[n][i].id = x
            /\ \A j \in DOMAIN batches[n] : batches[n][j].id = x => i <= j
    IN  batches[n][first].ver

\* ... and in the last one that is ended, or 0.
EndsIn(n, x) == {i \in DOMAIN batches[n] : batches[n][i].id = x /\ batches[n][i].ended}
LastEnded(n, x) ==
    IF EndsIn(n, x) = {} THEN 0
    ELSE batches[n][CHOOSE i \in EndsIn(n, x) : \A j \in EndsIn(n, x) : j <= i].ver

Init ==
    /\ batches = <<>> /\ cache = [p \in Procs |-> NoTraces]
    /\ redisUp \in BOOLEAN /\ redis = <<>>
    /\ useRedis = [p \in Procs |-> redisUp] /\ mem = [p \in Procs |-> <<>>]
    /\ serving = [p \in Procs |-> TRUE] /\ stopped = [p \in Procs |-> FALSE]
    /\ wpc = [p \in Procs |-> "loop"] /\ cur = [p \in Procs |-> NoBatch]
    /\ seen = [p \in Procs |-> <<>>] /\ seenEnds = [p \in Procs |-> <<>>]
    /\ purging = [p \in ApiProcs |-> NoPurge]
    /\ rows = NoTraces /\ ends = NoTraces /\ firsts = NoTraces
    /\ faults = 0 /\ fates = [n \in 1..MaxIngests |-> {}] /\ purged = {} /\ deleted = {}

Fault == faults < MaxFaults /\ faults' = faults + 1
MeetsFate(n, fate) == fates' = [fates EXCEPT ![n] = @ \cup {fate}]

-----------------------------------------------------------------------------
(* enqueue_batch.                                                          *)

\* PushRedis: LPUSH, at the end BLPOP takes from. (Faulty variant.)
PushRedisLeft(n) ==
    /\ redis' = <<n>> \o redis
    /\ UNCHANGED <<useRedis, mem, fates>>

PushRedis(n) ==
    /\ redis' = Append(redis, n)
    /\ UNCHANGED <<useRedis, mem, fates>>

\* PutMemory: the queue has no maxsize. (Faulty variant.)
PutMemoryUnbounded(p, n) ==
    mem' = [mem EXCEPT ![p] = Append(@, n)] /\ UNCHANGED fates

\* put_nowait; on queue.Full the batch is dropped, though it was accepted.
PutMemory(p, n) ==
    IF Len(mem[p]) < MemQueueSize
      THEN mem' = [mem EXCEPT ![p] = Append(@, n)] /\ UNCHANGED fates
      ELSE MeetsFate(n, "queueFull") /\ UNCHANGED mem

\* PushFails: enqueue_batch returns without the fallback. (Faulty variant.)
PushGivesUp(p, n) ==
    /\ useRedis' = [useRedis EXCEPT ![p] = FALSE]
    /\ (redisUp /\ redis' = Append(redis, n)) \/ UNCHANGED redis
    /\ UNCHANGED <<mem, fates>>

\* rpush raises, with or without Redis having stored the batch: use_redis is
\* cleared for good and the batch goes to the memory queue.
PushFails(p, n) ==
    /\ useRedis' = [useRedis EXCEPT ![p] = FALSE]
    /\ (redisUp /\ redis' = Append(redis, n)) \/ UNCHANGED redis
    /\ PutMemory(p, n)

\* ingest_traces: add_many puts the snapshots in the cache and the batch on
\* the queue. The handler holds the event loop throughout, so no purge of
\* the same process is half done.
Ingest(p, b) ==
    LET n == Len(batches) + 1 IN
    /\ serving[p] /\ ~purging[p].purge
    /\ n <= MaxIngests
    /\ batches' = Append(batches, b)
    /\ cache' = [cache EXCEPT ![p] = [x \in TraceIds |->
                   IF \E i \in DOMAIN b : b[i].id = x
                     THEN b[CHOOSE i \in DOMAIN b :
                              b[i].id = x /\ \A j \in DOMAIN b : b[j].id = x => j <= i].ver
                     ELSE @[x]]]
    /\ purged' = purged \ {b[i].id : i \in DOMAIN b}
    /\ \/ useRedis[p] /\ redisUp /\ PushRedis(n) /\ UNCHANGED faults
       \/ useRedis[p] /\ ~redisUp /\ PushFails(p, n) /\ UNCHANGED faults
       \/ useRedis[p] /\ redisUp /\ PushFails(p, n) /\ Fault
       \/ ~useRedis[p] /\ PutMemory(p, n) /\ UNCHANGED <<redis, useRedis, faults>>
    /\ UNCHANGED <<redisUp, control, purging, table, deleted>>

-----------------------------------------------------------------------------
(* The worker thread: _run, dequeue_batch, process_batch.                  *)

Loop(p) ==
    /\ wpc[p] = "loop"
    /\ wpc' = [wpc EXCEPT ![p] = IF stopped[p] THEN "dead"
                                 ELSE IF useRedis[p] THEN "pop" ELSE "mem"]
    /\ UNCHANGED <<batches, cache, environment, useRedis, mem, serving, stopped,
                   cur, seen, seenEnds, purging, table, faults, fates, purged, deleted>>

Takes(p, n) ==
    /\ cur' = [cur EXCEPT ![p] = n]
    /\ seen' = [seen EXCEPT ![p] = <<>>] /\ seenEnds' = [seenEnds EXCEPT ![p] = <<>>]
    /\ wpc' = [wpc EXCEPT ![p] = "read"]

\* Pop: the head is read and left on the list for another worker, should
\* this one fail. (Faulty variant.)
PopLeaves(p) ==
    /\ wpc[p] = "pop" /\ redisUp
    /\ IF redis # <<>>
         THEN redis' = redis /\ Takes(p, Head(redis))
         ELSE wpc' = [wpc EXCEPT ![p] = "mem"] /\ UNCHANGED <<redis, cur, seen, seenEnds>>
    /\ UNCHANGED <<batches, cache, redisUp, useRedis, mem, serving, stopped,
                   purging, table, faults, fates, purged, deleted>>

\* blpop returns the head of the list, or nothing after its timeout.
Pop(p) ==
    /\ wpc[p] = "pop" /\ redisUp
    /\ IF redis # <<>>
         THEN redis' = Tail(redis) /\ Takes(p, Head(redis))
         ELSE wpc' = [wpc EXCEPT ![p] = "mem"] /\ UNCHANGED <<redis, cur, seen, seenEnds>>
    /\ UNCHANGED <<batches, cache, redisUp, useRedis, mem, serving, stopped,
                   purging, table, faults, fates, purged, deleted>>

\* PopFails: a retry, with use_redis left as it is. (Faulty variant.)
PopRetried(p) ==
    /\ wpc[p] = "pop" /\ ~redisUp
    /\ wpc' = [wpc EXCEPT ![p] = "loop"]
    /\ UNCHANGED <<batches, cache, environment, useRedis, mem, serving, stopped,
                   cur, seen, seenEnds, purging, table, faults, fates, purged, deleted>>

\* blpop raises: Redis is away, or its answer is late (the socket's timeout
\* is the second that blpop itself may take), and then the head may already
\* have been taken off. use_redis is cleared for good.
PopFails(p) ==
    /\ wpc[p] = "pop"
    /\ useRedis' = [useRedis EXCEPT ![p] = FALSE]
    /\ wpc' = [wpc EXCEPT ![p] = "mem"]
    /\ \/ ~redisUp /\ UNCHANGED <<redis, fates, faults>>
       \/ redisUp /\ Fault /\ UNCHANGED <<redis, fates>>
       \/ redisUp /\ Fault /\ redis # <<>>
            /\ redis' = Tail(redis) /\ MeetsFate(Head(redis), "lostInPop")
    /\ UNCHANGED <<batches, cache, redisUp, mem, serving, stopped, cur, seen, seenEnds,
                   purging, table, purged, deleted>>

MemGet(p) ==
    /\ wpc[p] = "mem"
    /\ IF mem[p] # <<>>
         THEN mem' = [mem EXCEPT ![p] = Tail(@)] /\ Takes(p, Head(mem[p]))
         ELSE wpc' = [wpc EXCEPT ![p] = "loop"] /\ UNCHANGED <<mem, cur, seen, seenEnds>>
    /\ UNCHANGED <<batches, cache, environment, useRedis, serving, stopped,
                   purging, table, faults, fates, purged, deleted>>

\* process_batch looks up the next trace's row. The session does not flush
\* on a query, so it does not see what it is about to insert itself.
ReadTrace(p) ==
    /\ wpc[p] = "read"
    /\ LET b == batches[cur[p]] IN
         /\ seen' = [seen EXCEPT ![p] = Append(@, rows[b[Len(@) + 1].id])]
         /\ seenEnds' = [seenEnds EXCEPT ![p] = Append(@, ends[b[Len(seen[p]) + 1].id])]
         /\ wpc' = [wpc EXCEPT ![p] =
                      IF Len(seen[p]) + 1 = Len(b) THEN "commit" ELSE "read"]
    /\ UNCHANGED <<batches, cache, environment, useRedis, mem, serving, stopped,
                   cur, purging, table, faults, fates, purged, deleted>>

\* The session loads x at the first lookup of it.
FirstLookup(p, x) ==
    LET b == batches[cur[p]] IN
    CHOOSE i \in DOMAIN b : b[i].id = x /\ \A j \in DOMAIN b : b[j].id = x => i <= j
Loaded(p, x) == seen[p][FirstLookup(p, x)]
LoadedEnd(p, x) == seenEnds[p][FirstLookup(p, x)]

Inserts(p, x) == {i \in DOMAIN batches[cur[p]] :
                    batches[cur[p]][i].id = x /\ seen[p][i] = 0}

\* EndsAnew: what the snapshot has not got is overwritten too. (Faulty variant.)
EndsErased(p, x) == Loaded(p, x) # 0 /\ LastEnded(cur[p], x) # LoadedEnd(p, x)

\* Into a row that is there every snapshot puts its status, and an ended one
\* its end ("end_time or existing_trace.end_time"); an UPDATE is emitted only
\* for the columns whose loaded values changed.
Replaces(p, x) == Loaded(p, x) # 0 /\ LastVersion(cur[p], x) # Loaded(p, x)
EndsAnew(p, x) == Loaded(p, x) # 0 /\ LastEnded(cur[p], x) \notin {0, LoadedEnd(p, x)}

\* The flush raises: a primary key inserted twice or already there, or an
\* UPDATE that finds its row gone.
Conflict(p, x) ==
    \/ Inserts(p, x) # {} /\ (\/ rows[x] # 0 \/ Loaded(p, x) # 0
                             \/ Cardinality(Inserts(p, x)) > 1)
    \/ (Replaces(p, x) \/ EndsAnew(p, x)) /\ rows[x] = 0

Done(p) ==
    /\ wpc[p] = "commit"
    /\ wpc' = [wpc EXCEPT ![p] = "loop"]
    /\ cur' = [cur EXCEPT ![p] = NoBatch]
    /\ seen' = [seen EXCEPT ![p] = <<>>] /\ seenEnds' = [seenEnds EXCEPT ![p] = <<>>]
    /\ UNCHANGED <<batches, cache, environment, useRedis, mem, serving, stopped,
                   purging, purged, deleted>>

\* The batch's rows are written in one transaction.
Commit(p) ==
    /\ Done(p)
    /\ \A x \in Ids(cur[p]) : ~Conflict(p, x)
    /\ rows' = [x \in TraceIds |->
                  IF x \in Ids(cur[p]) /\ (Inserts(p, x) # {} \/ Replaces(p, x))
                    THEN LastVersion(cur[p], x) ELSE rows[x]]
    /\ ends' = [x \in TraceIds |->
                  IF x \in Ids(cur[p]) /\ (Inserts(p, x) # {} \/ EndsAnew(p, x))
                    THEN LastEnded(cur[p], x) ELSE ends[x]]
    /\ firsts' = [x \in TraceIds |->
                    IF x \in Ids(cur[p]) /\ Inserts(p, x) # {}
                      THEN FirstVersion(cur[p], x) ELSE firsts[x]]
    /\ MeetsFate(cur[p], "committed")
    /\ UNCHANGED faults

\* RollBack: a commit after every trace rather than after the batch, so what
\* did not fail stays. (Faulty variant.)
RollBackLate(p) ==
    /\ Done(p)
    /\ \E x \in Ids(cur[p]) : Conflict(p, x)
    /\ rows' = [x \in TraceIds |->
                  IF x \in Ids(cur[p]) /\ ~Conflict(p, x) THEN LastVersion(cur[p], x)
                  ELSE rows[x]]
    /\ MeetsFate(cur[p], "conflict")
    /\ UNCHANGED <<ends, firsts, faults>>

\* _run's except clause: rollback, and the batch is forgotten.
RollBack(p) ==
    /\ Done(p)
    /\ \/ (\E x \in Ids(cur[p]) : Conflict(p, x))
            /\ MeetsFate(cur[p], "conflict") /\ UNCHANGED faults
       \/ Fault /\ MeetsFate(cur[p], "dbError")
    /\ UNCHANGED table

WorkerNext(p) ==
    \/ Loop(p) \/ Pop(p) \/ PopFails(p) \/ MemGet(p)
    \/ ReadTrace(p) \/ Commit(p) \/ RollBack(p)

-----------------------------------------------------------------------------
(* Start and stop, crashes, Redis going away and coming back.              *)

\* worker.stop(), from the lifespan's end, when no request is running.
Stop(p) ==
    /\ serving[p] /\ ~purging[p].purge /\ Fault
    /\ serving' = [serving EXCEPT ![p] = FALSE]
    /\ stopped' = [stopped EXCEPT ![p] = TRUE]
    /\ UNCHANGED <<batches, cache, environment, useRedis, mem, wpc, cur, seen, seenEnds,
                   purging, table, fates, purged, deleted>>

\* worker.start() in the same process. It does not clear _shutdown, so a new
\* thread ends at its first look at it; while the old one, which stop() waits
\* for five seconds only, is still at work, that is all the new one does.
StartAgain(p) ==
    /\ ~serving[p]
    /\ serving' = [serving EXCEPT ![p] = TRUE]
    /\ wpc' = [wpc EXCEPT ![p] = IF @ = "dead" THEN "loop" ELSE @]
    /\ UNCHANGED <<batches, cache, environment, useRedis, mem, stopped, cur, seen, seenEnds,
                   purging, table, faults, fates, purged, deleted>>

\* A new process takes the place of p's: what is in Redis stays, and what
\* was in memory or in the worker's hands is gone.
NewProcess(p, fate) ==
    /\ cache' = [cache EXCEPT ![p] = NoTraces]
    /\ mem' = [mem EXCEPT ![p] = <<>>]
    /\ useRedis' = [useRedis EXCEPT ![p] = redisUp]
    /\ serving' = [serving EXCEPT ![p] = TRUE]
    /\ stopped' = [stopped EXCEPT ![p] = FALSE]
    /\ wpc' = [wpc EXCEPT ![p] = "loop"]
    /\ cur' = [cur EXCEPT ![p] = NoBatch]
    /\ seen' = [seen EXCEPT ![p] = <<>>] /\ seenEnds' = [seenEnds EXCEPT ![p] = <<>>]
    /\ purging' = [q \in ApiProcs |-> IF q = p THEN NoPurge ELSE purging[q]]
    /\ fates' = [n \in 1..MaxIngests |->
                   IF n = cur[p] \/ \E i \in DOMAIN mem[p] : mem[p][i] = n
                     THEN fates[n] \cup {fate} ELSE fates[n]]
    /\ UNCHANGED <<batches, environment, table, purged, deleted>>

Crash(p) == Fault /\ NewProcess(p, "crash")

\* A stopped process exits and is started again: a deployment.
Redeploy(p) == ~serving[p] /\ NewProcess(p, "exit") /\ UNCHANGED faults

RedisFails ==
    /\ redisUp /\ Fault
    /\ redisUp' = FALSE
    /\ UNCHANGED <<batches, cache, redis, useRedis, mem, control, purging, table,
                   fates, purged, deleted>>

RedisReturns ==
    /\ ~redisUp /\ faults > 0
    /\ redisUp' = TRUE
    /\ UNCHANGED <<batches, cache, redis, useRedis, mem, control, purging, table,
                   faults, fates, purged, deleted>>

-----------------------------------------------------------------------------
(* Admin. All traces belong to one workspace here.                         *)

\* clear_all_traces: the ids are looked up, ...
PurgeFind(p) ==
    /\ serving[p] /\ ~purging[p].purge
    /\ purging' = [purging EXCEPT ![p] =
                     [purge |-> TRUE, ids |-> {x \in TraceIds : rows[x] # 0}]]
    /\ UNCHANGED <<batches, cache, environment, useRedis, mem, control, table,
                   faults, fates, purged, deleted>>

\* Rows are taken out with all their columns.
TakeOut(ids) ==
    /\ rows' = [x \in TraceIds |-> IF x \in ids THEN 0 ELSE rows[x]]
    /\ ends' = [x \in TraceIds |-> IF x \in ids THEN 0 ELSE ends[x]]
    /\ firsts' = [x \in TraceIds |-> IF x \in ids THEN 0 ELSE firsts[x]]

\* ... then deleted by id. remove_traces is called on the TraceStore that
\* admin.py made for itself and that nobody adds to, so no cache changes.
PurgeDelete(p) ==
    /\ purging[p].purge
    /\ TakeOut(purging[p].ids)
    /\ purged' = purged \cup purging[p].ids
    /\ deleted' = deleted \cup purging[p].ids
    /\ purging' = [purging EXCEPT ![p] = NoPurge]
    /\ UNCHANGED <<batches, cache, environment, useRedis, mem, control,
                   faults, fates>>

\* batch_delete_traces, and delete_single_trace of a trace that is there.
DeleteTraces(p, ids) ==
    /\ serving[p] /\ ~purging[p].purge
    /\ TakeOut(ids)
    /\ deleted' = deleted \cup ids
    /\ UNCHANGED <<batches, cache, environment, useRedis, mem, control, purging,
                   faults, fates, purged>>

-----------------------------------------------------------------------------

ApiNext(p) ==
    \/ \E b \in Batches : Ingest(p, b)
    \/ PurgeFind(p) \/ PurgeDelete(p)
    \/ \E ids \in SUBSET TraceIds \ {{}} : DeleteTraces(p, ids)

Next ==
    \/ \E p \in ApiProcs : ApiNext(p) \/ Stop(p) \/ StartAgain(p) \/ Redeploy(p)
    \/ \E p \in Procs : WorkerNext(p) \/ Crash(p)
    \/ RedisFails \/ RedisReturns

Spec == Init /\ [][Next]_vars

\* Threads are scheduled, and calls to Redis and the database return or raise.
FairSpec == Spec /\ \A p \in Procs : WF_vars(WorkerNext(p))

-----------------------------------------------------------------------------
(* Properties.                                                             *)

TypeOK ==
    /\ batches \in Seq(Batches) /\ Len(batches) <= MaxIngests
    /\ cache \in [Procs -> [TraceIds -> Versions \cup {0}]]
    /\ rows \in [TraceIds -> Versions \cup {0}]
    /\ ends \in [TraceIds -> Versions \cup {0}] /\ firsts \in [TraceIds -> Versions \cup {0}]
    /\ redisUp \in BOOLEAN /\ redis \in Seq(Accepted)
    /\ useRedis \in [Procs -> BOOLEAN]
    /\ \A p \in Procs : mem[p] \in Seq(Accepted) /\ Len(mem[p]) <= MemQueueSize
    /\ serving \in [Procs -> BOOLEAN] /\ stopped \in [Procs -> BOOLEAN]
    /\ wpc \in [Procs -> {"loop", "pop", "mem", "read", "commit", "dead"}]
    /\ \A p \in Procs : /\ cur[p] \in Accepted \cup {NoBatch}
                        /\ cur[p] # NoBatch <=> wpc[p] \in {"read", "commit"}
                        /\ cur[p] # NoBatch => Len(seen[p]) <= Len(batches[cur[p]])
                        /\ Len(seenEnds[p]) = Len(seen[p])
    /\ purging \in [ApiProcs -> [purge : BOOLEAN, ids : SUBSET TraceIds]]
    /\ purged \subseteq deleted /\ deleted \subseteq TraceIds

Elements(s) == {s[i] : i \in DOMAIN s}
InHand(n) == \E p \in Procs : cur[p] = n
Queued(n) == n \in Elements(redis) \/ \E p \in Procs : n \in Elements(mem[p])
InSystem(n) == Queued(n) \/ InHand(n)

\* While no fault happens - no crash, no stop, no failing call to Redis or the
\* database - a batch the API accepted is written unless it is still on its
\* way, for one of four reasons: Redis was away from the start and the memory
\* queue full, it names a trace twice, one of its traces was deleted, or one is
\* in another batch that another process's worker wrote meanwhile. With
\* faults, what is lost is what fates tells: the code keeps no copy.
\* (enqueue_batch and dequeue_batch, queue.py; _run and process_batch,
\* worker.py.)
Repeats(n) == Cardinality(Ids(n)) < Len(batches[n])
Alone == Cardinality(Procs) = 1
Contested(n) == ~Alone /\ \E m \in Accepted \ {n} : Ids(m) \cap Ids(n) # {}
NothingLostUnprovoked ==
    \A n \in Accepted :
        \/ InSystem(n)
        \/ "committed" \in fates[n]
        \/ "queueFull" \in fates[n] /\ ~redisUp
        \/ "conflict" \in fates[n] /\ (Repeats(n) \/ Ids(n) \cap deleted # {} \/ Contested(n))
        \/ faults > 0 /\ fates[n] # {}

\* A batch is written whole or not at all, whatever other workers and the
\* admin API do between its reads and its commit: every trace of a committed
\* batch has a row unless it was deleted, and a row has its status from a
\* batch that was committed.
AllOrNothing ==
    /\ \A n \in Accepted : "committed" \in fates[n] =>
          \A x \in Ids(n) : rows[x] # 0 \/ x \in deleted
    /\ \A x \in TraceIds : rows[x] # 0 =>
          \E n \in Accepted : /\ "committed" \in fates[n]
                             /\ \E i \in DOMAIN batches[n] :
                                   batches[n][i].id = x /\ batches[n][i].ver = rows[x]

\* One worker and no fault: a row has the status of the newest snapshot among
\* the committed batches. (Two workers, or Redis failing between two batches,
\* reorder.)
NewestWins ==
    Alone /\ faults = 0 =>
        \A x \in TraceIds, n \in Accepted :
            /\ rows[x] # 0 /\ x \in Ids(n) /\ "committed" \in fates[n]
            /\ \A m \in Accepted :
                  m > n => ~(x \in Ids(m) /\ "committed" \in fates[m])
            => rows[x] = LastVersion(n, x)

\* Under the same conditions a trace that was not deleted has the end of the
\* newest committed batch that has one for it, which no later snapshot without
\* an end erases, ...
EndsKept ==
    Alone /\ faults = 0 =>
        \A x \in TraceIds \ deleted, n \in Accepted :
            /\ LastEnded(n, x) # 0 /\ "committed" \in fates[n]
            /\ \A m \in Accepted :
                  m > n => ~(LastEnded(m, x) # 0 /\ "committed" \in fates[m])
            => ends[x] = LastEnded(n, x)

\* ... and keeps its name, start and its spans' inputs and metrics from the
\* oldest committed one: a later snapshot does not change them.
FirstKept ==
    Alone /\ faults = 0 =>
        \A x \in TraceIds \ deleted, n \in Accepted :
            /\ x \in Ids(n) /\ "committed" \in fates[n]
            /\ \A m \in Accepted :
                  m < n => ~(x \in Ids(m) /\ "committed" \in fates[m])
            => firsts[x] = FirstVersion(n, x)

\* One worker: a batch is rolled back for a conflict only when it repeats a
\* trace, or a trace of it was deleted, and not because the trace was
\* ingested before.
ConflictsExplained ==
    Alone => \A n \in Accepted : "conflict" \in fates[n] =>
        Repeats(n) \/ Ids(n) \cap deleted # {}

\* What one worker stores of a trace's snapshots, column by column, and which
\* batches it rolls back.  (process_batch, worker.py:58-145.)
CommitsExplained == NewestWins /\ EndsKept /\ FirstKept /\ ConflictsExplained

\* An accepted batch meets its fate, or sits where no worker looks: in Redis
\* with no live worker that still uses Redis, or in the memory queue of a
\* process whose worker has ended.
Unread(n) ==
    \/ n \in Elements(redis) /\ \A p \in Procs : wpc[p] = "dead" \/ ~useRedis[p]
    \/ \E p \in Procs : wpc[p] = "dead" /\ n \in Elements(mem[p])
AcceptedSettles ==
    \A n \in 1..MaxIngests :
        (n <= Len(batches)) ~> (n <= Len(batches) /\ (fates[n] # {} \/ Unread(n)))

\* The server implements the abstract delivery: whatever processes, workers,
\* Redis and the admin API do, a batch has the copies under way that the queues
\* and the workers' hands hold, each is written whole or comes to another end
\* that is recorded, and none returns.  (enqueue_batch and dequeue_batch,
\* queue.py:29 and 43, and _run, worker.py:33.)
Copies ==
    [n \in 1..MaxIngests |->
        (IF n \in Elements(redis) THEN 1 ELSE 0)
        + (IF \E p \in Procs : n \in Elements(mem[p]) THEN 1 ELSE 0)
        + Cardinality({p \in Procs : cur[p] = n})]
Delivery == INSTANCE BatchDelivery WITH copies <- Copies
DeliverySpec == Delivery!DeliverySpec

\* "Permanently purge all traces ... from the database and memory."
PurgeClearsMemory == \A p \in ApiProcs, x \in purged : cache[p][x] = 0
=============================================================================
