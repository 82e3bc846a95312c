# Verification of Feenion

Feenion records what LLM applications do. A Python SDK in the application
(`src/sdk/feenion`) opens traces and spans, queues finished traces and posts
them in batches; a FastAPI server (`src/server/feenion_server`) accepts the
batches, queues them on Redis or in memory, and a worker thread writes them to
PostgreSQL or SQLite; a React dashboard (`src/web`) reads them back. This
directory holds TLA+ specifications of the parts where order, failure and
concurrency decide whether a trace survives and whether the dashboard shows what
it says it shows, the TLC configurations that check them, and TLAPS proofs
of the safety properties of eight of the components.

Each module is translated from the code; the comments say which function a
definition stands for, and `PROJECT.json` ("map") gives the lines.

## The system

| Part | State | Operations | Talks to | What makes it correct |
|---|---|---|---|---|
| `tracer.py`, `context.py`, `models.py` | two contextvars per task, registries of active traces and spans, `Tracer.traces` | enter and leave trace and span managers, `@trace` | exporter: `export(trace)` | a task's context is its own; a trace is handed over once, complete |
| `integrations/langchain.py` | `_runs`: run id to span | `on_*_start`, `on_*_end`, `on_*_error` | tracer: `start_trace`, `end_trace` | spans below their parent run; the trace ends with the root run |
| `integrations/` for providers | monkey patches | one span per client call | tracer | (not modelled) |
| `exporters/async_exporter.py` | bounded `queue.Queue`, worker thread, event, two counters | `export`, `flush`, `shutdown` from any thread | inner exporter: `export_batch` | order, no loss, no repeat; `flush` waits; the worker drains and ends; the counters never overstate |
| `exporters/http.py`, `base.py` | configuration only; the progress of a call | group by credentials, post, retry; composite fan-out | server: `POST /api/v1/traces` | a call of one exporter that returned has delivered; bounded requests; isolation of children |
| `pricing.py`, `redaction.py`, `serializer.py`, `sampling.py`, `replay.py` | price table | pure functions | tracer, integrations | (not modelled) |
| `api/ingestion.py`, `store.py` | in-memory cache of traces | accept a batch | queue; websocket | the cache agrees with what was accepted and purged |
| `queue.py`, `worker.py` | Redis list, memory queue and `use_redis` per process, worker thread | enqueue, dequeue, upsert a batch in one transaction | Redis, database | without a fault no accepted batch is lost but for the reasons named; a batch is written whole or not at all; what a later snapshot replaces |
| `auth.py`, project handlers of `api/query.py` | tables `projects`, `api_keys` | route a request to a workspace, create, key, delete | database | keys and traces never outlive or change their workspace |
| `api/admin.py` | none of its own (see findings) | purge, delete | database, cache | what is purged is gone |
| `api/query.py`, the rest | none | read and aggregate | database, cache | (not modelled) |
| `retention.py` | thread | purge by age | database | started by nothing |
| `ws.py` | connections | broadcast to every tab, whatever its workspace | ingestion, admin; `App.tsx` | a tab that listens learns of every change |
| `web/`: `App.tsx`, `api/client.ts`, `TopBar.tsx` | selected workspace, filters, pause, lists; `localStorage`; the workspace in the client's headers | fetch, listen, select, create and delete workspaces, reload | API, websocket, other tabs through `localStorage` | the screen belongs to what is selected; nothing broadcast is forgotten |
| `web/`: `pages/traces`, `pages/errors`, `TraceComparisonModal`, `CommandPalette`, `Sidebar` | open page, overlays, ticked rows, compared traces | navigate, tick, delete, compare | `App.tsx`, API | what is deleted was confirmed and leaves the list; what crossing or late answers may change is named |
| `web/`: `TraceTimeline`, `TraceMindMap`, `SpanTree`, `SpanInspector` | one trace; view, zoom, selection | arrange and sum up spans | the page that loads the trace | every span has its row; no sum exceeds what was used |
| `web/`: `pages/settings`, `formatters.ts`, `pricing.ts` | currency, rates, price catalog, calculator, revealed keys, two modals; `localStorage` | save, sync, reveal, create, delete, purge | API, sources of exchange rates, `App.tsx` | what a user saved stays; what is deleted or purged is what was named, but for one reason |
| `web/`: the analytics pages, charts, widgets | the answer of one request | draw | API | (not modelled) |

Hard behaviours: threads meeting at the exporter's queue; a poison pill that can
be refused, eaten in the middle of a batch or left behind; retries after lost
answers; tasks that outlive the trace they were created in; several processes
over one Redis list, each able to fall back to memory for good; sessions whose
reads are stale when they commit; request threads that check and then act;
answers that reach a page of the dashboard late, in another order, or after
it was left; handlers and timers that keep the state of an older render;
`localStorage` that several tabs write.
`PROJECT.json` ("hazards") lists them line by line with the property that
watches each, or the reason why none does yet.

## The modules

**TraceChannel** is what the SDK's background exporter promises, with no queue in
sight: traces are accepted, handed over in order and once; a wait ends only when
what was accepted before it was handed over; the channel closes only when what
was accepted before it was sealed was handed over.

**AsyncExporter** is `async_exporter.py`, one action for every step between two points
where CPython may switch threads: the queue's own methods are atomic, an `x += n` on an
attribute is a load and a store. A trace is its number in the order of acceptance, the
pill `None` is 0. `ExportReturns` and `ExportRaises` are the inner exporter's
`export_batch`, which returns or raises. Neither says what was delivered: a call that
raises may have delivered any part of the batch, and a composite returns although its
children failed (`base.py:54-59`). So `returned` is the set of traces whose call
returned, and `exported_traces_count` is held to that: it counts no trace whose call
raised, and no trace twice. What a returned call has delivered is said in HTTPExporter.
The loop condition is one step although it reads two things: the queue is read only
after the event was seen set, and the event is never cleared, so the read of the queue
decides. `ChannelSpec` is TraceChannel under the mapping handed = number of traces given
to the inner exporter, promise = what was accepted when the waiting call began, open =
the worker is not dead.

**HTTPExporter** is one call of `export_batch` on one or several `HTTPExporter`s, the
latter under a `CompositeExporter`. The batch is 1..BatchLen, the groups follow from the
credentials each trace carries and the destination's own: what is left to send is a set
of traces (`todo`), and the group whose turn it is has the credentials of its first
(`First`, `Group`), since the dict that groups them keeps the order in which they were
met. An attempt ends in one of five ways: accepted; taken in but unheard; refused (4xx,
which `urlopen` raises as `HTTPError`, and which the loop retries like any other
failure; `refused` counts these answers for each trace); unavailable (connection, 5xx,
429); or disconnected while the answer is read, an `OSError` the `except` clause does
not catch. A workspace may be deleted in the middle (`KeyDeleted`). Statuses of 2xx
other than 200, 201 and 202 are not modelled: the ingestion endpoint answers none of
them.

**BatchDelivery** is what the server promises the clients whose batches it accepted,
with no queue, worker, process or lookup in sight: a batch is under way in one copy, or
in two when Redis stored it without saying so; each copy comes to one end, written whole
in one step, refused or lost; no copy is made later. What has none is settled for good.

**IngestPipeline** is the server from the accepted request to the row: `Ingest` (cache
and enqueue, with the fallback), the worker's loop (`Loop`, `Pop`, `PopFails`, `MemGet`,
one `ReadTrace` for each trace, then `Commit` or `RollBack`), `Stop`, `StartAgain`,
`Crash`, `Redeploy`, Redis going away and coming back, and the admin deletions. A
snapshot of a trace is a version number and whether the trace is over in it.
`process_batch` merges it into the row, column by column, so the row's versions are kept
for three groups of columns: `rows` for what every snapshot replaces (`status`,
`worker.py:91`), `ends` for what only a snapshot with an end replaces (end time,
duration and metadata, `worker.py:92-95`, each `or` what is there), `firsts` for what
stays as it was inserted (the trace's name and start; duration, metrics, attributes and
input of a span, which `worker.py:124-128` leaves alone). Spans and events are written
in the same transaction and meet the fate of their trace. `Conflict` is what
SQLAlchemy's flush raises at the commit: a primary key that is already there, or added
twice in one session, which happens because the session has `autoflush=False`
(`db.py:39`); or an UPDATE that matches no row. `StartAgain` is possible while the old
worker thread is still at work: `stop` waits for it for five seconds only, and as
nothing clears `_shutdown`, the new thread ends at once. Redis going away is an outage
that leaves its list as it is (`docker-compose.prod.yml` gives it a volume). `fates`
remembers what became of each delivery of a batch. The code keeps no copy of a batch
that it has taken: `NothingLostUnprovoked` says that without a fault a batch is lost for
one of four named reasons only (the memory queue was full while Redis was away from the
start; the batch names a trace twice; a trace of it was deleted meanwhile; another
process wrote one first). With a fault, what is lost is tolerated as known defects: a
crash after `BLPOP`, or a late answer of it, a full memory queue, and a batch that was
rolled back, which the `except` clause of `_run` forgets although `worker.py:22-24`
speaks of isolation and retries and `docs/architecture.md:34` of retries. `DeliverySpec`
is BatchDelivery under the mapping copies of a batch = one if it is on the Redis list,
one if it is in the memory queue of a process, and one for each worker that has it in
hand. `clear_all_traces` is two steps, the lookup and the deletion; it is a coroutine
that does not await in between, so the worker can come between them and no other request
of the same process can.

**Workspaces** has the same worker seen from the other side, with the request handlers
that FastAPI runs in a thread pool. A step is one transaction; the lookup before it is
an earlier step, so it may be stale. Workspaces get fresh numbers as ids. A ghost is a
workspace whose name is the id of another: the header and the worker both make one up
when an id is not found. `Fold` gives names that ILIKE does not tell apart.
`ForeignKeys` says whether the database enforces them (PostgreSQL does; SQLite does not
without a pragma, which `db.py:27-37` does not set). The key of a new workspace is a
commit of its own (`query.py:98` and 100, `auth.py:73` and 75); it may fail or be cut
off by a crash, which leaves a workspace without one: its id is then in `cut`. The run
is the one with `ForeignKeys`, the theorems are for both. Deleting a workspace also pops
its traces from `main.trace_store`, which has no counterpart in this module.

**Tracer** has the context managers, the decorator and the LangChain handler.
An operation is one step, which is exact for tasks of one event loop (they give
way only at an `await`) and for threads started with an empty context. A thread
that copies a context (`asyncio.to_thread`) could also come between the
hand-over and the removal from the registry inside `__exit__`; that
interleaving is not modelled (see hazards). A root run of LangChain may start
where an application trace is in context; it then ends and hands over that
trace (`CutShort`), which the properties name as the one reason for a trace to
be exported twice or before its spans have ended.

**Dashboard** is the shell: `App.tsx`, `api/client.ts`, `TopBar.tsx` and `ws.py`. A
render and the effects it causes are one step with the event that caused them (the
double effects of React's strict mode exist only in development builds). A closure of
`fetchData` is the workspace and filters of the render that made it; the effects use the
newest, but three handlers keep an older one: the timer of a closed socket, the key P,
and the timer after `handlePurge` of the settings page (`SettingsPage.tsx:210-215`),
which calls the `onRefreshData` of the render in which it was clicked. A fetch remembers
which kind of closure made it (`Callers`) as long as it is the last (`Overtaken`). A
purge is `Purge` at the server, then `Purged` or `PurgeFails`; one at a time is
modelled. `onclose` and its four-second timer are one pending item, served in any order;
a message that comes after `ws.close()` is not delivered; `wsConnected` is rendered
nowhere and left out. Two fetches that are alike are one: the set `fetches` merges older
identical ones, and requests of a page that is left are dropped. The server makes a
workspace for a name it does not know (`auth.py:64`), so a request that still names a
deleted workspace brings a ghost to life; deleting ghosts is left out, which is a bound.
`Find` and `Without` are the `find` and `filter` on the list. `chosen` remembers what
the user picked in this tab; a reload keeps it only if the tab still shows it and wrote
the stored id itself. The proof of `ChoiceKept` showed that without this condition the
property fails for behaviours longer than the run's bound: a tab that had already fallen
back to another workspace would be held to the old choice.

**TracesExplorer** is what lies inside the shell: which page and overlays are open, the
rows ticked in `TracesPage`, deletions under way, the detail page, `ErrorsPage` and the
comparison modal. A fetch of the lists is asked for (`FetchData`, and the `Reconnect` of
a filter or a pause), is read by the server (`FetchReads`), and answers or fails
(`FetchAnswered`, `FetchFails`); any number may be under way, none is cancelled, and
their answers may cross (`App.tsx:208-233`). Fetches are numbered in the order of
asking, which tells whether the list on the screen answers the last (`from`). A socket
is open, opening or closed; what was sent to a closed one is lost, each one that closes
sets a timer that fetches, and only a change of filters or pause opens another
(`App.tsx:245-274`). `net.silent` is what was removed while no socket and no timer could
tell. `Filtered` is `Array.filter`, defined by positions so that it can be reasoned
about; `Candidate` is the search for the trace to compare with. A click reaches only the
topmost of the overlays, which cover the window; but no overlay keeps the keys to
itself, so whatever is a button, a box or a field works behind it as well: only rows and
error groups, which are neither, need the page on top. A list has `Limit` traces at
most: the comparison asks for the newest 100 (`TraceComparisonModal.tsx:134`), and
`Named` is what its select shows, the first option if the target is none of them.
Another workspace remounts every page and is not modelled here. A behaviour starts with
the lists there and a trace open, or on the list with nothing ticked, a row ticked, or
the words to delete it typed, which users reach by other events. Known defects,
tolerated by name in the properties: ticks changed behind the modal after the words were
typed (`TracesPage.tsx:271`), lists of a fetch that was overtaken or older than one that
failed (`App.tsx:230`), and a select that names another trace than the one compared.
Filters and orders are abstracted to `Views`. A deleted trace may still be answered from
the server's memory (`query.py:473`). `Expires` is `purge_expired_traces`, which nothing
in the repository starts: an operator may, and no broadcast follows it.

**TraceViewer** is what is computed from one trace: the rows of timeline, tree
and mind map, bars and critical path, and the four ways tokens and costs are summed
up. A span is its place in the list; a parent of 0 is none, or one outside the
trace. Cycles are among the inputs since ingestion checks nothing about parents.
`||` and `??` are `Or` and `Else`, which differ on 0. Times are in half
milliseconds, zoom in quarters, the smallest width of a bar (layout) is left out, and
"failed" is a status of error together with its error object. `IsTrace` says what
a loaded trace is: amounts are numbers or missing, parents are in the list or 0, and
nothing more. `Arranged` stands for every sorting and filtering of the code: the
elements of a set in an order, by the number of those before each, so that a sequence
is defined without recursion; the recursive walks are functions of the levels left.

**Settings** is `SettingsPage.tsx` with `formatters.ts` and `pricing.ts`. A request and
its answer are two steps, between which the page may be left and opened again. An answer
for a page that was left may still be written to the cache or be dropped, as React
decides. `SUPPORTED_CURRENCIES` is a mutable table that lives as long as the loaded
page. Every reveal makes a new key on the server. `app` is what the page has of the
shell: the workspace that is selected, the one in the client's headers, the one that is
kept, and those that older renders fetch for (`OlderFetch`; the timer of a purge fetches
for its own). A deletion names its workspace; a purge goes to the one in the headers
(`client.ts:183-186`), which may be another than the modal names when the list of
workspaces arrived late and selected another, and an older `fetchData` puts the one
before back: a known defect, tolerated by name in
`WordsTyped`, which says that nothing else sets the two apart. `sim` is the model of the
calculator and `lost` that its row was removed: the select then shows the first row, the
price is found by a part of the name (`PriceOf`, `pricing.ts:62`), also a known defect,
tolerated by name in `CatalogExplained`. Other tabs write the currency, the catalog, the
keys and the workspace that are kept (`Other...`), of which this tab hears nothing;
`apart`, `foreign` and `overwritten` remember it. A behaviour starts with the list of
workspaces there or still awaited. `getCustomPricing` takes an empty catalog for none,
so one value stands for both; `Without` is the filter by which a model is removed or
replaced, written with the rank of a row so that it can be proved about.

**MCWebPages** checks TraceViewer and Settings in one run: `App.tsx:376-493`
shows one page at a time and the two share no state, so a behaviour is one of
either. It extends Settings, whose properties the run checks as they are defined
there, and `PagesTyped` joins the two type invariants. `LoadsAssumption` says that what
is loaded is a trace by `IsTrace`; TLC evaluates it on `MCLoads`.

Each `MC...` module instantiates its component for TLC. Definitions marked
*Faulty variant* are never used by a specification: put in place of the definition
they name, each makes a property fail, which shows that the property depends on
the code it is about.

How they fit: Tracer hands traces to AsyncExporter (`Exports` is the call of `export`),
AsyncExporter's inner call is HTTPExporter's `export_batch` (`ExportReturns` and
`ExportRaises` are its two results, `DeliveryExplained` says what each has delivered and
`CallEnds` that it ends), an accepted attempt of HTTPExporter is an `Ingest` of
IngestPipeline after one of the `Auth...` actions of Workspaces, and Workspaces'
`Take`/`Write` and IngestPipeline's `ReadTrace`/`Commit` are two views of
`process_batch`. On the other side, an `Ingest` is a `Broadcast("ingested")` of
Dashboard, `PurgeDelete` and `DeleteTraces` are `Broadcast("deleted")` and the `Removed`
of TracesExplorer, `Resolved` of Dashboard is `AuthByName` with `Provision` of
Workspaces, a fetch of Dashboard is `FetchData`, `FetchReads` and `FetchAnswered` of
TracesExplorer, whose `DetailLoads` is the `Init` of TraceViewer, and `Create`,
`DeleteAnswers`, `PurgeAnswers` and `LoadsAnew` of Settings are `CreateProject`,
`DeleteProject`, `Purge` with `Purged` and `Reload` of Dashboard.

## The runs

| Run | Instance | Shows |
|---|---|---|
| exporter | 1 exporting thread, 2 callers with a call each, queue of 1, batches of 2, 2 traces | `UnfinishedExact`, `InOrderExactlyOnce`, `FlushWaits`, `ExitDrains`, `CountersNeverOverstate`, refinement of TraceChannel; `AcceptedIsHanded`; `ThreadsEnd`: once exporting stops, calls made before the shutdown return and the worker ends |
| exporter_hang | 1 thread, 1 caller with 3 calls, queue of 2, 1 trace | violates `EveryCallReturns` |
| http_composite | 2 destinations, 3 traces, 2 credentials, 1 retry | `DeliveryExplained`: what a call has delivered, in which order, to which child; `RepeatsExplained`: what is taken in twice, and how many requests are sent; `CallEnds` |
| http_client_error | 1 destination, 1 trace, 1 retry | violates `ClientErrorsFinal` |
| pipeline_safety | an API process and a worker process, 2 batches of 3 kinds over 2 traces, memory queue of 1, 1 fault | `NothingLostUnprovoked`, `AllOrNothing`, refinement of BatchDelivery |
| pipeline_alone | the API process alone, 2 batches of 4 kinds, 1 fault | `CommitsExplained`: a row has the newest status, the newest end and the oldest name, and rollbacks have a reason; `AcceptedSettles` |
| pipeline_purge | the API process alone, no fault | violates `PurgeClearsMemory` |
| workspaces_safety | 2 request threads, 4 requests, 3 names of which 2 differ in case, up to 2 workspaces at the start, foreign keys | `NothingMisplaced`: keys and rows stay in their workspace and go with it; `WorkspacesExplained`: ghosts, and workspaces without a key, have a reason, failed key commits among them |
| tracer_safety | 2 tasks, 2 runs, 3 traces, 4 spans | `ContextFollowsStack`; `HandOverExplained`: once, together with leaving the registry, complete; `ParentsExplained`: which trace a span is in, when its parent is in another |
| dashboard | 3 workspaces, 2 of them at the start, 2 settings of the filters, 3 events, purges among them | `ScreenExplained`, `ChoiceKept`, `CaughtUp` |
| explorer | 3 traces, 2 of them stored at first, lists of 2, 1 group of errors, 3 views, 4 pages to start from, 3 events | `DeletionsExplained`, `PanelsExplained`, `ClosesExplained` (an action property) |
| web_pages | hierarchies of 4 spans (forests, chains, cycles, a span that is its own parent) in 4 loads, 2 clicks; 2 currencies, 2 default models and a third, 3 workspaces, 2 of them at the start, 2 sources of rates, the list of workspaces there or awaited, 4 events, other tabs among them | `RowsComplete`, `TotalsBounded`; `MoneyExplained`, `CatalogExplained`, `KeysKept` |

Every passing run but pipeline_alone, whose module's type invariant is checked by
pipeline_safety, also checks the type invariant of its module. A property
with *Explained* in its name is a conjunction of named parts, or says that the
only departures from the ideal are the ones it names.

Bounds. A queue of one already makes the exporter refuse a trace and a pill; with
batches of two, one trace is in the worker's hands while another waits, and a pill falls
into the middle of a batch. The second caller shuts down while the first waits, or both
do. A pill left behind is met by the second or third call of one caller, in exporter_hang,
whose queue of two holds two pills. Three traces and two credentials give two groups of unequal size in every
order, two destinations a child before and after a failing one. Two batches are enough
for a reordering, for two workers over one trace, and for a full memory queue of one.
The kinds of batch are: a trace that is over; a later snapshot of it that is not, with
another trace; an older one of both, in the other order; and, in pipeline_alone, one
that has a trace twice. Between them a later snapshot has an end or lacks one, so every
column group is both replaced and left alone. Four requests are the shortest way to
delete a workspace, have the worker or the header make a ghost of it, and delete that.
Four spans in three traces give a task that outlives its parent's trace and goes on
inside its own, and a chain inside an application trace. Three events of the dashboard
are a pause, a change of filter while it is paused, and a broadcast or a lost socket
after that; what answers, timers and messages do is not counted as an event, so three
events reach long behaviours: a purge, a change of filter before its timer fires, and an
answer that is lost, for one. Only one of the three requests of a fetch is modelled in
that run (`Parts`), the first; with more, the fetch waits for all of them before
anything is shown. Three events of the explorer, from a page where a row is ticked or
the words are typed, are a tick behind the modal, the confirmation and a fetch, or two
fetches that cross and a deletion elsewhere; lists of two, of three traces, leave out
one that is ticked or compared. Four spans are a cycle of two beside an orphan with a
child, or a chain of four; the loads give them zero and missing durations, tokens and
costs, and all kinds. Four events of the settings page reveal two keys, leave and come
back, or save a rate, start a sync and lose its first source; with the list of
workspaces awaited at first, they open the purge, type and confirm after an older fetch;
or they remove the calculator's model and choose another. All runs set `CHECK_DEADLOCK
FALSE`: with the bounds used up, nobody has to do anything more.

Symmetry is used in four runs (request threads; tasks and runs; filters; the workspaces
of the settings page that exist at first), none of which has a liveness property.

Fairness. AsyncExporter: weak fairness of the worker, of an exporting thread in the
middle of its `+=`, and of each caller in the middle of a call: the operating system
schedules threads, and the inner exporter's calls end (`CallEnds`). Nobody is forced to
export, flush or shut down, nor to stop exporting: `queue.join()` waits for what is put
meanwhile too, and the worker ends only on an empty queue, so an application that
exports without end can keep both from ending. That exporting stops is therefore a
premise of `ThreadsEnd` (`ExportingStops`), not something the code sees to; the bound on
exports makes every behaviour of the run meet it. HTTPExporter: weak fairness of
attempts, since `urlopen` has a timeout and `time.sleep` ends. IngestPipeline: weak
fairness of each worker thread, whose calls to Redis and the database return or raise;
`AcceptedSettles` is checked for one process, so what other processes leave on Redis
when they fall back is not in that run. No fairness is assumed for crashes, Redis or
clients, nor in the modules of the dashboard, which have safety properties only: a
request of a browser need not be answered.

### Findings

1. **exporter_hang**: `shutdown()` sets the event and then puts the pill; the
   worker can end in between, so the pill is never taken and any later
   `flush()` or `shutdown()` (`atexit` calls one) waits in `queue.join()` for ever.
2. **http_client_error**: a group that was refused with a 4xx is sent again, as often as
   one that failed for the moment, though `http.py:80` calls it "Non-retryable" and
   `docs/configuration.md:30` speaks of "transient server errors": `HTTPError` and the
   `RuntimeError` of line 81 are both caught at `http.py:82`.
3. **pipeline_purge**: `admin.py` purges a `TraceStore` of its own; the cache the
   query API falls back to keeps, and serves, what was purged.

What holds only in part is written into the properties: a batch can be lost for four
reasons without a fault, and in more ways with one (`NothingLostUnprovoked` names the
former, `fates` tells the latter), the drop counter can lag behind
(`CountersNeverOverstate` bounds it from one side only), a parent can lie in another
trace (`ParentsExplained` says when), the screen can show another workspace when an
answer was overtaken or an old closure fetched (`ScreenExplained`), and so on for what
the comments of the properties call known defects.

Other disagreements between the code and its documents, met while modelling.
The models contain the behaviour; no run repeats it as a violation:

- A batch whose transaction fails is rolled back and forgotten, with a line in the log,
  while `worker.py:22-24` promises retries and `docs/architecture.md:34` also dead-letter
  fallbacks (`RollBack`).
- `docs/api.md:135` says the only remaining workspace cannot be deleted; two
  concurrent deletions (`query.py:129`) remove the last two.
- `langchain.py:108` says a root chain exports its trace "if standalone"; it does so
  too for the trace of an application it runs in (`CutShort`).
- `FEENION_RETENTION_DAYS` is documented (`docs/configuration.md:18`), but nothing
  starts `RetentionWorker`.
- A paused feed is still refreshed: by a deletion, and by the timer of the
  socket that pausing closes (`App.tsx:254`, `App.tsx:270`).
- The "cached live" branch of `getActiveCurrency` (`formatters.ts:50`) is never
  reached: picking a currency always stores a rate of its own for it
  (`MoneyExplained`). A sync of live rates that fails in all sources shows
  "Saved!" all the same.
- `SpanTree.tsx:31` and `SpanInspector.tsx:53` sum a subtree differently: the tree
  adds all children of an agent or a chain to its own amount and, to any other
  span without one, the children up to the first that has one; the inspector
  shows a span's own amount if it has one and all descendants otherwise.
  `TotalsBounded` says what both keep to.
- `d3.hierarchy` does not end on a cycle of parents, which `TraceTimeline.tsx:79`
  provides for: a trace in which no span is a root and the first span is its own
  ancestor hangs the mind map (`MindMapHangs`).
- A result of the command palette selects a trace and then navigates
  (`CommandPalette.tsx:134-136`), which clears the selection: the list opens instead.
- `handleDeleteProject` of `App.tsx:188` swallows a failure, so the settings page
  says "Workspace deleted." after one. The key of a workspace just created is
  stored after a reload was asked for (`App.tsx:179`, `SettingsPage.tsx:168`) and may be lost.
- The purge goes to the workspace of the client's headers, its modal names the one selected
  (`SettingsPage.tsx:205`, `client.ts:183`); `WordsTyped` says when they differ.

## The proofs

Eight modules hold proofs, each about the module of the same name, but for
WebPagesProofs, which is about Settings, TraceViewer and the two in MCWebPages. Their
theorems are about every value of the constants that the module's assumption
allows, the bounds of the runs (`Max...`) included; nothing else is assumed.
Each states its `IndInv` (or several, of which each rests on those before), shows that it holds at first and is preserved by every
step (`Invariance`), and draws the properties from it.
Where steps have much in common a lemma first says what any step of
a kind does to the state (`BeginFacts`, `Opened`, `Closed`, `IssueFacts`, ...),
so that the lemma for a conjunct has a case for each kind and not for each action.

| Module | From | Theorems |
|---|---|---|
| AsyncExporterProofs | `ConstantsAssumption`: sizes and bounds are numbers; a queue size of 0 is unbounded, the threads are any set | `TypeCorrect`, `UnfinishedIsExact`, `HandOverInOrder`, `FlushIsComplete`, `ExitIsDrained`, `MemoryIsBounded`, `CountersAreHonest`, `ImplementsChannel` |
| IngestPipelineProofs | `PipelineAssumption`: finitely many processes, batches that are not empty, a queue size above 0 | `TypeCorrect`, `NothingLost`, `WholeBatches`, `CommitsAreExplained`, `ImplementsDelivery`, `TwoCopiesAtMost`, `SettledForGood` |
| WorkspacesProofs | `WorkspaceAssumption`; `NamesAssumption`: the name of a ghost, a 32-digit id, is not a name people use | `TypeCorrect`, `KeysAndTracesStay`, `OriginsExplained` |
| TracerProofs | `TracerAssumption`: tasks and runs are different things | `TypeCorrect`, `ContextRestored`, `HandOversExplained`, `ParentsAreExplained` |
| HTTPExporterProofs | `ExporterAssumption`: a batch that is not empty, one destination at least, and only one without a composite | `TypeCorrect`, `DeliveriesExplained`, `RepeatsAreExplained` |
| DashboardProofs | `DashboardAssumption`: the list at the start is not empty and names each workspace once; ghosts are not workspaces people made | `TypeCorrect`, `ScreenIsExplained`, `PicksKept`, `NothingForgotten` |
| TracesExplorerProofs | `ExplorerAssumption`: a view is a sequence of traces without repetition, the newest first is one; `None` is nothing else | `TypeCorrect`, `DeletionsAreExplained`, `PanelsAreExplained`, `ClosesAreExplained` |
| WebPagesProofs | `SettingsAssumption`: USD is a currency, live rates are above 0, there is a source, the default catalog lists a model once, the calculator starts with a known model; `LoadsAssumption`: what is loaded is a trace | `TypeCorrect`, `MoneyIsExplained`, `CatalogIsExplained`, `KeysAreKept`, `PagesAreTyped`, `RowsAreComplete`, `TotalsAreBounded`, `ViewsStayCorrect`, `SettingsStayCorrect` |

**AsyncExporter.** `IndInv` adds to the properties `BatchShape` (at which
control points the worker holds traces, and how many), `BatchOrder` (while it
gathers, its batch continues what was handed over), `QueueOrder` (the queue
holds exactly the traces accepted and not taken, in order, whatever pills are
between them), `PillOrder` (a trace behind a pill was accepted after the event
was set, and so was any left when the worker is about to end on a pill, which
makes `ExitDrains` hold for a worker that ends with traces still queued),
`QueueBound` and `Marks`. `FlushWaits` then follows at the step `Join`:
`unfinished = 0` and `UnfinishedExact` make queue and batch empty, and
`QueueOrder` says that everything accepted has been handed over.
`CountersNeverOverstate` needs an invariant of its own on top, `Counters`: what is
about to be added to `exportedCount` has returned and is not in it yet, and a
value that a thread has loaded and will store is held to what may be said
(`Settled`) as the counter is, because what others do in between only raises that;
the argument counts traces handed over and refused that no counter speaks of yet.
`MemoryIsBounded` (what was accepted and not handed over fits in queue and batch)
is the one invariant without a run of its own: `ChannelSpec` checks that bound when
it accepts.
The refinement maps `Export...` to `Accept` or a stutter, the inner call to
`HandOver`, `Call` and `Join` to `BeginWait` and `EndWait`, the first
`SetShutdown` to `Seal`, and the two ways the worker ends to `Close`.

**IngestPipeline.** `AllOrNothing` is inductive with `NotForgotten` (an accepted batch
is in the system or has met a fate), `Shape`, `FatesAwait` (what was not accepted has
met no fate), `Reads` (how far a worker has read its batch, by its program counter) and
`SeenStays` (a row that a worker loaded is there unless its trace was deleted): the
commit of a batch is refused or complete because every trace of it was looked up before.
`NothingLostUnprovoked` says more of the time before the first fault: `QuietFates` are
the ends a batch can come to then, and `ConflictsGrounded` that a rollback has one of
the reasons named, which stays one (`GroundsStay`); the step that needs an argument is
the commit that finds a conflict (`ConflictGrounded`), where `SeenCurrent` leaves a lone
worker no reason but a repetition or a deletion, and `OneCopy` and `Apart` make any
other writer the worker of another batch. For `CommitsExplained`, about one process,
`AloneInv` adds `SeenCurrent` and `EndsCurrent` (what a lone worker loaded of a row, and
of its end, is what is there unless the trace was deleted), `OneQueue` (before the first
fault it uses Redis or its memory, never both) and `InOrder` (the queues rise, and what
is committed comes before what waits): this is why the newest status wins, the newest
end stays though later snapshots have none, and the oldest name is kept; two processes
or one fallback are enough to lose it. The refinement rests on `DeliveryInv`. `Apart`
says that a queue holds a batch once and that one memory queue at most holds it, so that
the mapping counts copies and does not merely estimate them. `SeenWritten` says that the
version a worker loaded was committed before, so what the worker leaves alone was
written in that version. `Ingest` maps to `Accept`, `Commit` to `Deliver`, `RollBack`
and a pop that loses its answer to `Refuse`, the end of a process to `Lose`, the admin
deletions to `Delete`; a batch that changes hands is a stutter. Two consequences are
stated on their own: a batch has two copies at most (`TwoCopiesAtMost`), and one that
has left the system never comes back nor meets another fate (`SettledForGood`, an action
property).

**Workspaces.** `NothingMisplaced` and `WorkspacesExplained` need to know of every id in
a table, a queue, a cache or a thread's hands that it was given to a workspace, and of
every missing one that it was deleted (`IdsUsed`, `WaitingWasSent`, `TargetExplained`,
`GhostsToBeExplained`). A workspace without a key is one whose request is between its
commits or in `cut`. `EnoughIds` counts: the ids left suffice for all requests that may
still give one out, two for some, and for a ghost for each batch. So `MaxId` is a bound
that no behaviour reaches, not one that hides some.

**Tracer.** `ContextFollowsStack` rests on `SavedBelow` (a manager puts back what
the one around it set) and `ContextsConsistent`. `HandOverExplained` needs to
know who may hand a trace over: `Rooted`, `StackOpened`, `OwnsRoot`, `RunsOpenOne`,
`HandOvers` (a task once, when it leaves the manager that owns the trace; a run
while the handler keeps it). That a trace is complete when it goes comes from
`RunningHeld` (a running span of a task is one of its managers'), and
`ParentsExplained` from `FreshIdle`, `BaseForeign` and `OwnerAround`: inside a
trace that a task opened itself, it is inside the manager that owns it.

**HTTPExporter.** `Progress` (children before the one at work have ended, those behind
it have sent nothing), `WholeGroupsLeft` and `TablesFollow` describe the call in the
middle; `RequestsCounted` bounds the requests by the groups answered and the attempts at
the next, from which `RequestsBounded` follows as groups are no more than traces.

**Dashboard.** `Shape` and `Calm` (what the tab knows of the list, the feed, the
headers and its fetches) carry `ScreenExplained` and `CaughtUp`: one fetch under way at most
was made last, and when no news can come it has seen all that was heard of.
`GhostsBehind` says that a ghost never comes before its workspace in a list, so
that `find` finds what was picked; `Held` says that while a tab is on its choice, every
old closure is too, that of a purge included. Both are needed for `ChoiceKept`.

**TracesExplorer.** `IndInv` says what each part may hold. `NetOf` carries
`DeletedGoes`: the fetch that was asked for last, once the server has read for it, and
the list, if it is that fetch's answer, lack nothing of what is gone but what was
removed in silence, unless a notice or a timer is due, which will ask again; a deletion
makes one of these true, and an answer that was overtaken is not the last one's. Then
come which overlays go together (`AppOf`), which rows can be ticked on which page
(`PageOf`), which answers are still awaited (`Requests`) and what is compared (`CmpOf`).
`FilteredFacts` is about `Filtered`: its elements, and that it repeats none.
`ClosesExplained` is an action property and follows for each step from the invariant.

**Settings.** `Inv` is `IndInv` and `HeaderInv`. `IndInv` has a part for each property,
written about a page, a store and a set of calls so that the lemmas can state it of a
page that is mounted (`MountedFacts`), shown anew (`ShowsFacts`) or left alone
(`Undisturbed`). `HeaderInv` is about the workspaces: the headers name one that is or
was selected since the tab was loaded (`Chosen`), every call was made while one of these
was, and the one a purge goes to is that or an older one; nothing but the arrival of the
list adds an older one. `WaitsOf` is the strengthening that the keys and the syncs need:
no call under way answers to a page that was left, and a page has one sync at a time, so
its end may switch the button back. `CatalogExplained` needs that no catalog repeats a
model, on the screen and in the store: `WithoutFacts` and `AddedFacts` say what
filtering and adding make of a catalog, from the fact that ranks number the elements of
a finite set (`Ranks`), and `OwnPrice` that the lookup then finds a model's own row,
that of the calculator as long as its model was not removed.

**TraceViewer.** TLC checks four spans, the theorems are about any trace of
`Loads`. Clicks leave the trace alone, so `RowsHold`, `BarsHold`, `TotalsHold` and
`SpendHolds` are lemmas about a trace, and the invariant only has to say that the
trace on the screen was loaded (`ScreenInv`); that is why `RowsComplete` and
`TotalsBounded` may be checked before the first click and `ViewsStayCorrect` holds
after any. The library's induction theorems cannot be used, so `Numbers` derives
induction from the well-foundedness of `<`, `Iterates` builds what a recursive function is
equal to, and `CollectsExists` the same for folds over finite sets; with them a
lemma per recursive definition says what it satisfies (`UpFacts`, `FlattenFacts`,
`LayoutExists`, `SumOfAdds`, `GatheredFacts`, `SubtreeFacts`). On these rest:

- *Ancestors.* The way up settles after as many steps as there are spans (`UpSettles`: the
  sets grow, and finite sets cannot grow for ever), so ancestors are closed under
  parents and of two ancestors one is above the other (`AncestorsLine`); a span
  on a cycle is an ancestor of all its ancestors (`CyclesClose`). `TreeFacts` and
  `FamilyFacts` say what follows for spans whose ancestors end: the depth is one more
  than that of the parent, and the families of siblings are apart.
- *Rows.* `Walks` is the strengthening: a list of a family without repetition, in
  which only what is below a parent stands between it and its child, siblings in their
  order. `Descent` shows by induction on the levels left that a walk makes such a list
  (`Forest` and `Prepends` join those of the children), for timeline
  and tree alike, and `RowsFacts` that the fallback adds exactly the spans that no root leads to.
- *Sums.* `SumFacts` (sums of sets that are apart add up, in whatever order they are taken) and
  `Fair`, again by induction on the levels left: what is gathered for a span is at
  most what its family used, nothing only if that is nothing, and all of it
  if every parent in the family is an agent or a chain. The loop over the children, which
  stops adding once it has something, keeps that (`FairlyGathered`).

Only model-checked: the liveness properties `AcceptedIsHanded`, `ThreadsEnd`, `CallEnds`
and `AcceptedSettles`, since fairness and ENABLED are beyond the prover. Every
other property of a passing run is stated by a theorem.

## Not modelled

Console and JSONL exporters, provider integrations, pricing, redaction, serialization,
sampling and replay in the SDK, the read and analytics side of the query API,
the analytics pages of the dashboard, and static content; `PROJECT.json`
("components") gives the reason for each. Within the modelled parts: payload contents, gzip
and validation; the length of backoffs; wildcards in the workspace header; the end of
the application's process; text typed into the search and the palette;
export, copy buttons and code snippets; layout and wording; the formatting of
amounts; `localStorage` that is full or forbidden.

## Plan

Done: TraceChannel, AsyncExporter, HTTPExporter, BatchDelivery, IngestPipeline, Workspaces,
Tracer, Dashboard, TracesExplorer, Settings and TraceViewer, all with proofs of their
invariants.

Next, in this order:

1. Split `Tracer`'s `__exit__` for threads that copy a context.
2. SDK end to end: Tracer, AsyncExporter and HTTPExporter composed, with
   `configure()` replacing the exporter, against an abstract "every finished trace
   is delivered, counted or refused".
3. Pure algorithms against reference definitions: `_percentile`, the lookup in
   `get_pricing` and `calc_model_cost`, the depth limit and cycle guard of
   `safe_serialize`; the aggregates of the query API over small tables.
