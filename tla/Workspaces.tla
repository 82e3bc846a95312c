----------------------------- MODULE Workspaces -----------------------------
(***************************************************************************)
(* Workspaces (table projects), their API keys and the traces routed to    *)
(* them. The handlers are synchronous functions that FastAPI runs in a     *)
(* thread pool, so two requests interleave between any two transactions;   *)
(* the ingestion worker interleaves with both.                             *)
(*                                                                         *)
(* A step is one transaction: the reads that come before it read committed *)
(* rows, and what they found is stale once another thread commits.         *)
(***************************************************************************)
EXTENDS Integers, Sequences, FiniteSets

CONSTANTS
    Threads,      \* request threads
    Names,        \* workspace names
    DefaultName,  \* "default"
    Fold,         \* names that ILIKE does not tell apart have the same Fold
    Existing,     \* names of workspaces there may be at the start, in order
    TraceIds,
    ForeignKeys,  \* whether the database enforces them: PostgreSQL, not SQLite
    MaxRequests   \* bound: requests in a behaviour

ASSUME WorkspaceAssumption ==
    /\ DefaultName \in Names /\ DOMAIN Fold = Names
    /\ Existing \in Seq(Names)
    /\ \A i, j \in DOMAIN Existing : Existing[i] = Existing[j] => i = j
    /\ TraceIds # {} /\ ForeignKeys \in BOOLEAN /\ MaxRequests \in Nat

VARIABLES
    projects,   \* the rows of projects: [id, name]
    keys,       \* per project id: its API keys
    rows,       \* per trace: the project its row belongs to, or None
    queue,      \* the ingestion queue: [proj, trace]
    pc, arg, found, trace,   \* per request thread: control and locals
    wpc, batch, target,      \* the ingestion worker: control and locals
    nextId,     \* the next fresh uuid
    \* History:
    requests,   \* requests so far
    sent,       \* [proj, trace] ever queued
    dropped,    \* ids of the projects that were deleted
    cut         \* ids of the projects whose key was never committed

tables == <<projects, keys, rows>>
locals == <<pc, arg, found, trace>>
worker == <<wpc, batch, target>>
vars == <<tables, queue, locals, worker, nextId, requests, sent, dropped, cut>>

None == 0
MaxId == Len(Existing) + 2 * MaxRequests
ProjectIds == 1..MaxId
Exists(id) == \E p \in projects : p.id = id
Called(n) == {p \in projects : p.name = n}
\* The filter `name.ilike(n)`.
Like(n) == {p \in projects : \/ p.name = n
                             \/ {p.name, n} \subseteq Names /\ Fold[p.name] = Fold[n]}
\* A ghost: a workspace whose name is the id of another.
GhostName(id) == <<"uuid", id>>
GhostNames == {GhostName(id) : id \in ProjectIds}
GhostsOf(id) == Called(GhostName(id))

\* Nobody types the uuid of a workspace as the name of a new one.
ASSUME NamesAssumption == Names \cap GhostNames = {}

\* The filter `id == i or name == i`, i a project's id.
Known(id) == {p \in projects : p.id = id} \cup GhostsOf(id)

Init ==
    \E k \in 0..Len(Existing) :
        /\ projects = {[id |-> i, name |-> Existing[i]] : i \in 1..k}
        /\ keys = [id \in ProjectIds |-> IF id <= k THEN 1 ELSE 0]
        /\ rows = [x \in TraceIds |-> None] /\ queue = <<>>
        /\ pc = [t \in Threads |-> "idle"] /\ found = [t \in Threads |-> None]
        /\ arg = [t \in Threads |-> DefaultName]
        /\ trace \in [Threads -> {CHOOSE x \in TraceIds : TRUE}]
        /\ wpc = "idle" /\ batch = [proj |-> None, trace |-> None] /\ target = None
        /\ nextId = k + 1
        /\ requests = 0 /\ sent = {} /\ dropped = {} /\ cut = {}

-----------------------------------------------------------------------------

Goes(t, to) == pc' = [pc EXCEPT ![t] = to]
Finds(t, id) == found' = [found EXCEPT ![t] = id]

Begin(t) ==
    /\ pc[t] = "idle" /\ requests < MaxRequests
    /\ requests' = requests + 1
    /\ UNCHANGED <<tables, queue, worker, nextId, sent, dropped, cut>>

\* INSERT into projects and its commit; the name is UNIQUE, letter by letter.
Insert(t, n, next) ==
    IF Called(n) # {}
      THEN Goes(t, "idle") /\ UNCHANGED <<projects, nextId, found>>
      ELSE /\ projects' = projects \cup {[id |-> nextId, name |-> n]}
           /\ nextId' = nextId + 1
           /\ Finds(t, nextId) /\ Goes(t, next)

\* create_project: the check of the name, the insert, the key.
CreateBegin(t, n) ==
    /\ Begin(t)
    /\ Like(n) = {}
    /\ Goes(t, "create") /\ arg' = [arg EXCEPT ![t] = n]
    /\ UNCHANGED <<found, trace>>

CreateInsert(t) ==
    /\ pc[t] = "create"
    /\ Insert(t, arg[t], "createKey")
    /\ UNCHANGED <<keys, rows, queue, arg, trace, worker, requests, sent, dropped, cut>>

\* create_project_api_key for the project just inserted (createKey,
\* provisionKey) or looked up (newKey): it fails when that is gone and the
\* database or the refresh of the object notices.
KeyInsert(t) ==
    /\ pc[t] \in {"createKey", "newKey", "provisionKey"}
    /\ \/ /\ Exists(found[t]) \/ ~ForeignKeys
          /\ keys' = [keys EXCEPT ![found[t]] = @ + 1]
          /\ Goes(t, IF pc[t] = "provisionKey" THEN "reload" ELSE "idle")
       \/ /\ ~Exists(found[t])
          /\ Goes(t, "idle") /\ UNCHANGED keys
    /\ UNCHANGED <<projects, rows, queue, arg, found, trace, worker, nextId,
                   requests, sent, dropped, cut>>

\* generate_project_api_key.
KeyBegin(t, id) ==
    /\ Begin(t)
    /\ \E p \in Known(id) : Finds(t, p.id)
    /\ Goes(t, "newKey")
    /\ UNCHANGED <<arg, trace>>

\* get_current_project for an ingestion: by key, ...
AuthByKey(t, id, x) ==
    /\ Begin(t)
    /\ keys[id] > 0 /\ Exists(id)
    /\ Goes(t, "enqueue") /\ Finds(t, id) /\ trace' = [trace EXCEPT ![t] = x]
    /\ UNCHANGED arg

\* ... by the workspace header, with the workspace made up when there is none, ...
AuthByName(t, n, x) ==
    /\ Begin(t)
    /\ trace' = [trace EXCEPT ![t] = x] /\ arg' = [arg EXCEPT ![t] = n]
    /\ IF Like(n) = {}
         THEN Goes(t, "provision") /\ UNCHANGED found
         ELSE \E p \in Like(n) : Finds(t, p.id) /\ Goes(t, "enqueue")

\* The header may also hold an id, and then a workspace that was deleted
\* comes back as a ghost.
AuthById(t, id, x) ==
    /\ Begin(t)
    /\ id < nextId
    /\ trace' = [trace EXCEPT ![t] = x] /\ arg' = [arg EXCEPT ![t] = GhostName(id)]
    /\ IF Known(id) = {}
         THEN Goes(t, "provision") /\ UNCHANGED found
         ELSE \E p \in Known(id) : Finds(t, p.id) /\ Goes(t, "enqueue")

Provision(t) ==
    /\ pc[t] = "provision"
    /\ Insert(t, arg[t], "provisionKey")
    /\ UNCHANGED <<keys, rows, queue, arg, trace, worker, requests, sent, dropped, cut>>

\* The commit of the key expired the project object, so reading its id
\* loads the row again, and raises when that is gone.
Reload(t) ==
    /\ pc[t] = "reload"
    /\ Goes(t, IF Exists(found[t]) THEN "enqueue" ELSE "idle")
    /\ UNCHANGED <<tables, queue, arg, found, trace, worker, nextId, requests, sent, dropped, cut>>

\* ... or get_or_create_default_project.
AuthDefault(t, x) ==
    /\ Begin(t)
    /\ trace' = [trace EXCEPT ![t] = x] /\ UNCHANGED arg
    /\ IF Called(DefaultName) = {}
         THEN Goes(t, "default") /\ UNCHANGED found
         ELSE \E p \in Called(DefaultName) : Finds(t, p.id) /\ Goes(t, "enqueue")

MakeDefault(t) ==
    /\ pc[t] = "default"
    /\ Insert(t, DefaultName, "enqueue")
    /\ UNCHANGED <<keys, rows, queue, arg, trace, worker, requests, sent, dropped, cut>>

\* ingest_traces puts the batch on the queue under the project's id, whether
\* or not the project is still there.
Enqueue(t) ==
    /\ pc[t] = "enqueue"
    /\ LET item == [proj |-> found[t], trace |-> trace[t]] IN
         queue' = Append(queue, item) /\ sent' = sent \cup {item}
    /\ Goes(t, "idle")
    /\ UNCHANGED <<tables, arg, found, trace, worker, nextId, requests, dropped, cut>>

-----------------------------------------------------------------------------
(* Faulty variants of steps below.                                         *)

\* DeleteCommit: the traces are left where they are.
DeleteKeepsTraces(t) ==
    /\ pc[t] = "delete"
    /\ keys' = [keys EXCEPT ![found[t]] = 0]
    /\ projects' = {p \in projects : p.id # found[t]}
    /\ dropped' = dropped \cup {found[t]}
    /\ Goes(t, "idle")
    /\ UNCHANGED <<rows, queue, arg, found, trace, worker, nextId, requests, sent, cut>>

\* Take: the project is looked up by name alone.
TakeByName ==
    /\ wpc = "idle" /\ queue # <<>>
    /\ batch' = Head(queue) /\ queue' = Tail(queue)
    /\ LET known == GhostsOf(batch'.proj) IN
         IF known = {} THEN wpc' = "ghost" /\ UNCHANGED target
                       ELSE wpc' = "write" /\ \E p \in known : target' = p.id
    /\ UNCHANGED <<tables, locals, nextId, requests, sent, dropped, cut>>

\* MakeGhost: the worker's own project takes no fresh id.
MakeGhostSameId ==
    /\ wpc = "ghost"
    /\ projects' = projects \cup {[id |-> nextId, name |-> GhostName(batch.proj)]}
    /\ target' = nextId
    /\ wpc' = "write"
    /\ UNCHANGED <<keys, rows, queue, locals, batch, nextId, requests, sent, dropped, cut>>

-----------------------------------------------------------------------------

\* delete_project: 404, and 400 for the only project left.
DeleteBegin(t, id) ==
    /\ Begin(t)
    /\ Exists(id)
    /\ Cardinality(projects) > 1
    /\ Goes(t, "delete") /\ Finds(t, id)
    /\ UNCHANGED <<arg, trace>>

\* The deletes, in one transaction, which is rolled back when a key or trace
\* inserted meanwhile still refers to the project, or SQLite is locked.
DeleteCommit(t) ==
    /\ pc[t] = "delete"
    /\ Goes(t, "idle")
    /\ \/ /\ keys' = [keys EXCEPT ![found[t]] = 0]
          /\ rows' = [x \in TraceIds |-> IF rows[x] = found[t] THEN None ELSE rows[x]]
          /\ projects' = {p \in projects : p.id # found[t]}
          /\ dropped' = dropped \cup {found[t]}
       \/ UNCHANGED <<tables, dropped>>
    /\ UNCHANGED <<queue, arg, found, trace, worker, nextId, requests, sent, cut>>

\* The transaction a request comes to next raises, or its process ends. What
\* was committed stays: of a workspace that a request makes, the row without
\* its key, which is a transaction of its own.
Fails(t) ==
    /\ pc[t] # "idle"
    /\ Goes(t, "idle")
    /\ cut' = IF pc[t] \in {"createKey", "provisionKey"} THEN cut \cup {found[t]} ELSE cut
    /\ UNCHANGED <<tables, queue, arg, found, trace, worker, nextId, requests, sent, dropped>>

ThreadNext(t) ==
    \/ \E n \in Names : CreateBegin(t, n)
    \/ \E id \in ProjectIds : KeyBegin(t, id) \/ DeleteBegin(t, id)
    \/ \E x \in TraceIds :
         \/ \E id \in ProjectIds : AuthByKey(t, id, x) \/ AuthById(t, id, x)
         \/ \E n \in Names : AuthByName(t, n, x)
         \/ AuthDefault(t, x)
    \/ CreateInsert(t) \/ KeyInsert(t) \/ Provision(t) \/ Reload(t) \/ MakeDefault(t)
    \/ Enqueue(t) \/ DeleteCommit(t) \/ Fails(t)

-----------------------------------------------------------------------------
(* The ingestion worker resolves the project again, by id or name.         *)

Take ==
    /\ wpc = "idle" /\ queue # <<>>
    /\ batch' = Head(queue) /\ queue' = Tail(queue)
    /\ IF Known(batch'.proj) = {}
         THEN wpc' = "ghost" /\ UNCHANGED target
         ELSE wpc' = "write" /\ \E p \in Known(batch'.proj) : target' = p.id
    /\ UNCHANGED <<tables, locals, nextId, requests, sent, dropped, cut>>

\* Nothing found: a project whose name is the id, committed on its own. The
\* batch is lost when a request has made that ghost in the meantime.
MakeGhost ==
    /\ wpc = "ghost"
    /\ IF GhostsOf(batch.proj) # {}
         THEN wpc' = "idle" /\ UNCHANGED <<projects, nextId, target>>
         ELSE /\ projects' = projects \cup {[id |-> nextId, name |-> GhostName(batch.proj)]}
              /\ nextId' = nextId + 1 /\ target' = nextId
              /\ wpc' = "write"
    /\ UNCHANGED <<keys, rows, queue, locals, batch, requests, sent, dropped, cut>>

\* The upsert: a known trace stays with its project, a new one goes to the
\* project resolved, and the batch is lost if foreign keys forbid that.
Write ==
    /\ wpc = "write"
    /\ wpc' = "idle"
    /\ rows' = IF rows[batch.trace] # None \/ (ForeignKeys /\ ~Exists(target))
                 THEN rows
                 ELSE [rows EXCEPT ![batch.trace] = target]
    /\ UNCHANGED <<projects, keys, queue, locals, batch, target, nextId,
                   requests, sent, dropped, cut>>

\* The worker's transaction raises, or its process ends: the batch is lost,
\* and a ghost that was committed for it stays.
WorkerFails ==
    /\ wpc # "idle"
    /\ wpc' = "idle"
    /\ UNCHANGED <<tables, queue, locals, batch, target, nextId, requests, sent, dropped, cut>>

Next == (\E t \in Threads : ThreadNext(t)) \/ Take \/ MakeGhost \/ Write \/ WorkerFails

Spec == Init /\ [][Next]_vars

-----------------------------------------------------------------------------
(* Properties.                                                             *)

TypeOK ==
    /\ projects \subseteq [id : 1..(nextId - 1),
                           name : Names \cup GhostNames]
    /\ nextId \in 1..(MaxId + 1)
    /\ keys \in [ProjectIds -> Nat]
    /\ rows \in [TraceIds -> {None} \cup ProjectIds]
    /\ queue \in Seq([proj : ProjectIds, trace : TraceIds])
    /\ pc \in [Threads -> {"idle", "create", "createKey", "newKey", "provision",
                           "provisionKey", "reload", "default", "enqueue", "delete"}]
    /\ arg \in [Threads -> Names \cup GhostNames] /\ trace \in [Threads -> TraceIds]
    /\ found \in [Threads -> {None} \cup ProjectIds]
    /\ wpc \in {"idle", "ghost", "write"}
    /\ wpc # "idle" => batch.proj \in ProjectIds /\ batch.trace \in TraceIds
    /\ target \in {None} \cup ProjectIds
    /\ cut \subseteq ProjectIds

\* With foreign keys no key outlives its workspace, in any order of
\* creations, key requests and deletions: a deleted workspace's key answers
\* 401 from then on.
KeysHaveProject ==
    ForeignKeys => \A id \in ProjectIds : keys[id] > 0 => Exists(id)

\* With foreign keys every trace row belongs to a workspace that exists,
\* though the worker resolves the workspace in one step and writes in another.
RowsHaveProject ==
    ForeignKeys => \A x \in TraceIds : rows[x] # None => Exists(rows[x])

\* The worker and the header make up a workspace named by an id only when
\* the workspace of that id was deleted, so a batch never misses its own.
GhostsExplained ==
    \A p \in projects : p.name \in GhostNames =>
        \E id \in dropped : p.name = GhostName(id)

\* A trace is stored under the workspace it was accepted for, or under the
\* ghost that took that workspace's place, and nowhere else. (Without foreign
\* keys that ghost may have been deleted before the trace was written.)
RowsInTheirWorkspace ==
    \A x \in TraceIds : rows[x] # None =>
        \E s \in sent :
            /\ s.trace = x
            /\ \/ rows[x] = s.proj
               \/ \E p \in GhostsOf(s.proj) : p.id = rows[x]
               \/ ~ForeignKeys /\ rows[x] \in dropped

\* A workspace that create_project or the header made is without a key only
\* while its request is between the two commits, or because that request
\* failed there; then the name is taken and no key was ever shown, until
\* somebody asks for one. (Default and ghosts never get a key on their own.)
WorkspacesHaveKey ==
    \A p \in projects :
        p.name \in Names \ {DefaultName} =>
            \/ keys[p.id] > 0
            \/ p.id \in cut
            \/ \E t \in Threads : found[t] = p.id /\ pc[t] \in {"createKey", "provisionKey"}

\* Keys and traces neither outlive nor change their workspace.  (The foreign
\* keys of db.py, and process_batch, worker.py:58.)
NothingMisplaced == KeysHaveProject /\ RowsHaveProject /\ RowsInTheirWorkspace

\* Where workspaces nobody created come from, and where keys do.  (The
\* ghosts of worker.py:60 and the header of auth.py:66.)
WorkspacesExplained == GhostsExplained /\ WorkspacesHaveKey
=============================================================================
