-------------------------- MODULE WorkspacesProofs --------------------------
(***************************************************************************)
(* Proofs about Workspaces, for any number of request threads, any names   *)
(* and any bound on requests, with foreign keys and without.               *)
(***************************************************************************)
EXTENDS Workspaces, FiniteSetTheorems, TLAPS

-----------------------------------------------------------------------------
(* The inductive invariant.                                                *)

\* The batch in the worker's hands has the shape it had on the queue.
BatchShape ==
    batch \in [proj : {None} \cup ProjectIds, trace : TraceIds \cup {None}]

\* An id that was given out belongs to a project or to one that was deleted,
\* and no id is used, kept or waited for that was not given out.
IdsUsed ==
    /\ \A id \in 1..(nextId - 1) : Exists(id) \/ id \in dropped
    /\ \A id \in dropped : id \in 1..(nextId - 1) /\ ~Exists(id)
    /\ \A t \in Threads : found[t] < nextId
    /\ \A t \in Threads :
          pc[t] \in {"createKey", "newKey", "provisionKey", "reload", "enqueue", "delete"}
              => found[t] # None
    /\ \A s \in sent : s.proj < nextId
    /\ target < nextId
    /\ \A id \in ProjectIds : keys[id] > 0 => id < nextId

\* Threads whose request may still give out an id, and those of them that may
\* give out another through the batch they will put on the queue.
MayMakeOne == {t \in Threads : pc[t] \in {"create", "provision", "provisionKey", "reload",
                                          "default", "enqueue"}}
MayMakeTwo == {t \in Threads : pc[t] \in {"provision", "default"}}

One == Cardinality(MayMakeOne)
Two == Cardinality(MayMakeTwo)
Ghost == IF wpc = "ghost" THEN 1 ELSE 0

\* Two ids for each request are enough: one for the project it makes and one
\* for the ghost the worker makes of its batch.
EnoughIds ==
    /\ IsFiniteSet(MayMakeOne) /\ IsFiniteSet(MayMakeTwo)
    /\ requests \in Nat
    /\ nextId - 1 + One + Two + Len(queue) + Ghost <= Len(Existing) + 2 * requests
    /\ requests <= MaxRequests

\* What waits was sent.
WaitingWasSent ==
    /\ sent \subseteq [proj : ProjectIds, trace : TraceIds]
    /\ \A i \in DOMAIN queue : queue[i] \in sent
    /\ wpc # "idle" => batch \in sent

\* The project the worker is about to write to is the one its batch was sent
\* to, or its ghost, or was deleted meanwhile.
TargetExplained ==
    wpc = "write" =>
        \/ target = batch.proj
        \/ \E p \in GhostsOf(batch.proj) : p.id = target
        \/ target \in dropped

\* A ghost is only ever about to be made of a project that was deleted.
GhostsToBeExplained ==
    /\ wpc = "ghost" => batch.proj \in dropped
    /\ \A t \in Threads : pc[t] = "provision" /\ arg[t] \in GhostNames =>
          \E id \in dropped : arg[t] = GhostName(id)
    /\ \A t \in Threads : pc[t] = "create" => arg[t] \in Names

IndInv ==
    /\ TypeOK /\ BatchShape /\ IdsUsed /\ EnoughIds /\ WaitingWasSent
    /\ TargetExplained /\ GhostsToBeExplained
    /\ KeysHaveProject /\ RowsHaveProject /\ RowsInTheirWorkspace
    /\ GhostsExplained /\ WorkspacesHaveKey

-----------------------------------------------------------------------------
(* What the kinds of steps have in common.                                 *)

\* The first step of a request.
Begins(t) ==
    \/ \E n \in Names : CreateBegin(t, n)
    \/ \E id \in ProjectIds : KeyBegin(t, id) \/ DeleteBegin(t, id)
    \/ \E x \in TraceIds :
         \/ \E id \in ProjectIds : AuthByKey(t, id, x) \/ AuthById(t, id, x)
         \/ \E n \in Names : AuthByName(t, n, x)
         \/ AuthDefault(t, x)

\* A request goes on, or ends, without a word to the tables.
Settles(t) == Reload(t) \/ Fails(t)

\* A request's INSERT into projects.
Inserts(t) == CreateInsert(t) \/ Provision(t) \/ MakeDefault(t)

ThreadPC == {"idle", "create", "createKey", "newKey", "provision", "provisionKey",
             "reload", "default", "enqueue", "delete"}

\* The bounds are numbers.
LEMMA MaxIdType == MaxId \in Nat /\ Len(Existing) \in Nat /\ MaxRequests \in Nat
  BY WorkspaceAssumption DEF MaxId

\* A row of the workspaces' table has an id that was given, and a name of a
\* client or of a ghost.
LEMMA ProjectsExist ==
    ASSUME IndInv, NEW p \in projects
    PROVE  /\ p.id \in ProjectIds /\ p.id < nextId /\ p.id # None
           /\ Exists(p.id)
           /\ p.name \in Names \cup GhostNames
  BY MaxIdType DEF IndInv, TypeOK, ProjectIds, Exists, None

\* A request that begins: its thread was idle; it goes on with a workspace
\* that exists, or will make one of a name, which is an id only if the
\* workspace of that id was deleted.
LEMMA BeginFacts ==
    ASSUME IndInv, NEW t \in Threads, Begins(t)
    PROVE  /\ pc[t] = "idle" /\ requests < MaxRequests /\ requests' = requests + 1
           /\ UNCHANGED <<projects, keys, rows, queue, wpc, batch, target, nextId, sent, dropped, cut>>
           /\ \/ /\ \/ pc' = [pc EXCEPT ![t] = "newKey"]
                    \/ pc' = [pc EXCEPT ![t] = "enqueue"]
                    \/ pc' = [pc EXCEPT ![t] = "delete"]
                 /\ \E id \in ProjectIds : Exists(id) /\ found' = [found EXCEPT ![t] = id]
              \/ /\ \/ pc' = [pc EXCEPT ![t] = "create"]
                    \/ pc' = [pc EXCEPT ![t] = "provision"]
                    \/ pc' = [pc EXCEPT ![t] = "default"]
                 /\ UNCHANGED found
           /\ arg' = arg \/ \E n \in Names \cup GhostNames : arg' = [arg EXCEPT ![t] = n]
           /\ trace' = trace \/ \E x \in TraceIds : trace' = [trace EXCEPT ![t] = x]
           /\ pc'[t] = "create" => arg'[t] \in Names
           /\ pc'[t] = "provision" /\ arg'[t] \in GhostNames =>
                 \E id \in dropped : arg'[t] = GhostName(id)
  <1> USE DEF Begin, Goes, Finds, tables, worker
  <1>1. arg \in [Threads -> Names \cup GhostNames] /\ pc \in [Threads -> ThreadPC]
    BY DEF IndInv, TypeOK, ThreadPC
  <1>2. \A id \in ProjectIds : \A p \in Known(id) : p \in projects
    BY DEF Known, GhostsOf, Called
  <1>3. ASSUME NEW n \in Names, CreateBegin(t, n)
        PROVE  /\ pc' = [pc EXCEPT ![t] = "create"] /\ arg' = [arg EXCEPT ![t] = n]
               /\ UNCHANGED <<found, trace>>
    BY <1>3 DEF CreateBegin
  <1>4. ASSUME NEW id \in ProjectIds, KeyBegin(t, id) \/ DeleteBegin(t, id)
        PROVE  /\ pc' = [pc EXCEPT ![t] = "newKey"] \/ pc' = [pc EXCEPT ![t] = "delete"]
               /\ \E i \in ProjectIds : Exists(i) /\ found' = [found EXCEPT ![t] = i]
               /\ UNCHANGED <<arg, trace>>
    BY <1>2, <1>4, ProjectsExist DEF KeyBegin, DeleteBegin
  <1>5. ASSUME NEW id \in ProjectIds, NEW x \in TraceIds, AuthByKey(t, id, x)
        PROVE  /\ pc' = [pc EXCEPT ![t] = "enqueue"]
               /\ \E i \in ProjectIds : Exists(i) /\ found' = [found EXCEPT ![t] = i]
               /\ UNCHANGED arg /\ trace' = [trace EXCEPT ![t] = x]
    BY <1>5 DEF AuthByKey
  <1>6. ASSUME NEW id \in ProjectIds, NEW x \in TraceIds, AuthById(t, id, x)
        PROVE  /\ trace' = [trace EXCEPT ![t] = x]
               /\ arg' = [arg EXCEPT ![t] = GhostName(id)]
               /\ \/ /\ pc' = [pc EXCEPT ![t] = "enqueue"]
                     /\ \E i \in ProjectIds : Exists(i) /\ found' = [found EXCEPT ![t] = i]
                  \/ pc' = [pc EXCEPT ![t] = "provision"] /\ id \in dropped /\ UNCHANGED found
    <2>1. Known(id) = {} => id \in dropped
      BY <1>6 DEF AuthById, Known, IndInv, IdsUsed, Exists, ProjectIds, TypeOK
    <2> QED
      BY <1>2, <1>6, <2>1, ProjectsExist DEF AuthById
  <1>7. ASSUME NEW n \in Names, NEW x \in TraceIds, AuthByName(t, n, x)
        PROVE  /\ trace' = [trace EXCEPT ![t] = x] /\ arg' = [arg EXCEPT ![t] = n]
               /\ \/ /\ pc' = [pc EXCEPT ![t] = "enqueue"]
                     /\ \E i \in ProjectIds : Exists(i) /\ found' = [found EXCEPT ![t] = i]
                  \/ pc' = [pc EXCEPT ![t] = "provision"] /\ UNCHANGED found
    BY <1>7, ProjectsExist DEF AuthByName, Like
  <1>8. ASSUME NEW x \in TraceIds, AuthDefault(t, x)
        PROVE  /\ trace' = [trace EXCEPT ![t] = x] /\ UNCHANGED arg
               /\ \/ /\ pc' = [pc EXCEPT ![t] = "enqueue"]
                     /\ \E i \in ProjectIds : Exists(i) /\ found' = [found EXCEPT ![t] = i]
                  \/ pc' = [pc EXCEPT ![t] = "default"] /\ UNCHANGED found
    BY <1>8, ProjectsExist DEF AuthDefault, Called
  <1>9. \A id \in ProjectIds : GhostName(id) \in GhostNames
    BY DEF GhostNames
  <1>10. /\ Begin(t)
         /\ \A n \in Names : n \notin GhostNames
    BY NamesAssumption DEF Begins, CreateBegin, KeyBegin, DeleteBegin, AuthByKey, AuthById,
       AuthByName, AuthDefault
  <1>11. /\ pc[t] = "idle" /\ requests < MaxRequests /\ requests' = requests + 1
         /\ UNCHANGED <<projects, keys, rows, queue, wpc, batch, target, nextId, sent, dropped, cut>>
    BY <1>10
  <1> QED
    BY <1>1, <1>3, <1>4, <1>5, <1>6, <1>7, <1>8, <1>9, <1>10, <1>11 DEF Begins

\* There is always an id left for a project that is about to be made.
LEMMA IdLeft ==
    ASSUME IndInv, (\E t \in Threads : t \in MayMakeOne) \/ wpc = "ghost"
    PROVE  nextId \in ProjectIds
  <1>1. /\ One \in Nat /\ Two \in Nat /\ Len(queue) \in Nat
        /\ MayMakeOne # {} => One # 0
    BY FS_CardinalityType, FS_EmptySet DEF IndInv, EnoughIds, TypeOK, One, Two
  <1>2. Ghost \in {0, 1} /\ (One # 0 \/ Ghost = 1)
    BY <1>1 DEF Ghost
  <1>3. nextId <= Len(Existing) + 2 * MaxRequests
    BY <1>1, <1>2, MaxIdType DEF IndInv, EnoughIds, TypeOK
  <1> QED
    BY <1>3, MaxIdType DEF IndInv, TypeOK, ProjectIds, MaxId

\* A request that inserts a project: the name is taken, or the project has
\* the next id and the name the request is about.
LEMMA InsertFacts ==
    ASSUME IndInv, NEW t \in Threads, Inserts(t)
    PROVE  /\ pc[t] \in {"create", "provision", "default"} /\ nextId \in ProjectIds
           /\ UNCHANGED <<keys, rows, queue, arg, trace, wpc, batch, target, requests, sent, dropped, cut>>
           /\ \/ pc' = [pc EXCEPT ![t] = "idle"] /\ UNCHANGED <<projects, nextId, found>>
              \/ /\ \E n \in Names \cup GhostNames :
                       /\ projects' = projects \cup {[id |-> nextId, name |-> n]}
                       /\ n = (IF pc[t] = "default" THEN DefaultName ELSE arg[t])
                 /\ nextId' = nextId + 1
                 /\ found' = [found EXCEPT ![t] = nextId]
                 /\ pc' = [pc EXCEPT ![t] = CASE pc[t] = "create"    -> "createKey"
                                              [] pc[t] = "provision" -> "provisionKey"
                                              [] pc[t] = "default"   -> "enqueue"]
  <1> USE DEF Insert, Goes, Finds, worker
  <1>1. arg \in [Threads -> Names \cup GhostNames] /\ DefaultName \in Names
    BY WorkspaceAssumption DEF IndInv, TypeOK
  <1>2. pc[t] \in {"create", "provision", "default"}
    BY DEF Inserts, CreateInsert, Provision, MakeDefault
  <1>3. nextId \in ProjectIds
    BY <1>2, IdLeft DEF MayMakeOne
  <1>4. CASE CreateInsert(t)
    BY <1>1, <1>3, <1>4 DEF CreateInsert
  <1>5. CASE Provision(t)
    BY <1>1, <1>3, <1>5 DEF Provision
  <1>6. CASE MakeDefault(t)
    BY <1>1, <1>3, <1>6 DEF MakeDefault
  <1> QED
    BY <1>4, <1>5, <1>6 DEF Inserts

-----------------------------------------------------------------------------
(* Every step preserves the parts of the invariant.                        *)

\* The worker takes the first of what is queued.
LEMMA HeadTail ==
    ASSUME NEW S, NEW q \in Seq(S), q # <<>>
    PROVE  /\ Head(q) \in S /\ Tail(q) \in Seq(S)
           /\ Len(q) \in Nat /\ Len(Tail(q)) = Len(q) - 1
           /\ Head(q) \in {q[i] : i \in DOMAIN q}
           /\ \A i \in DOMAIN Tail(q) : Tail(q)[i] \in {q[j] : j \in DOMAIN q}
  OBVIOUS

\* A step, by kind.
LEMMA StepKinds ==
    ASSUME Next
    PROVE  \/ \E t \in Threads : \/ Begins(t) \/ Inserts(t)
                                 \/ KeyInsert(t) \/ Settles(t) \/ Enqueue(t) \/ DeleteCommit(t)
           \/ Take \/ MakeGhost \/ Write \/ WorkerFails
  BY DEF Next, ThreadNext, Begins, Settles, Inserts

\* Every step preserves the types, those of the worker's batch included.
LEMMA TypeStep == IndInv /\ [Next]_vars => TypeOK' /\ BatchShape'
  <1> SUFFICES ASSUME IndInv, [Next]_vars
               PROVE  TypeOK' /\ BatchShape'
    OBVIOUS
  <1>1. TypeOK /\ BatchShape /\ MaxId \in Nat /\ None = 0
    BY MaxIdType DEF IndInv, None
  <1> USE DEF TypeOK, BatchShape
  <1>2. ASSUME NEW t \in Threads, Begins(t)
        PROVE  TypeOK' /\ BatchShape'
    <2>1. found' \in [Threads -> {None} \cup ProjectIds]
      BY <1>1, <1>2, BeginFacts
    <2>2. pc' \in [Threads -> ThreadPC]
      BY <1>1, <1>2, BeginFacts DEF ThreadPC
    <2>3. arg' \in [Threads -> Names \cup GhostNames] /\ trace' \in [Threads -> TraceIds]
      <3>1. arg' = arg \/ \E n \in Names \cup GhostNames : arg' = [arg EXCEPT ![t] = n]
        BY <1>2, BeginFacts
      <3>2. trace' = trace \/ \E x \in TraceIds : trace' = [trace EXCEPT ![t] = x]
        BY <1>2, BeginFacts
      <3>3. arg' \in [Threads -> Names \cup GhostNames]
        BY <1>1, <3>1
      <3>4. trace' \in [Threads -> TraceIds]
        BY <1>1, <3>2
      <3> QED
        BY <3>3, <3>4
    <2> QED
      BY <2>1, <2>2, <2>3, <1>1, <1>2, BeginFacts DEF ThreadPC
  <1>3. ASSUME NEW t \in Threads, Inserts(t)
        PROVE  TypeOK' /\ BatchShape'
    <2>1. found' = found \/ found' = [found EXCEPT ![t] = nextId]
      BY <1>3, InsertFacts
    <2>4. \E q \in ThreadPC : pc' = [pc EXCEPT ![t] = q]
      <3>1. /\ {"idle", "createKey", "provisionKey", "enqueue"} \subseteq ThreadPC
            /\ pc[t] \in {"create", "provision", "default"}
        BY <1>3, InsertFacts DEF ThreadPC
      <3>2. \/ pc' = [pc EXCEPT ![t] = "idle"]
            \/ pc' = [pc EXCEPT ![t] = CASE pc[t] = "create"    -> "createKey"
                                         [] pc[t] = "provision" -> "provisionKey"
                                         [] pc[t] = "default"   -> "enqueue"]
        BY <1>3, InsertFacts
      <3> QED
        BY <3>1, <3>2
    <2>2. nextId' \in 1..(MaxId + 1)
      BY <1>1, <1>3, InsertFacts, SMTT(30) DEF ProjectIds
    <2>3. projects' \subseteq [id : 1..(nextId' - 1), name : Names \cup GhostNames]
      <3>1. CASE projects' = projects /\ nextId' = nextId
        BY <1>1, <3>1
      <3>2. CASE nextId' = nextId + 1 /\ \E n \in Names \cup GhostNames :
                    projects' = projects \cup {[id |-> nextId, name |-> n]}
        <4>1. PICK n \in Names \cup GhostNames :
                 projects' = projects \cup {[id |-> nextId, name |-> n]}
          BY <3>2
        <4>2. [id |-> nextId, name |-> n] \in [id : 1..(nextId' - 1), name : Names \cup GhostNames]
          BY <1>1, <3>2
        <4>3. 1..(nextId - 1) \subseteq 1..(nextId' - 1)
          BY <1>1, <3>2
        <4> QED
          BY <1>1, <4>1, <4>2, <4>3
      <3> QED
        BY <1>3, <3>1, <3>2, InsertFacts
    <2>5. UNCHANGED <<keys, rows, queue, arg, trace, wpc, batch, target, cut>> /\ nextId \in ProjectIds
      BY <1>3, InsertFacts
    <2>6. found' \in [Threads -> {None} \cup ProjectIds] /\ pc' \in [Threads -> ThreadPC]
      BY <1>1, <2>1, <2>4, <2>5 DEF ThreadPC
    <2> QED
      BY <2>2, <2>3, <2>5, <2>6, <1>1 DEF ThreadPC
  <1>4. ASSUME NEW t \in Threads, KeyInsert(t)
        PROVE  TypeOK' /\ BatchShape'
    <2>1. UNCHANGED <<projects, rows, queue, arg, found, trace, wpc, batch, target, nextId, cut>>
      BY <1>4 DEF KeyInsert, worker
    <2>2. pc' \in [Threads -> ThreadPC]
      BY <1>1, <1>4 DEF KeyInsert, Goes, ThreadPC
    <2>3. keys' \in [ProjectIds -> Nat]
      BY <1>1, <1>4 DEF KeyInsert
    <2> QED
      BY <1>1, <2>1, <2>2, <2>3 DEF ThreadPC
  <1>5. ASSUME NEW t \in Threads, Settles(t)
        PROVE  TypeOK' /\ BatchShape'
    <2>1. CASE Reload(t)
      <3>1. UNCHANGED <<projects, keys, rows, queue, arg, found, trace, wpc, batch, target, nextId, cut>>
        BY <2>1 DEF Reload, worker, tables
      <3>2. pc' \in [Threads -> ThreadPC]
        BY <1>1, <2>1 DEF Reload, Goes, ThreadPC
      <3> QED
        BY <1>1, <3>1, <3>2 DEF ThreadPC
    <2>2. CASE Fails(t)
      <3>1. cut' \subseteq ProjectIds
        BY <1>1, <2>2 DEF Fails, IndInv, IdsUsed
      <3>2. UNCHANGED <<projects, keys, rows, queue, arg, found, trace, wpc, batch, target, nextId>>
        BY <2>2 DEF Fails, worker, tables
      <3>3. pc' \in [Threads -> ThreadPC]
        BY <1>1, <2>2 DEF Fails, Goes, ThreadPC
      <3> QED
        BY <1>1, <3>1, <3>2, <3>3 DEF ThreadPC
    <2> QED
      BY <1>5, <2>1, <2>2 DEF Settles
  <1>6. ASSUME NEW t \in Threads, Enqueue(t)
        PROVE  TypeOK' /\ BatchShape'
    <2>1. found[t] \in ProjectIds
      BY <1>1, <1>6 DEF Enqueue, IndInv, IdsUsed
    <2> QED
      BY <1>1, <1>6, <2>1 DEF Enqueue, Goes, worker, tables
  <1>7. ASSUME NEW t \in Threads, DeleteCommit(t)
        PROVE  TypeOK' /\ BatchShape'
    BY <1>1, <1>7 DEF DeleteCommit, Goes, worker, tables
  <1>8. CASE Take
    <2>1. queue # <<>> /\ batch' = Head(queue) /\ queue' = Tail(queue)
      BY <1>8 DEF Take
    <2>2. batch' \in [proj : ProjectIds, trace : TraceIds]
          /\ queue' \in Seq([proj : ProjectIds, trace : TraceIds])
      BY <1>1, <2>1, HeadTail
    <2>4. target' \in {None} \cup ProjectIds /\ wpc' \in {"idle", "ghost", "write"}
      BY <1>1, <1>8, ProjectsExist DEF Take, Known, GhostsOf, Called
    <2> QED
      BY <1>1, <1>8, <2>2, <2>4 DEF Take, locals, tables
  <1>9. CASE MakeGhost
    <2>1. wpc = "ghost" /\ nextId \in ProjectIds /\ batch.proj \in ProjectIds
      BY <1>1, <1>9, IdLeft DEF MakeGhost
    <2>2. GhostName(batch.proj) \in GhostNames
      BY <2>1 DEF GhostNames
    <2>3. nextId' \in 1..(MaxId + 1)
      BY <1>1, <1>9, <2>1 DEF MakeGhost, ProjectIds
    <2>4. projects' \subseteq [id : 1..(nextId' - 1), name : Names \cup GhostNames]
      BY <1>1, <1>9, <2>1, <2>2 DEF MakeGhost, ProjectIds
    <2> QED
      BY <1>1, <1>9, <2>1, <2>3, <2>4 DEF MakeGhost, locals
  <1>10. CASE Write \/ WorkerFails
    BY <1>1, <1>10 DEF Write, WorkerFails, locals, tables
  <1>11. CASE UNCHANGED vars
    BY <1>1, <1>11 DEF vars, tables, locals, worker
  <1> QED
    BY <1>2, <1>3, <1>4, <1>5, <1>6, <1>7, <1>8, <1>9, <1>10, <1>11, StepKinds

\* A step leaves the projects as they are, makes one with the next id, or
\* deletes one.
LEMMA ProjectStep ==
    ASSUME IndInv, [Next]_vars
    PROVE  \/ UNCHANGED <<projects, nextId, dropped>>
           \/ /\ \E n \in Names \cup GhostNames :
                    projects' = projects \cup {[id |-> nextId, name |-> n]}
              /\ nextId' = nextId + 1 /\ dropped' = dropped
           \/ /\ \E id \in 1..(nextId - 1) : /\ projects' = {p \in projects : p.id # id}
                                             /\ dropped' = dropped \cup {id}
              /\ nextId' = nextId
  <1> USE DEF tables, locals, worker
  <1>0. nextId \in Nat
    BY DEF IndInv, TypeOK
  <1>1. ASSUME NEW t \in Threads, DeleteCommit(t)
        PROVE  \/ UNCHANGED <<projects, nextId, dropped>>
               \/ /\ \E id \in 1..(nextId - 1) : /\ projects' = {p \in projects : p.id # id}
                                                 /\ dropped' = dropped \cup {id}
                  /\ nextId' = nextId
    <2>1. found[t] \in ProjectIds /\ found[t] < nextId
      BY <1>1 DEF DeleteCommit, IndInv, IdsUsed, TypeOK
    <2>2. found[t] \in 1..(nextId - 1)
      BY <2>1, <1>0, MaxIdType DEF ProjectIds
    <2> QED
      BY <1>1, <2>2 DEF DeleteCommit
  <1>2. ASSUME NEW t \in Threads, Begins(t) \/ Inserts(t)
        PROVE  \/ UNCHANGED <<projects, nextId, dropped>>
               \/ /\ \E n \in Names \cup GhostNames :
                        projects' = projects \cup {[id |-> nextId, name |-> n]}
                  /\ nextId' = nextId + 1 /\ dropped' = dropped
    BY <1>2, BeginFacts, InsertFacts
  <1>3. ASSUME NEW t \in Threads, KeyInsert(t) \/ Settles(t) \/ Enqueue(t)
        PROVE  UNCHANGED <<projects, nextId, dropped>>
    BY <1>3 DEF KeyInsert, Settles, Reload, Fails, Enqueue
  <1>4. CASE Take \/ Write \/ WorkerFails \/ UNCHANGED vars
    BY <1>4 DEF Take, Write, WorkerFails, vars
  <1>5. CASE MakeGhost
    <2>1. GhostName(batch.proj) \in GhostNames
      BY <1>5 DEF MakeGhost, GhostNames, IndInv, TypeOK
    <2> QED
      BY <1>5, <2>1 DEF MakeGhost
  <1> QED
    BY <1>1, <1>2, <1>3, <1>4, <1>5, StepKinds

\* What that means for the ids: those of projects that exist, and of projects
\* that were deleted, only grow together.
LEMMA IdStep ==
    ASSUME IndInv, [Next]_vars
    PROVE  /\ nextId \in Nat /\ nextId' \in Nat /\ nextId <= nextId'
           /\ dropped \subseteq dropped'
           /\ \A id \in 1..(nextId' - 1) : Exists(id)' \/ id \in dropped'
           /\ \A id \in dropped' : id \in 1..(nextId' - 1) /\ ~Exists(id)'
           /\ \A id : Exists(id) => Exists(id)' \/ id \in dropped'
  <1>1. /\ nextId \in Nat /\ \A p \in projects : p.id \in 1..(nextId - 1)
        /\ \A id \in 1..(nextId - 1) : Exists(id) \/ id \in dropped
        /\ \A id \in dropped : id \in 1..(nextId - 1) /\ ~Exists(id)
    BY DEF IndInv, TypeOK, IdsUsed
  <1>2. CASE UNCHANGED <<projects, nextId, dropped>>
    BY <1>1, <1>2 DEF Exists
  <1>3. CASE /\ \E n \in Names \cup GhostNames :
                   projects' = projects \cup {[id |-> nextId, name |-> n]}
             /\ nextId' = nextId + 1 /\ dropped' = dropped
    <2>1. \A id : Exists(id)' <=> Exists(id) \/ id = nextId
      <3>1. PICK n : projects' = projects \cup {[id |-> nextId, name |-> n]}
        BY <1>3
      <3>2. \A p : p \in projects' <=> p \in projects \/ p = [id |-> nextId, name |-> n]
        BY <3>1
      <3>3. [id |-> nextId, name |-> n].id = nextId
        OBVIOUS
      <3> QED
        BY <3>2, <3>3 DEF Exists
    <2> QED
      BY <1>1, <1>3, <2>1
  <1>4. ASSUME NEW i \in 1..(nextId - 1), projects' = {p \in projects : p.id # i},
               dropped' = dropped \cup {i}, nextId' = nextId
        PROVE  /\ nextId' \in Nat /\ nextId <= nextId'
               /\ dropped \subseteq dropped'
               /\ \A id \in 1..(nextId' - 1) : Exists(id)' \/ id \in dropped'
               /\ \A id \in dropped' : id \in 1..(nextId' - 1) /\ ~Exists(id)'
               /\ \A id : Exists(id) => Exists(id)' \/ id \in dropped'
    <2>1. \A id : Exists(id)' <=> Exists(id) /\ id # i
      BY <1>4 DEF Exists
    <2> QED
      BY <1>1, <1>4, <2>1
  <1> QED
    BY <1>1, <1>2, <1>3, <1>4, ProjectStep

\* Every step preserves what is known of ids: each one in a row, a key, a cache
\* entry or a thread's hands was given to a workspace.
LEMMA IdsStep == IndInv /\ [Next]_vars => IdsUsed'
  <1> SUFFICES ASSUME IndInv, [Next]_vars
               PROVE  IdsUsed'
    OBVIOUS
  <1> USE DEF tables, locals, worker, Goes
  <1>1. /\ TypeOK /\ IdsUsed /\ TypeOK' /\ None = 0
        /\ nextId \in Nat /\ nextId' \in Nat /\ nextId <= nextId'
    BY TypeStep, IdStep DEF IndInv, None
  <1>2. /\ found \in [Threads -> {None} \cup ProjectIds] /\ pc \in [Threads -> ThreadPC]
        /\ keys \in [ProjectIds -> Nat] /\ ProjectIds \subseteq Nat \ {0}
        /\ target \in Nat /\ \A s \in sent : s.proj \in Nat
        /\ \A t \in Threads : found[t] \in Nat
    <2>1. /\ found \in [Threads -> {None} \cup ProjectIds] /\ pc \in [Threads -> ThreadPC]
          /\ keys \in [ProjectIds -> Nat]
      BY <1>1 DEF TypeOK, ThreadPC
    <2>2. ProjectIds \subseteq Nat \ {0}
      BY MaxIdType DEF ProjectIds
    <2>3. target \in {None} \cup ProjectIds
      BY <1>1 DEF TypeOK
    <2>4. sent \subseteq [proj : ProjectIds, trace : TraceIds]
      BY DEF IndInv, WaitingWasSent
    <2>5. {None} \cup ProjectIds \subseteq Nat
      BY <2>2 DEF None
    <2>6. \A t \in Threads : found[t] \in Nat
      BY <2>1, <2>5
    <2>7. target \in Nat
      BY <2>3, <2>5
    <2>8. \A s \in sent : s.proj \in Nat
      BY <2>2, <2>4
    <2> QED
      BY <2>1, <2>2, <2>6, <2>7, <2>8
  <1> DEFINE Past == {"createKey", "newKey", "provisionKey", "reload", "enqueue", "delete"}
             FoundOK == \A t \in Threads : /\ found[t] < nextId
                                           /\ pc[t] \in Past => found[t] # None
             RestOK == /\ \A s \in sent : s.proj < nextId
                       /\ target < nextId
                       /\ \A id \in ProjectIds : keys[id] > 0 => id < nextId
  <1>3. FoundOK /\ RestOK
    BY <1>1 DEF IdsUsed
  <1>4. FoundOK' /\ RestOK' => IdsUsed'
    BY IdStep DEF IdsUsed
  <1>5. \A id : Exists(id) => id \in ProjectIds /\ id < nextId
    BY ProjectsExist DEF Exists
  <1>6. ASSUME NEW t \in Threads, Begins(t)
        PROVE  FoundOK' /\ RestOK'
    <2>1. RestOK'
      BY <1>1, <1>3, <1>6, BeginFacts
    <2>2. CASE \E id \in ProjectIds : Exists(id) /\ found' = [found EXCEPT ![t] = id]
      <3>1. PICK id \in ProjectIds : Exists(id) /\ found' = [found EXCEPT ![t] = id]
        BY <2>2
      <3>2. \A u \in Threads \ {t} : pc'[u] = pc[u] /\ found'[u] = found[u]
        BY <1>2, <1>6, <3>1, BeginFacts
      <3>3. found'[t] = id /\ id < nextId /\ id # None
        BY <1>1, <1>2, <1>5, <3>1
      <3> QED
        BY <1>1, <1>2, <1>3, <1>6, <2>1, <3>2, <3>3, BeginFacts
    <2>3. CASE pc'[t] \in {"create", "provision", "default"} /\ UNCHANGED found
      <3>1. \A u \in Threads \ {t} : pc'[u] = pc[u]
        BY <1>2, <1>6, BeginFacts
      <3> QED
        BY <1>1, <1>3, <1>6, <2>1, <2>3, <3>1, BeginFacts
    <2> QED
      BY <1>2, <1>6, <2>2, <2>3, BeginFacts
  <1>7. ASSUME NEW t \in Threads, Inserts(t)
        PROVE  FoundOK' /\ RestOK'
    <2>1. RestOK'
      <3>1. UNCHANGED <<sent, target, keys>>
        BY <1>7, InsertFacts
      <3> QED
        BY <1>1, <1>2, <1>3, <3>1
    <2>2. \A u \in Threads \ {t} : pc'[u] = pc[u] /\ found'[u] = found[u]
      BY <1>2, <1>7, InsertFacts
    <2>3. found'[t] < nextId' /\ (pc'[t] \in Past => found'[t] # None)
      BY <1>1, <1>2, <1>3, <1>7, InsertFacts
    <2> QED
      BY <1>1, <1>2, <1>3, <2>1, <2>2, <2>3
  <1>8. ASSUME NEW t \in Threads, KeyInsert(t)
        PROVE  FoundOK' /\ RestOK'
    <2>1. pc[t] \in Past /\ found[t] \in ProjectIds /\ found[t] < nextId
      BY <1>2, <1>3, <1>8 DEF KeyInsert
    <2>2. RestOK'
      BY <1>1, <1>2, <1>3, <1>8, <2>1 DEF KeyInsert
    <2>3. FoundOK'
      BY <1>1, <1>2, <1>3, <1>8, <2>1 DEF KeyInsert
    <2> QED
      BY <2>2, <2>3
  <1>9. ASSUME NEW t \in Threads, Settles(t)
        PROVE  FoundOK' /\ RestOK'
    BY <1>1, <1>2, <1>3, <1>9 DEF Settles, Reload, Fails
  <1>10. ASSUME NEW t \in Threads, Enqueue(t)
         PROVE  FoundOK' /\ RestOK'
    BY <1>1, <1>2, <1>3, <1>10 DEF Enqueue
  <1>11. ASSUME NEW t \in Threads, DeleteCommit(t)
         PROVE  FoundOK' /\ RestOK'
    <2>1. \A id \in ProjectIds : keys'[id] > 0 => keys[id] > 0
      BY <1>2, <1>11 DEF DeleteCommit
    <2>3. RestOK'
      BY <1>1, <1>3, <1>11, <2>1 DEF DeleteCommit
    <2>2. FoundOK'
      BY <1>1, <1>2, <1>3, <1>11 DEF DeleteCommit
    <2> QED
      BY <2>2, <2>3
  <1>12. CASE Take
    <2>1. target' = target \/ \E p \in projects : target' = p.id
      BY <1>12 DEF Take, Known, GhostsOf, Called
    <2> QED
      BY <1>1, <1>3, <1>4, <1>12, <2>1, ProjectsExist DEF Take
  <1>13. CASE MakeGhost
    <2>1. FoundOK'
      BY <1>1, <1>2, <1>3, <1>13 DEF MakeGhost
    <2>2. target' < nextId' /\ UNCHANGED <<sent, keys>>
      BY <1>1, <1>2, <1>3, <1>13 DEF MakeGhost
    <2> QED
      BY <1>1, <1>2, <1>3, <1>4, <2>1, <2>2
  <1>14. CASE Write \/ WorkerFails
    BY <1>1, <1>3, <1>4, <1>14 DEF Write, WorkerFails
  <1>15. CASE UNCHANGED vars
    BY <1>1, <1>3, <1>4, <1>15 DEF vars
  <1> QED
    BY <1>4, <1>6, <1>7, <1>8, <1>9, <1>10, <1>11, <1>12, <1>13, <1>14, <1>15, StepKinds

\* The first step of the request of t may bring it among those that may make
\* projects, later steps take it away.
LEMMA CountAdd ==
    ASSUME NEW S, NEW t, IsFiniteSet(S), t \notin S, NEW T, T = S \/ T = S \cup {t}
    PROVE  /\ IsFiniteSet(T) /\ Cardinality(S) \in Nat /\ Cardinality(T) \in Nat
           /\ Cardinality(T) <= Cardinality(S) + 1
  <1>1. IsFiniteSet(S \cup {t}) /\ Cardinality(S \cup {t}) = Cardinality(S) + 1
    BY FS_AddElement
  <1>2. Cardinality(S) \in Nat
    BY FS_CardinalityType
  <1> QED
    BY <1>1, <1>2

\* Taking a member out of a finite set makes it one smaller.
LEMMA CountRemove ==
    ASSUME NEW S, NEW t \in S, IsFiniteSet(S)
    PROVE  /\ IsFiniteSet(S \ {t}) /\ Cardinality(S) \in Nat /\ Cardinality(S \ {t}) \in Nat
           /\ Cardinality(S \ {t}) = Cardinality(S) - 1
  BY FS_RemoveElement, FS_CardinalityType

\* A set that loses a member or nothing does not grow.
LEMMA ShrinkByOne ==
    ASSUME NEW S, IsFiniteSet(S), NEW T, T = S \/ \E t \in S : T = S \ {t}
    PROVE  IsFiniteSet(T) /\ Cardinality(T) \in Nat /\ Cardinality(T) <= Cardinality(S)
  <1>1. Cardinality(S) \in Nat
    BY FS_CardinalityType
  <1>2. CASE T = S
    BY <1>1, <1>2
  <1>3. ASSUME NEW t \in S, T = S \ {t}
        PROVE  IsFiniteSet(T) /\ Cardinality(T) \in Nat /\ Cardinality(T) <= Cardinality(S)
    BY <1>1, <1>3, CountRemove
  <1> QED
    BY <1>2, <1>3

\* What an id costs: of five numbers that together stay within a bound, one
\* may grow when another shrinks, and two may grow when the bound does by two.
LEMMA Trade ==
    ASSUME NEW n \in Int, NEW o \in Int, NEW w \in Int, NEW q \in Int, NEW g \in Int,
           NEW n1 \in Int, NEW o1 \in Int, NEW w1 \in Int, NEW q1 \in Int, NEW g1 \in Int,
           NEW b \in Int, NEW b1 \in Int, n - 1 + o + w + q + g <= b,
           \/ n1 <= n /\ o1 <= o /\ w1 <= w /\ q1 <= q /\ g1 <= g /\ b1 = b
           \/ n1 <= n + 1 /\ o1 <= o - 1 /\ w1 <= w /\ q1 <= q /\ g1 <= g /\ b1 = b
           \/ n1 <= n + 1 /\ o1 <= o /\ w1 <= w - 1 /\ q1 <= q /\ g1 <= g /\ b1 = b
           \/ n1 <= n /\ o1 <= o - 1 /\ w1 <= w /\ q1 <= q + 1 /\ g1 <= g /\ b1 = b
           \/ n1 <= n /\ o1 <= o /\ w1 <= w /\ q1 <= q - 1 /\ g1 <= g + 1 /\ b1 = b
           \/ n1 <= n + 1 /\ o1 <= o /\ w1 <= w /\ q1 <= q /\ g1 <= g - 1 /\ b1 = b
           \/ n1 <= n /\ o1 <= o + 1 /\ w1 <= w + 1 /\ q1 <= q /\ g1 <= g /\ b1 = b + 2
    PROVE  n1 - 1 + o1 + w1 + q1 + g1 <= b1
  OBVIOUS

\* Every step preserves the budget of ids: what threads and the worker may
\* still create fits under the bound.
LEMMA EnoughStep == IndInv /\ [Next]_vars => EnoughIds'
  <1> SUFFICES ASSUME IndInv, [Next]_vars
               PROVE  EnoughIds'
    OBVIOUS
  <1> USE DEF tables, locals, worker, Goes
  <1>0. /\ Ghost \in Nat /\ Ghost' \in Nat /\ Ghost <= 1 /\ Ghost' <= 1
        /\ wpc = "ghost" <=> Ghost = 1
        /\ wpc' = "ghost" <=> Ghost' = 1
    BY DEF Ghost
  <1>1. /\ pc \in [Threads -> ThreadPC] /\ wpc \in {"idle", "ghost", "write"}
        /\ IsFiniteSet(MayMakeOne) /\ IsFiniteSet(MayMakeTwo)
        /\ One \in Nat /\ Two \in Nat /\ nextId \in Nat /\ Len(queue) \in Nat
        /\ requests \in Nat /\ requests <= MaxRequests
        /\ Len(Existing) \in Nat /\ MaxRequests \in Nat
        /\ nextId - 1 + One + Two + Len(queue) + Ghost <= Len(Existing) + 2 * requests
    BY FS_CardinalityType, MaxIdType DEF IndInv, EnoughIds, TypeOK, ThreadPC, One, Two
  <1> DEFINE Allowed == Len(Existing) + 2 * requests
             Moved(n1, o1, w1, q1, g1, b1) ==
               /\ nextId' <= n1 /\ One' <= o1 /\ Two' <= w1 /\ Len(queue') <= q1
               /\ Ghost' <= g1 /\ Allowed' = b1
             q == Len(queue)
             Typed == /\ IsFiniteSet(MayMakeOne') /\ IsFiniteSet(MayMakeTwo')
                      /\ requests' \in Nat /\ requests' <= MaxRequests
                      /\ One' \in Nat /\ Two' \in Nat /\ nextId' \in Nat /\ Len(queue') \in Nat
  <1>2. ASSUME Typed,
               \/ Moved(nextId, One, Two, q, Ghost, Allowed)
               \/ Moved(nextId + 1, One - 1, Two, q, Ghost, Allowed)
               \/ Moved(nextId + 1, One, Two - 1, q, Ghost, Allowed)
               \/ Moved(nextId, One - 1, Two, q + 1, Ghost, Allowed)
               \/ Moved(nextId, One, Two, q - 1, Ghost + 1, Allowed)
               \/ Moved(nextId + 1, One, Two, q, Ghost - 1, Allowed)
               \/ Moved(nextId, One + 1, Two + 1, q, Ghost, Allowed + 2)
        PROVE  EnoughIds'
    <2> DEFINE n == nextId
               n1 == nextId'
               o1 == One'
               w1 == Two'
               q1 == Len(queue')
               g1 == Ghost'
               b1 == Allowed'
               b == Allowed
               o == One
               w == Two
               g == Ghost
    <2>1. /\ n \in Int /\ o \in Int /\ w \in Int /\ q \in Int /\ g \in Int /\ b \in Int
          /\ n1 \in Int /\ o1 \in Int /\ w1 \in Int /\ q1 \in Int /\ g1 \in Int /\ b1 \in Int
      <3>1. 2 * requests \in Int /\ 2 * requests' \in Int
        BY <1>1, <1>2
      <3>2. n \in Int /\ o \in Int /\ w \in Int /\ q \in Int /\ g \in Int
        BY <1>0, <1>1
      <3>3. n1 \in Int /\ o1 \in Int /\ w1 \in Int /\ q1 \in Int /\ g1 \in Int
        BY <1>0, <1>2
      <3>4. b \in Int /\ b1 \in Int
        BY <1>1, <3>1
      <3> QED
        BY <3>2, <3>3, <3>4
    <2>2. n - 1 + o + w + q + g <= b
      BY <1>1
    <2>3. \/ n1 <= n /\ o1 <= o /\ w1 <= w /\ q1 <= q /\ g1 <= g /\ b1 = b
          \/ n1 <= n + 1 /\ o1 <= o - 1 /\ w1 <= w /\ q1 <= q /\ g1 <= g /\ b1 = b
          \/ n1 <= n + 1 /\ o1 <= o /\ w1 <= w - 1 /\ q1 <= q /\ g1 <= g /\ b1 = b
          \/ n1 <= n /\ o1 <= o - 1 /\ w1 <= w /\ q1 <= q + 1 /\ g1 <= g /\ b1 = b
          \/ n1 <= n /\ o1 <= o /\ w1 <= w /\ q1 <= q - 1 /\ g1 <= g + 1 /\ b1 = b
          \/ n1 <= n + 1 /\ o1 <= o /\ w1 <= w /\ q1 <= q /\ g1 <= g - 1 /\ b1 = b
          \/ n1 <= n /\ o1 <= o + 1 /\ w1 <= w + 1 /\ q1 <= q /\ g1 <= g /\ b1 = b + 2
      BY <1>2, Zenon
    <2>4. n1 - 1 + o1 + w1 + q1 + g1 <= b1
      <3> HIDE DEF n, o, w, q, g, b, n1, o1, w1, q1, g1, b1
      <3> QED
        BY <2>1, <2>2, <2>3, Trade
    <2>5. nextId' - 1 + One' + Two' + Len(queue') + Ghost' <= Len(Existing) + 2 * requests'
      BY <2>4, Zenon
    <2> QED
      BY <1>2, <2>5, Zenon DEF EnoughIds
  <1>3. ASSUME NEW t \in Threads, Begins(t)
        PROVE  EnoughIds'
    <2>1. /\ t \notin MayMakeOne /\ t \notin MayMakeTwo
          /\ MayMakeOne' = MayMakeOne \/ MayMakeOne' = MayMakeOne \cup {t}
          /\ MayMakeTwo' = MayMakeTwo \/ MayMakeTwo' = MayMakeTwo \cup {t}
      BY <1>1, <1>3, BeginFacts DEF MayMakeOne, MayMakeTwo
    <2>2. /\ IsFiniteSet(MayMakeOne') /\ One' \in Nat /\ One' <= One + 1
          /\ IsFiniteSet(MayMakeTwo') /\ Two' \in Nat /\ Two' <= Two + 1
      BY <1>1, <2>1, CountAdd DEF One, Two
    <2>3. /\ requests < MaxRequests /\ requests' = requests + 1
          /\ UNCHANGED <<nextId, queue, wpc>>
      BY <1>3, BeginFacts
    <2>4. Typed
      BY <1>1, <2>2, <2>3
    <2>5. Allowed' = Allowed + 2
      BY <1>1, <2>3
    <2>6. Moved(nextId, One + 1, Two + 1, q, Ghost, Allowed + 2)
      BY <1>1, <1>0, <2>2, <2>3, <2>5 DEF Ghost
    <2> QED
      BY <1>2, <2>4, <2>6
  <1>4. ASSUME NEW t \in Threads, Inserts(t)
        PROVE  EnoughIds'
    <2>1. /\ t \in MayMakeOne /\ requests' = requests
          /\ UNCHANGED <<queue, wpc>> /\ (nextId' = nextId \/ nextId' = nextId + 1)
      BY <1>4, InsertFacts DEF MayMakeOne
    <2>2. CASE pc[t] = "create"
      <3>1. MayMakeOne' = MayMakeOne \ {t} /\ MayMakeTwo' = MayMakeTwo
        BY <1>1, <1>4, <2>2, InsertFacts DEF MayMakeOne, MayMakeTwo
      <3>2. /\ IsFiniteSet(MayMakeOne') /\ One' \in Nat /\ One' = One - 1 /\ Two' = Two
        BY <1>1, <2>1, <3>1, CountRemove DEF One, Two
      <3>3. Typed
        BY <1>1, <2>1, <3>1, <3>2
      <3>4. Moved(nextId + 1, One - 1, Two, q, Ghost, Allowed)
        BY <1>0, <1>1, <2>1, <3>2 DEF Ghost
      <3> QED
        BY <1>2, <3>3, <3>4
    <2>3. CASE pc[t] \in {"provision", "default"}
      <3>1. /\ MayMakeOne' = MayMakeOne \/ MayMakeOne' = MayMakeOne \ {t}
            /\ t \in MayMakeTwo /\ MayMakeTwo' = MayMakeTwo \ {t}
        BY <1>1, <1>4, <2>3, InsertFacts DEF MayMakeOne, MayMakeTwo
      <3>2. /\ IsFiniteSet(MayMakeTwo') /\ Two' \in Nat /\ Two' = Two - 1
            /\ IsFiniteSet(MayMakeOne') /\ One' \in Nat /\ One' <= One
        <4>1. IsFiniteSet(MayMakeTwo') /\ Two' \in Nat /\ Two' = Two - 1
          BY <1>1, <3>1, CountRemove DEF Two
        <4>2. IsFiniteSet(MayMakeOne') /\ One' \in Nat /\ One' <= One
          BY <1>1, <2>1, <3>1, ShrinkByOne DEF One
        <4> QED
          BY <4>1, <4>2
      <3>3. Typed
        BY <1>1, <2>1, <3>2
      <3>4. Moved(nextId + 1, One, Two - 1, q, Ghost, Allowed)
        BY <1>0, <1>1, <2>1, <3>2 DEF Ghost
      <3> QED
        BY <1>2, <3>3, <3>4
    <2> QED
      BY <1>4, <2>2, <2>3, InsertFacts
  <1>5. ASSUME NEW t \in Threads, KeyInsert(t) \/ Settles(t)
        PROVE  EnoughIds'
    <2>1. /\ MayMakeOne' = MayMakeOne \/ (t \in MayMakeOne /\ MayMakeOne' = MayMakeOne \ {t})
          /\ MayMakeTwo' = MayMakeTwo \/ (t \in MayMakeTwo /\ MayMakeTwo' = MayMakeTwo \ {t})
      BY <1>1, <1>5 DEF KeyInsert, Settles, Reload, Fails, MayMakeOne, MayMakeTwo
    <2>2. /\ IsFiniteSet(MayMakeOne') /\ One' \in Nat /\ One' <= One
          /\ IsFiniteSet(MayMakeTwo') /\ Two' \in Nat /\ Two' <= Two
      BY <1>1, <2>1, ShrinkByOne DEF One, Two
    <2>3. UNCHANGED <<requests, nextId, queue, wpc>>
      BY <1>5 DEF KeyInsert, Settles, Reload, Fails
    <2>4. Typed
      BY <1>1, <2>2, <2>3
    <2>5. Moved(nextId, One, Two, q, Ghost, Allowed)
      BY <1>0, <1>1, <2>2, <2>3 DEF Ghost
    <2> QED
      BY <1>2, <2>4, <2>5
  <1>6. ASSUME NEW t \in Threads, Enqueue(t)
        PROVE  EnoughIds'
    <2>1. /\ t \in MayMakeOne /\ MayMakeOne' = MayMakeOne \ {t} /\ MayMakeTwo' = MayMakeTwo
      BY <1>1, <1>6 DEF Enqueue, MayMakeOne, MayMakeTwo
    <2>2. IsFiniteSet(MayMakeOne') /\ One' \in Nat /\ One' = One - 1 /\ Two' = Two
      BY <1>1, <2>1, CountRemove DEF One, Two
    <2>3. UNCHANGED <<requests, nextId, wpc>> /\ Len(queue') = Len(queue) + 1
      BY <1>6 DEF Enqueue, IndInv, TypeOK
    <2>4. Typed
      BY <1>1, <2>1, <2>2, <2>3 DEF One, Two
    <2>5. Moved(nextId, One - 1, Two, q + 1, Ghost, Allowed)
      BY <1>0, <1>1, <2>1, <2>2, <2>3 DEF One, Two, Ghost
    <2> QED
      BY <1>2, <2>4, <2>5
  <1>7. ASSUME NEW t \in Threads, DeleteCommit(t)
        PROVE  EnoughIds'
    <2>1. MayMakeOne' = MayMakeOne /\ MayMakeTwo' = MayMakeTwo
      BY <1>1, <1>7 DEF DeleteCommit, MayMakeOne, MayMakeTwo
    <2>2. UNCHANGED <<requests, nextId, queue, wpc>>
      BY <1>7 DEF DeleteCommit
    <2>3. Typed
      BY <1>1, <2>1, <2>2 DEF One, Two
    <2>4. Moved(nextId, One, Two, q, Ghost, Allowed)
      BY <1>0, <1>1, <2>1, <2>2 DEF One, Two, Ghost
    <2> QED
      BY <1>2, <2>3, <2>4
  <1>8. CASE Take
    <2>1. MayMakeOne' = MayMakeOne /\ MayMakeTwo' = MayMakeTwo
      BY <1>8 DEF Take, MayMakeOne, MayMakeTwo
    <2>2. UNCHANGED <<requests, nextId>> /\ wpc = "idle" /\ queue # <<>> /\ queue' = Tail(queue)
      BY <1>8 DEF Take
    <2>3. Len(queue') \in Nat /\ Len(queue') = Len(queue) - 1
      BY <1>1, <2>2, HeadTail DEF IndInv, TypeOK
    <2>4. Typed
      BY <1>1, <2>1, <2>2, <2>3 DEF One, Two
    <2>5. Moved(nextId, One, Two, q - 1, Ghost + 1, Allowed)
      BY <1>0, <1>1, <2>1, <2>2, <2>3 DEF One, Two, Ghost
    <2> QED
      BY <1>2, <2>4, <2>5
  <1>9. CASE MakeGhost
    <2>1. MayMakeOne' = MayMakeOne /\ MayMakeTwo' = MayMakeTwo
      BY <1>9 DEF MakeGhost, MayMakeOne, MayMakeTwo
    <2>2. /\ UNCHANGED <<requests, queue>> /\ wpc = "ghost" /\ wpc' # "ghost"
          /\ nextId' = nextId \/ nextId' = nextId + 1
      BY <1>9 DEF MakeGhost
    <2>3. Typed
      BY <1>1, <2>1, <2>2 DEF One, Two
    <2>4. Moved(nextId + 1, One, Two, q, Ghost - 1, Allowed)
      BY <1>0, <1>1, <2>1, <2>2 DEF One, Two, Ghost
    <2> QED
      BY <1>2, <2>3, <2>4
  <1>10. CASE Write \/ WorkerFails
    <2>1. MayMakeOne' = MayMakeOne /\ MayMakeTwo' = MayMakeTwo
      BY <1>10 DEF Write, WorkerFails, MayMakeOne, MayMakeTwo
    <2>2. UNCHANGED <<requests, queue, nextId>> /\ wpc' # "ghost"
      BY <1>10 DEF Write, WorkerFails
    <2>3. Typed
      BY <1>1, <2>1, <2>2 DEF One, Two
    <2>4. Moved(nextId, One, Two, q, Ghost, Allowed)
      BY <1>0, <1>1, <2>1, <2>2 DEF One, Two, Ghost
    <2> QED
      BY <1>2, <2>3, <2>4
  <1>11. CASE UNCHANGED vars
    BY <1>1, <1>11 DEF vars, EnoughIds, MayMakeOne, MayMakeTwo, One, Two, Ghost
  <1> QED
    BY <1>3, <1>4, <1>5, <1>6, <1>7, <1>8, <1>9, <1>10, <1>11, StepKinds

\* A snapshot that waits in the queue or in the worker's hands was sent by a
\* client: nothing else puts one there.
LEMMA WaitingStep == IndInv /\ [Next]_vars => WaitingWasSent'
  <1> SUFFICES ASSUME IndInv, [Next]_vars
               PROVE  WaitingWasSent'
    OBVIOUS
  <1> USE DEF tables, locals, worker, WaitingWasSent
  <1>1. WaitingWasSent /\ queue \in Seq([proj : ProjectIds, trace : TraceIds])
    BY DEF IndInv, TypeOK
  <1>2. ASSUME NEW t \in Threads, Begins(t) \/ Inserts(t) \/ KeyInsert(t) \/ Settles(t) \/ DeleteCommit(t)
        PROVE  WaitingWasSent'
    <2>1. UNCHANGED <<queue, sent, wpc, batch>>
      BY <1>2, BeginFacts, InsertFacts DEF KeyInsert, Settles, Reload, Fails, DeleteCommit
    <2> QED
      BY <1>1, <2>1
  <1>3. ASSUME NEW t \in Threads, Enqueue(t)
        PROVE  WaitingWasSent'
    <2>1. found[t] \in ProjectIds /\ trace[t] \in TraceIds
      BY <1>3 DEF Enqueue, IndInv, TypeOK, IdsUsed
    <2> DEFINE item == [proj |-> found[t], trace |-> trace[t]]
    <2>2. queue' = Append(queue, item) /\ sent' = sent \cup {item} /\ UNCHANGED <<wpc, batch>>
      BY <1>3 DEF Enqueue
    <2>3. \A i \in DOMAIN queue' : queue'[i] \in sent'
      BY <1>1, <2>1, <2>2
    <2> QED
      BY <1>1, <2>1, <2>2, <2>3
  <1>4. CASE Take
    <2>1. queue # <<>> /\ queue' = Tail(queue) /\ batch' = Head(queue) /\ sent' = sent
      BY <1>4 DEF Take
    <2> QED
      BY <1>1, <2>1, HeadTail
  <1>5. CASE MakeGhost \/ Write \/ WorkerFails
    <2>1. UNCHANGED <<queue, sent, batch>> /\ wpc # "idle"
      BY <1>5 DEF MakeGhost, Write, WorkerFails
    <2> QED
      BY <1>1, <2>1
  <1>6. CASE UNCHANGED vars
    BY <1>1, <1>6 DEF vars
  <1> QED
    BY <1>2, <1>3, <1>4, <1>5, <1>6, StepKinds

\* A project that is there stays, or its id is among the deleted ones, and a
\* deleted id never comes back.
LEMMA Remain ==
    ASSUME IndInv, [Next]_vars
    PROVE  /\ \A p \in projects : p \in projects' \/ p.id \in dropped'
           /\ dropped \subseteq dropped'
           /\ \A id \in dropped' : ~Exists(id)'
           /\ \A id, i : (\E p \in GhostsOf(id) : p.id = i) =>
                  (\E p \in GhostsOf(id)' : p.id = i) \/ i \in dropped'
  <1>1. \A p \in projects : p \in projects' \/ p.id \in dropped'
    <2>1. CASE \E id \in 1..(nextId - 1) : /\ projects' = {p \in projects : p.id # id}
                                           /\ dropped' = dropped \cup {id}
      BY <2>1
    <2> QED
      BY <2>1, ProjectStep
  <1>2. \A id : \A p \in GhostsOf(id) : p \in GhostsOf(id)' \/ p.id \in dropped'
    BY <1>1 DEF GhostsOf, Called, GhostName
  <1> QED
    BY <1>1, <1>2, IdStep

\* What only one kind of step touches.
LEMMA Untouched ==
    ASSUME IndInv, [Next]_vars
    PROVE  /\ (\E t \in Threads : Begins(t) \/ Inserts(t) \/ KeyInsert(t) \/ Settles(t)
                                     \/ Enqueue(t) \/ DeleteCommit(t))
                 => UNCHANGED <<wpc, batch, target>>
           /\ (\E t \in Threads : KeyInsert(t)) \/ (\E t \in Threads : DeleteCommit(t))
                 \/ keys' = keys
           /\ Write \/ (\E t \in Threads : DeleteCommit(t)) \/ rows' = rows
           /\ sent \subseteq sent'
           /\ Take \/ MakeGhost \/ Write \/ WorkerFails
                 => UNCHANGED <<pc, arg, found, trace, keys, sent, dropped>>
           /\ cut \subseteq cut'
  <1> USE DEF tables, locals, worker
  <1>1. ASSUME NEW t \in Threads, Begins(t) \/ Inserts(t)
        PROVE  UNCHANGED <<wpc, batch, target, keys, rows, sent>>
    BY <1>1, BeginFacts, InsertFacts
  <1>2. ASSUME NEW t \in Threads, KeyInsert(t)
        PROVE  UNCHANGED <<wpc, batch, target, rows, sent>>
    BY <1>2 DEF KeyInsert
  <1>3. ASSUME NEW t \in Threads, Settles(t)
        PROVE  UNCHANGED <<wpc, batch, target, keys, rows, sent>>
    BY <1>3 DEF Settles, Reload, Fails
  <1>4. ASSUME NEW t \in Threads, Enqueue(t)
        PROVE  UNCHANGED <<wpc, batch, target, keys, rows>> /\ sent \subseteq sent'
    BY <1>4 DEF Enqueue
  <1>5. ASSUME NEW t \in Threads, DeleteCommit(t)
        PROVE  UNCHANGED <<wpc, batch, target, sent>>
    BY <1>5 DEF DeleteCommit
  <1>6. Take \/ MakeGhost \/ Write \/ WorkerFails
           => UNCHANGED <<pc, arg, found, trace, keys, sent, dropped>>
    BY DEF Take, MakeGhost, Write, WorkerFails
  <1>7. Take \/ MakeGhost \/ WorkerFails => rows' = rows
    BY DEF Take, MakeGhost, WorkerFails
  <1>8. UNCHANGED vars => UNCHANGED <<keys, rows, sent>>
    BY DEF vars
  <1>9. (\E t \in Threads : Begins(t) \/ Inserts(t) \/ KeyInsert(t) \/ Settles(t)
                               \/ Enqueue(t) \/ DeleteCommit(t))
           => UNCHANGED <<wpc, batch, target>>
    BY <1>1, <1>2, <1>3, <1>4, <1>5
  <1>10. \/ (\E t \in Threads : KeyInsert(t)) \/ (\E t \in Threads : DeleteCommit(t))
         \/ keys' = keys
    BY <1>1, <1>3, <1>4, <1>6, <1>8, StepKinds
  <1>11. Write \/ (\E t \in Threads : DeleteCommit(t)) \/ rows' = rows
    BY <1>1, <1>2, <1>3, <1>4, <1>7, <1>8, StepKinds
  <1>12. sent \subseteq sent'
    BY <1>1, <1>2, <1>3, <1>4, <1>5, <1>6, <1>8, StepKinds
  <1>13. cut \subseteq cut'
    <2>1. ASSUME NEW t \in Threads, Begins(t) \/ Inserts(t)
          PROVE  cut' = cut
      BY <2>1, BeginFacts, InsertFacts
    <2>2. ASSUME NEW t \in Threads, KeyInsert(t) \/ Settles(t) \/ Enqueue(t) \/ DeleteCommit(t)
          PROVE  cut \subseteq cut'
      BY <2>2 DEF KeyInsert, Settles, Reload, Fails, Enqueue, DeleteCommit
    <2>3. Take \/ MakeGhost \/ Write \/ WorkerFails \/ UNCHANGED vars => cut' = cut
      BY DEF Take, MakeGhost, Write, WorkerFails, vars
    <2> QED
      BY <2>1, <2>2, <2>3, StepKinds
  <1> QED
    BY <1>6, <1>9, <1>10, <1>11, <1>12, <1>13

\* The worker's target stays explained.
LEMMA TargetStep == IndInv /\ [Next]_vars => TargetExplained'
  <1> SUFFICES ASSUME IndInv, [Next]_vars, wpc' = "write"
               PROVE  TargetExplained'
    BY DEF TargetExplained
  <1>1. ASSUME \/ target' = batch'.proj
               \/ \E p \in projects' : p.name = GhostName(batch'.proj) /\ p.id = target'
               \/ target' \in dropped'
        PROVE  TargetExplained'
    BY <1>1 DEF TargetExplained, GhostsOf, Called, GhostName
  <1>2. CASE UNCHANGED <<wpc, batch, target>>
    <2>1. \/ target = batch.proj
          \/ \E p \in projects : p.name = GhostName(batch.proj) /\ p.id = target
          \/ target \in dropped
      BY <1>2 DEF IndInv, TargetExplained, GhostsOf, Called
    <2>2. /\ \A p \in projects : p \in projects' \/ p.id \in dropped'
          /\ dropped \subseteq dropped'
      BY Remain
    <2> QED
      BY <1>1, <1>2, <2>1, <2>2
  <1>3. CASE Take
    <2>1. \E p \in Known(batch'.proj) : target' = p.id
      BY <1>3 DEF Take
    <2>2. projects' = projects
      BY <1>3 DEF Take, tables
    <2> QED
      BY <1>1, <2>1, <2>2 DEF Known, GhostsOf, Called
  <1>4. CASE MakeGhost
    <2> DEFINE p == [id |-> nextId, name |-> GhostName(batch.proj)]
    <2>1. p \in projects' /\ target' = nextId /\ batch' = batch
      BY <1>4 DEF MakeGhost
    <2>2. p.id = nextId /\ p.name = GhostName(batch.proj)
      OBVIOUS
    <2> QED
      BY <1>1, <2>1, <2>2
  <1>5. CASE Write \/ WorkerFails
    BY <1>5 DEF Write, WorkerFails
  <1>6. UNCHANGED vars => UNCHANGED <<wpc, batch, target>>
    BY DEF vars, worker
  <1> QED
    BY <1>2, <1>3, <1>4, <1>5, <1>6, StepKinds, Untouched

\* A name made of an id is on its way only when the workspace of that id was
\* deleted: the worker makes one for a batch whose workspace is gone, and a
\* client only asks for its own names.
LEMMA GhostsStep == IndInv /\ [Next]_vars => GhostsToBeExplained'
  <1> SUFFICES ASSUME IndInv, [Next]_vars
               PROVE  GhostsToBeExplained'
    OBVIOUS
  <1> DEFINE Waits(t) == /\ pc[t] = "provision" /\ arg[t] \in GhostNames =>
                              \E id \in dropped : arg[t] = GhostName(id)
                         /\ pc[t] = "create" => arg[t] \in Names
  <1>1. /\ \A t \in Threads : Waits(t)
        /\ wpc = "ghost" => batch.proj \in dropped
        /\ pc \in [Threads -> ThreadPC]
        /\ dropped \subseteq dropped'
    BY Remain DEF IndInv, GhostsToBeExplained, TypeOK, ThreadPC
  <1>2. ASSUME NEW t \in Threads, pc'[t] = pc[t] \/ pc'[t] \notin {"create", "provision"},
               arg'[t] = arg[t]
        PROVE  Waits(t)'
    BY <1>1, <1>2
  <1>3. ASSUME NEW t \in Threads, Begins(t)
        PROVE  \A u \in Threads : Waits(u)'
    <2>1. Waits(t)'
      BY <1>3, <1>1, BeginFacts
    <2>2. \A u \in Threads \ {t} : pc'[u] = pc[u] /\ arg'[u] = arg[u]
      BY <1>1, <1>3, BeginFacts DEF IndInv, TypeOK
    <2> QED
      BY <1>2, <2>1, <2>2
  <1>4. ASSUME NEW t \in Threads, \/ Inserts(t) \/ KeyInsert(t) \/ Settles(t)
                                  \/ Enqueue(t) \/ DeleteCommit(t)
        PROVE  \A u \in Threads : Waits(u)'
    <2>1. arg' = arg
      BY <1>4, InsertFacts DEF KeyInsert, Settles, Reload, Fails, Enqueue, DeleteCommit
    <2>2. \A u \in Threads : pc'[u] = pc[u] \/ pc'[u] \notin {"create", "provision"}
      <3>1. CASE Inserts(t)
        BY <1>1, <3>1, InsertFacts
      <3>2. CASE KeyInsert(t)
        BY <1>1, <3>2 DEF KeyInsert, Goes
      <3>3. CASE Settles(t) \/ Enqueue(t) \/ DeleteCommit(t)
        BY <1>1, <3>3 DEF Settles, Reload, Fails, Enqueue, DeleteCommit, Goes
      <3> QED
        BY <1>4, <3>1, <3>2, <3>3
    <2> QED
      BY <1>2, <2>1, <2>2
  <1>5. Take \/ MakeGhost \/ Write \/ WorkerFails \/ UNCHANGED vars => \A u \in Threads : Waits(u)'
    BY <1>2, Untouched DEF vars, locals
  <1>6. \A u \in Threads : Waits(u)'
    BY <1>3, <1>4, <1>5, StepKinds
  <1>7. wpc' = "ghost" => batch'.proj \in dropped'
    <2>1. CASE UNCHANGED <<wpc, batch>>
      BY <1>1, <2>1
    <2>2. CASE Take
      <3>1. SUFFICES ASSUME wpc' = "ghost" PROVE batch'.proj \in dropped'
        OBVIOUS
      <3>2. Known(batch'.proj) = {} /\ batch' = Head(queue) /\ queue # <<>> /\ dropped' = dropped
        BY <2>2, <3>1 DEF Take
      <3>3. batch' \in sent
        BY <3>2, HeadTail DEF IndInv, TypeOK, WaitingWasSent
      <3>4. batch'.proj \in 1..(nextId - 1)
        BY <3>3, MaxIdType DEF IndInv, TypeOK, WaitingWasSent, IdsUsed, ProjectIds
      <3> QED
        BY <3>2, <3>4 DEF IndInv, IdsUsed, Known, Exists
    <2>3. CASE MakeGhost \/ Write \/ WorkerFails
      BY <2>3 DEF MakeGhost, Write, WorkerFails
    <2> QED
      BY <2>1, <2>2, <2>3, StepKinds, Untouched DEF vars, worker
  <1> QED
    BY <1>6, <1>7 DEF GhostsToBeExplained, GhostName, GhostNames

\* With foreign keys no step leaves a key without its workspace.
LEMMA KeysStep == IndInv /\ [Next]_vars => KeysHaveProject'
  <1> SUFFICES ASSUME IndInv, [Next]_vars, ForeignKeys, NEW id \in ProjectIds, keys'[id] > 0
               PROVE  Exists(id)'
    BY DEF KeysHaveProject
  <1>1. /\ keys \in [ProjectIds -> Nat]
        /\ keys[id] > 0 => Exists(id)
        /\ Exists(id) => Exists(id)' \/ id \in dropped'
    BY IdStep DEF IndInv, TypeOK, KeysHaveProject
  <1>2. ASSUME NEW t \in Threads, KeyInsert(t)
        PROVE  Exists(id)'
    BY <1>1, <1>2 DEF KeyInsert, Exists
  <1>3. ASSUME NEW t \in Threads, DeleteCommit(t)
        PROVE  Exists(id)'
    <2>1. CASE UNCHANGED tables
      BY <1>1, <2>1 DEF tables, Exists
    <2>2. CASE /\ keys' = [keys EXCEPT ![found[t]] = 0]
               /\ projects' = {p \in projects : p.id # found[t]}
      BY <1>1, <2>2 DEF Exists
    <2> QED
      BY <1>3, <2>1, <2>2 DEF DeleteCommit
  <1>4. CASE keys' = keys /\ ~(\E t \in Threads : DeleteCommit(t))
    <2>1. dropped' = dropped
      <3>1. ASSUME NEW t \in Threads, Begins(t) \/ Inserts(t)
            PROVE  dropped' = dropped
        BY <3>1, BeginFacts, InsertFacts
      <3> QED
        BY <1>4, <3>1, StepKinds, Untouched DEF KeyInsert, Settles, Reload, Fails, Enqueue, vars
    <2> QED
      BY <1>1, <1>4, <2>1 DEF IndInv, IdsUsed
  <1> QED
    BY <1>2, <1>3, <1>4, Untouched

\* With foreign keys no step leaves a trace without its workspace.
LEMMA RowsStep == IndInv /\ [Next]_vars => RowsHaveProject'
  <1> SUFFICES ASSUME IndInv, [Next]_vars, ForeignKeys, NEW x \in TraceIds, rows'[x] # None
               PROVE  \E p \in projects' : p.id = rows'[x]
    BY DEF RowsHaveProject, Exists
  <1>1. /\ rows \in [TraceIds -> {None} \cup ProjectIds]
        /\ rows[x] # None => Exists(rows[x])
    BY DEF IndInv, TypeOK, RowsHaveProject
  <1>2. ASSUME NEW t \in Threads, DeleteCommit(t)
        PROVE  \E p \in projects' : p.id = rows'[x]
    <2>1. CASE UNCHANGED tables
      BY <1>1, <2>1 DEF tables, Exists
    <2>2. CASE /\ rows' = [y \in TraceIds |-> IF rows[y] = found[t] THEN None ELSE rows[y]]
               /\ projects' = {p \in projects : p.id # found[t]}
      BY <1>1, <2>2 DEF Exists
    <2> QED
      BY <1>2, <2>1, <2>2 DEF DeleteCommit
  <1>3. CASE Write
    <2>1. projects' = projects /\ (rows' = rows \/ rows' = [rows EXCEPT ![batch.trace] = target])
      BY <1>3 DEF Write
    <2>2. rows' = rows \/ Exists(target)
      <3>1. ForeignKeys /\ ~Exists(target) => rows' = rows
        BY <1>3, Zenon DEF Write
      <3> QED
        BY <3>1
    <2>3. rows'[x] = rows[x] \/ (rows'[x] = target /\ Exists(target))
      BY <1>1, <2>1, <2>2
    <2> QED
      BY <1>1, <2>1, <2>3 DEF Exists
  <1>4. CASE rows' = rows /\ ~(\E t \in Threads : DeleteCommit(t))
    <2>1. projects \subseteq projects'
      <3>1. ASSUME NEW t \in Threads, Begins(t) \/ Inserts(t)
            PROVE  projects \subseteq projects'
        BY <3>1, BeginFacts, InsertFacts
      <3> QED
        BY <1>4, <3>1, StepKinds DEF KeyInsert, Settles, Reload, Fails, Enqueue, Take, MakeGhost, Write, WorkerFails, vars, tables
    <2> QED
      BY <1>1, <1>4, <2>1 DEF Exists
  <1> QED
    BY <1>2, <1>3, <1>4, Untouched

\* No step stores a trace elsewhere than where it was sent, or changes that.
LEMMA OriginStep == IndInv /\ [Next]_vars => RowsInTheirWorkspace'
  <1> DEFINE Explained(x, i) ==
        \E s \in sent : /\ s.trace = x
                        /\ \/ i = s.proj
                           \/ \E p \in projects : p.name = GhostName(s.proj) /\ p.id = i
                           \/ ~ForeignKeys /\ i \in dropped
  <1> SUFFICES ASSUME IndInv, [Next]_vars
               PROVE  \A x \in TraceIds : rows'[x] # None => Explained(x, rows[x])'
    BY DEF RowsInTheirWorkspace, GhostsOf, Called, GhostName
  <1>1. /\ \A x \in TraceIds : rows[x] # None => Explained(x, rows[x])
        /\ rows \in [TraceIds -> {None} \cup ProjectIds]
        /\ sent \subseteq sent' /\ dropped \subseteq dropped'
        /\ \A p \in projects : p \in projects' \/ p.id \in dropped'
        /\ \A id \in dropped' : ~Exists(id)'
    BY Remain, Untouched DEF IndInv, TypeOK, RowsInTheirWorkspace, GhostsOf, Called
  <1>2. ForeignKeys => \A x \in TraceIds : rows'[x] # None => rows'[x] \notin dropped'
    BY <1>1, RowsStep DEF RowsHaveProject
  <1>3. ASSUME NEW x \in TraceIds, rows'[x] # None, rows'[x] = rows[x]
        PROVE  Explained(x, rows[x])'
    <2>1. PICK s \in sent : /\ s.trace = x
                            /\ \/ rows[x] = s.proj
                               \/ \E p \in projects : p.name = GhostName(s.proj) /\ p.id = rows[x]
                               \/ ~ForeignKeys /\ rows[x] \in dropped
      BY <1>1, <1>3
    <2>2. s \in sent'
      BY <1>1
    <2>3. \/ rows'[x] = s.proj
          \/ \E p \in projects' : p.name = GhostName(s.proj) /\ p.id = rows'[x]
          \/ ~ForeignKeys /\ rows'[x] \in dropped'
      BY <1>1, <1>2, <1>3, <2>1
    <2> QED
      BY <2>1, <2>2, <2>3 DEF GhostName
  <1>4. ASSUME NEW t \in Threads, DeleteCommit(t)
        PROVE  \A x \in TraceIds : rows'[x] # None => rows'[x] = rows[x]
    BY <1>1, <1>4 DEF DeleteCommit, tables
  <1>5. ASSUME Write, NEW x \in TraceIds, rows'[x] # None, rows'[x] # rows[x]
        PROVE  Explained(x, rows[x])'
    <2>1. /\ wpc = "write" /\ x = batch.trace /\ rows'[x] = target
          /\ ForeignKeys => Exists(target)
          /\ UNCHANGED <<projects, sent, dropped>>
      BY <1>1, <1>5 DEF Write
    <2>2. /\ batch \in sent
          /\ \/ target = batch.proj
             \/ \E p \in projects : p.name = GhostName(batch.proj) /\ p.id = target
             \/ target \in dropped
      BY <2>1 DEF IndInv, WaitingWasSent, TargetExplained, GhostsOf, Called
    <2>3. target \in dropped => ~ForeignKeys
      BY <2>1 DEF IndInv, IdsUsed
    <2>4. \/ rows'[x] = batch.proj
          \/ \E p \in projects' : p.name = GhostName(batch.proj) /\ p.id = rows'[x]
          \/ ~ForeignKeys /\ rows'[x] \in dropped'
      BY <2>1, <2>2, <2>3
    <2> QED
      BY <2>1, <2>2, <2>4 DEF GhostName
  <1>6. Write \/ \A x \in TraceIds : rows'[x] # None => rows'[x] = rows[x]
    BY <1>4, Untouched
  <1> QED
    BY <1>3, <1>5, <1>6

\* No step makes a ghost of a workspace that was not deleted.
LEMMA ExplainedStep == IndInv /\ [Next]_vars => GhostsExplained'
  <1> SUFFICES ASSUME IndInv, [Next]_vars
               PROVE  \A p \in projects' : p.name \in GhostNames =>
                         \E id \in dropped' : p.name = GhostName(id)
    BY DEF GhostsExplained, GhostNames, GhostName
  <1>1. /\ \A p \in projects : p.name \in GhostNames =>
              \E id \in dropped : p.name = GhostName(id)
        /\ dropped \subseteq dropped'
    BY Remain DEF IndInv, GhostsExplained
  <1>2. CASE projects' \subseteq projects
    BY <1>1, <1>2
  <1>3. ASSUME NEW t \in Threads, Inserts(t)
        PROVE  \A p \in projects' : p.name \in GhostNames =>
                  \E id \in dropped' : p.name = GhostName(id)
    <2>1. CASE projects' = projects
      BY <1>2, <2>1
    <2>2. ASSUME NEW n \in Names \cup GhostNames,
                 projects' = projects \cup {[id |-> nextId, name |-> n]},
                 n = (IF pc[t] = "default" THEN DefaultName ELSE arg[t])
          PROVE  \A p \in projects' : p.name \in GhostNames =>
                    \E id \in dropped' : p.name = GhostName(id)
      <3>1. pc[t] \in {"create", "provision", "default"}
        BY <1>3, InsertFacts
      <3>2. n \in GhostNames => \E id \in dropped : n = GhostName(id)
        BY <2>2, <3>1, NamesAssumption, WorkspaceAssumption DEF IndInv, GhostsToBeExplained
      <3>3. [id |-> nextId, name |-> n].name = n
        OBVIOUS
      <3> QED
        BY <1>1, <2>2, <3>2, <3>3
    <2> QED
      BY <1>3, <2>1, <2>2, InsertFacts
  <1>4. CASE MakeGhost
    <2>1. batch.proj \in dropped
      BY <1>4 DEF MakeGhost, IndInv, GhostsToBeExplained
    <2>2. [id |-> nextId, name |-> GhostName(batch.proj)].name = GhostName(batch.proj)
      OBVIOUS
    <2>3. projects' \subseteq projects \cup {[id |-> nextId, name |-> GhostName(batch.proj)]}
      BY <1>4 DEF MakeGhost
    <2> QED
      BY <1>1, <2>1, <2>2, <2>3
  <1>5. ASSUME NEW t \in Threads, Begins(t)
        PROVE  projects' \subseteq projects
    BY <1>5, BeginFacts
  <1>6. ASSUME NEW t \in Threads, KeyInsert(t) \/ Settles(t) \/ Enqueue(t) \/ DeleteCommit(t)
        PROVE  projects' \subseteq projects
    BY <1>6 DEF KeyInsert, Settles, Reload, Fails, Enqueue, DeleteCommit, tables
  <1>7. Take \/ Write \/ WorkerFails \/ UNCHANGED vars => projects' \subseteq projects
    BY DEF Take, Write, WorkerFails, vars, tables
  <1> QED
    BY <1>2, <1>3, <1>4, <1>5, <1>6, <1>7, StepKinds

\* No step leaves a workspace that was asked for without a key.
LEMMA HaveKeyStep == IndInv /\ [Next]_vars => WorkspacesHaveKey'
  <1> DEFINE Making == {"createKey", "provisionKey"}
             HasKey(p) == \/ keys[p.id] > 0
                          \/ p.id \in cut
                          \/ \E t \in Threads : found[t] = p.id /\ pc[t] \in Making
             Asked(p) == p.name \in Names \ {DefaultName}
  <1> SUFFICES ASSUME IndInv, [Next]_vars
               PROVE  \A p \in projects' : Asked(p) => HasKey(p)'
    BY DEF WorkspacesHaveKey
  <1>1. /\ \A p \in projects : Asked(p) => HasKey(p)
        /\ \A p \in projects : p.id \in ProjectIds
        /\ keys \in [ProjectIds -> Nat] /\ pc \in [Threads -> ThreadPC]
        /\ found \in [Threads -> {None} \cup ProjectIds]
        /\ cut \subseteq cut'
    BY ProjectsExist, Untouched DEF IndInv, WorkspacesHaveKey, TypeOK, ThreadPC
  <1>2. ASSUME keys' = keys, projects' \subseteq projects,
               \A t \in Threads : pc[t] \in Making => pc'[t] = pc[t] /\ found'[t] = found[t]
        PROVE  \A p \in projects' : Asked(p) => HasKey(p)'
    BY <1>1, <1>2
  <1>3. ASSUME NEW t \in Threads, Begins(t)
        PROVE  \A p \in projects' : Asked(p) => HasKey(p)'
    <2>1. \A u \in Threads \ {t} : pc'[u] = pc[u] /\ found'[u] = found[u]
      BY <1>1, <1>3, BeginFacts
    <2>2. pc[t] = "idle" /\ UNCHANGED <<keys, projects>>
      BY <1>3, BeginFacts
    <2> QED
      BY <1>2, <2>1, <2>2
  <1>4. ASSUME NEW t \in Threads, Inserts(t)
        PROVE  \A p \in projects' : Asked(p) => HasKey(p)'
    <2>1. \A u \in Threads \ {t} : pc'[u] = pc[u] /\ found'[u] = found[u]
      BY <1>1, <1>4, InsertFacts
    <2>2. pc[t] \in {"create", "provision", "default"} /\ keys' = keys
      BY <1>4, InsertFacts
    <2>3. \A p \in projects : Asked(p) => HasKey(p)'
      BY <1>1, <2>1, <2>2
    <2>4. ASSUME NEW n \in Names \cup GhostNames,
                 projects' = projects \cup {[id |-> nextId, name |-> n]},
                 n = (IF pc[t] = "default" THEN DefaultName ELSE arg[t]),
                 found' = [found EXCEPT ![t] = nextId],
                 pc' = [pc EXCEPT ![t] = CASE pc[t] = "create"    -> "createKey"
                                           [] pc[t] = "provision" -> "provisionKey"
                                           [] pc[t] = "default"   -> "enqueue"]
          PROVE  \A p \in projects' : Asked(p) => HasKey(p)'
      <3> DEFINE q == [id |-> nextId, name |-> n]
      <3>1. q.id = nextId /\ q.name = n
        OBVIOUS
      <3>2. found'[t] = nextId /\ (pc'[t] \in Making \/ n = DefaultName)
        BY <1>1, <2>2, <2>4
      <3>3. ASSUME NEW p \in projects', p = q
            PROVE  Asked(p) => HasKey(p)'
        BY <3>1, <3>2, <3>3
      <3> QED
        BY <2>3, <2>4, <3>3
    <2> QED
      BY <1>4, <2>3, <2>4, InsertFacts
  <1>5. ASSUME NEW t \in Threads, KeyInsert(t)
        PROVE  \A p \in projects' : Asked(p) => HasKey(p)'
    <2>1. UNCHANGED <<projects, found>> /\ \A u \in Threads \ {t} : pc'[u] = pc[u]
      BY <1>1, <1>5 DEF KeyInsert, Goes
    <2>2. CASE keys' = [keys EXCEPT ![found[t]] = @ + 1]
      <3>1. \A p \in projects : keys[p.id] > 0 \/ found[t] = p.id => keys'[p.id] > 0
        BY <1>1, <2>2
      <3> QED
        BY <1>1, <2>1, <3>1
    <2>3. CASE ~Exists(found[t]) /\ keys' = keys
      <3>1. \A p \in projects : found[t] # p.id
        BY <2>3 DEF Exists
      <3> QED
        BY <1>1, <2>1, <2>3, <3>1
    <2> QED
      BY <1>5, <2>2, <2>3 DEF KeyInsert
  <1>6. ASSUME NEW t \in Threads, Settles(t) \/ Enqueue(t)
        PROVE  \A p \in projects' : Asked(p) => HasKey(p)'
    <2>1. /\ UNCHANGED <<projects, keys, found>>
          /\ \A u \in Threads \ {t} : pc'[u] = pc[u]
      BY <1>1, <1>6 DEF Settles, Reload, Fails, Enqueue, Goes, tables
    <2>2. pc[t] \in Making => found[t] \in cut'
      BY <1>6 DEF Settles, Reload, Fails, Enqueue
    <2> QED
      BY <1>1, <2>1, <2>2
  <1>7. ASSUME NEW t \in Threads, DeleteCommit(t)
        PROVE  \A p \in projects' : Asked(p) => HasKey(p)'
    <2>1. /\ pc[t] \notin Making /\ found' = found
          /\ \A u \in Threads \ {t} : pc'[u] = pc[u]
      BY <1>1, <1>7 DEF DeleteCommit, Goes
    <2>2. CASE UNCHANGED tables
      BY <1>2, <2>1, <2>2 DEF tables
    <2>3. CASE /\ keys' = [keys EXCEPT ![found[t]] = 0]
               /\ projects' = {p \in projects : p.id # found[t]}
      <3>1. \A p \in projects' : p \in projects /\ keys'[p.id] = keys[p.id]
        BY <1>1, <2>3
      <3> QED
        BY <1>1, <2>1, <3>1
    <2> QED
      BY <1>7, <2>2, <2>3 DEF DeleteCommit
  <1>8. CASE Take \/ Write \/ WorkerFails \/ UNCHANGED vars
    <2>1. projects' = projects /\ UNCHANGED <<keys, pc, found>>
      BY <1>8 DEF Take, Write, WorkerFails, vars, tables, locals
    <2> QED
      BY <1>2, <2>1
  <1>9. CASE MakeGhost
    <2>1. UNCHANGED <<keys, pc, found>>
      BY <1>9 DEF MakeGhost, locals
    <2>2. GhostName(batch.proj) \notin Names
      BY <1>9, NamesAssumption DEF MakeGhost, IndInv, TypeOK, GhostNames
    <2>3. [id |-> nextId, name |-> GhostName(batch.proj)].name = GhostName(batch.proj)
      OBVIOUS
    <2>4. projects' \subseteq projects \cup {[id |-> nextId, name |-> GhostName(batch.proj)]}
      BY <1>9 DEF MakeGhost
    <2> QED
      BY <1>1, <2>1, <2>2, <2>3, <2>4
  <1> QED
    BY <1>3, <1>4, <1>5, <1>6, <1>7, <1>8, <1>9, StepKinds

-----------------------------------------------------------------------------
(* The theorems.                                                           *)

\* The invariant holds at the start.
LEMMA InitInd == Init => IndInv
  <1> SUFFICES ASSUME Init
               PROVE  IndInv
    OBVIOUS
  <1>1. PICK k \in 0..Len(Existing) :
           /\ projects = {[id |-> i, name |-> Existing[i]] : i \in 1..k}
           /\ keys = [id \in ProjectIds |-> IF id <= k THEN 1 ELSE 0]
           /\ rows = [x \in TraceIds |-> None] /\ queue = <<>>
           /\ pc = [t \in Threads |-> "idle"] /\ found = [t \in Threads |-> None]
           /\ arg = [t \in Threads |-> DefaultName]
           /\ trace \in [Threads -> {CHOOSE x \in TraceIds : TRUE}]
           /\ wpc = "idle" /\ batch = [proj |-> None, trace |-> None] /\ target = None
           /\ nextId = k + 1
           /\ requests = 0 /\ sent = {} /\ dropped = {} /\ cut = {}
    BY DEF Init
  <1>2. /\ MaxId \in Nat /\ Len(Existing) \in Nat /\ MaxRequests \in Nat /\ k \in Nat
        /\ k <= Len(Existing) /\ Len(Existing) <= MaxId /\ None = 0 /\ nextId - 1 = k
    BY <1>1, MaxIdType DEF MaxId, None
  <1>3. \A p : p \in projects <=> \E i \in 1..k : p = [id |-> i, name |-> Existing[i]]
    BY <1>1
  <1>4. \A i \in 1..k : Existing[i] \in Names /\ i \in 1..(nextId - 1) /\ i \in ProjectIds
    BY <1>2, WorkspaceAssumption DEF ProjectIds
  <1>5. projects \subseteq [id : 1..(nextId - 1), name : Names]
    BY <1>3, <1>4
  <1>6. \A id : Exists(id) <=> id \in 1..k
    <2>1. \A i \in 1..k : [id |-> i, name |-> Existing[i]].id = i
      OBVIOUS
    <2> QED
      BY <1>3, <2>1 DEF Exists
  <1>7. (CHOOSE x \in TraceIds : TRUE) \in TraceIds /\ DefaultName \in Names
    BY WorkspaceAssumption
  <1>8. TypeOK
    BY <1>1, <1>2, <1>5, <1>7 DEF TypeOK, ProjectIds
  <1>9. BatchShape /\ WaitingWasSent /\ TargetExplained /\ GhostsToBeExplained
    BY <1>1 DEF BatchShape, WaitingWasSent, TargetExplained, GhostsToBeExplained
  <1>10. IdsUsed
    <2>1. \A id \in ProjectIds : keys[id] > 0 => id < nextId
      BY <1>1, <1>2 DEF ProjectIds
    <2> QED
      BY <1>1, <1>2, <1>6, <2>1 DEF IdsUsed
  <1>11. EnoughIds
    <2>1. MayMakeOne = {} /\ MayMakeTwo = {}
      BY <1>1 DEF MayMakeOne, MayMakeTwo
    <2>2. One = 0 /\ Two = 0 /\ Ghost = 0 /\ Len(queue) = 0
      BY <1>1, <2>1, FS_EmptySet DEF One, Two, Ghost
    <2> QED
      BY <1>1, <1>2, <2>1, <2>2, FS_EmptySet DEF EnoughIds
  <1>12. KeysHaveProject /\ RowsHaveProject /\ RowsInTheirWorkspace
    BY <1>1, <1>2, <1>6 DEF KeysHaveProject, RowsHaveProject, RowsInTheirWorkspace, ProjectIds
  <1>13. GhostsExplained
    BY <1>5, NamesAssumption DEF GhostsExplained
  <1>14. WorkspacesHaveKey
    <2>1. \A p \in projects : p.id \in 1..k /\ p.id \in ProjectIds
      BY <1>2, <1>4, <1>5
    <2>2. \A id \in 1..k : id \in ProjectIds => keys[id] > 0
      BY <1>1, <1>2
    <2> QED
      BY <2>1, <2>2 DEF WorkspacesHaveKey
  <1> QED
    BY <1>8, <1>9, <1>10, <1>11, <1>12, <1>13, <1>14 DEF IndInv

\* The invariant holds in every state.
THEOREM Invariance == Spec => []IndInv
  <1>1. IndInv /\ [Next]_vars => IndInv'
    BY TypeStep, IdsStep, EnoughStep, WaitingStep, TargetStep, GhostsStep, KeysStep, RowsStep,
       OriginStep, ExplainedStep, HaveKeyStep DEF IndInv
  <1> QED
    BY <1>1, InitInd, PTL DEF Spec

\* Every variable keeps its type; in particular two fresh ids for each request
\* are enough, also for the ghosts the worker makes of batches.
THEOREM TypeCorrect == Spec => []TypeOK
  BY Invariance, PTL DEF IndInv

\* Keys and traces neither outlive nor change their workspace, in any order of
\* creations, deletions and ingestions.
THEOREM KeysAndTracesStay == Spec => []NothingMisplaced
  <1>1. IndInv => NothingMisplaced
    BY DEF IndInv, NothingMisplaced
  <1> QED
    BY <1>1, Invariance, PTL

\* A workspace nobody created stands for one that was deleted, and one that
\* was asked for has its key, waits for it, or lost it when the request that
\* made it failed between its two transactions.
THEOREM OriginsExplained == Spec => []WorkspacesExplained
  <1>1. IndInv => WorkspacesExplained
    BY DEF IndInv, WorkspacesExplained
  <1> QED
    BY <1>1, Invariance, PTL
=============================================================================
