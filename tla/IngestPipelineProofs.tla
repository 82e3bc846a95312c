------------------------ MODULE IngestPipelineProofs ------------------------
(***************************************************************************)
(* Proofs about IngestPipeline, for any number of server processes, any    *)
(* batches and any bounds.                                                 *)
(***************************************************************************)
EXTENDS IngestPipeline, FiniteSetTheorems, SequenceTheorems, WellFoundedInduction, TLAPS

USE DEF table, TakeOut

-----------------------------------------------------------------------------
(* The inductive invariant.                                                *)

Fates == {"queueFull", "lostInPop", "committed", "conflict", "dbError", "crash", "exit"}

\* The functions TypeOK only looks into.
Shape ==
    /\ mem \in [Procs -> Seq(Accepted)]
    /\ cur \in [Procs -> Accepted \cup {NoBatch}]
    /\ seen \in [Procs -> Seq(Versions \cup {0})]
    /\ fates \in [1..MaxIngests -> SUBSET Fates]
    /\ faults \in Nat

\* Batch n has version v of trace x.
Has(n, x, v) == \E i \in DOMAIN batches[n] : batches[n][i].id = x /\ batches[n][i].ver = v

\* An accepted batch is somewhere, or it has met a fate.
NotForgotten == \A n \in Accepted : InSystem(n) \/ fates[n] # {}

\* So are those of the ends: a worker loads them with the rows.
EndsShape ==
    /\ ends \in [TraceIds -> Versions \cup {0}] /\ firsts \in [TraceIds -> Versions \cup {0}]
    /\ seenEnds \in [Procs -> Seq(Versions \cup {0})]
    /\ \A p \in Procs : Len(seenEnds[p]) = Len(seen[p])

\* A batch that was not accepted yet has met no fate.
FatesAwait == \A n \in 1..MaxIngests : n > Len(batches) => fates[n] = {}

\* A worker that reads has a trace left to read, one that commits has none,
\* and one without a batch has read nothing.
Reads ==
    \A p \in Procs :
        /\ wpc[p] = "read" => Len(seen[p]) < Len(batches[cur[p]])
        /\ wpc[p] = "commit" => Len(seen[p]) = Len(batches[cur[p]])
        /\ cur[p] = NoBatch => seen[p] = <<>>

\* A row a worker loaded is still there unless its trace was deleted.
SeenStays ==
    \A p \in Procs : \A i \in DOMAIN seen[p] :
        LET x == batches[cur[p]][i].id IN
        seen[p][i] # 0 => rows[x] # 0 \/ x \in deleted

\* What a lone worker loaded is what the row is, unless the trace was deleted.
SeenCurrent ==
    Alone => \A p \in Procs : \A i \in DOMAIN seen[p] :
        LET x == batches[cur[p]][i].id IN rows[x] \in {0, seen[p][i]}

Committed(n) == "committed" \in fates[n]

\* Nor does the end it loaded differ from the row's.
EndsCurrent ==
    Alone => \A p \in Procs : \A i \in DOMAIN seenEnds[p] :
        LET x == batches[cur[p]][i].id IN ends[x] = seenEnds[p][i] \/ x \in deleted

\* Before the first fault a process uses Redis or its memory queue, never
\* both, and goes on serving.
OneQueue ==
    faults = 0 => \A p \in Procs :
        /\ serving[p] /\ useRedis[p] = redisUp
        /\ wpc[p] = "pop" => useRedis[p]
        /\ IF redisUp THEN mem[p] = <<>> ELSE redis = <<>>

Rising(q) == \A i, j \in DOMAIN q : i < j => q[i] < q[j]

\* Before the first fault a lone worker takes the batches in their order.
InOrder ==
    Alone /\ faults = 0 => \A p \in Procs :
        /\ Rising(redis) /\ Rising(mem[p])
        /\ \A n \in Elements(redis) \cup Elements(mem[p]) :
              /\ cur[p] < n
              /\ \A m \in Accepted : Committed(m) => m < n
        /\ cur[p] # NoBatch => \A m \in Accepted : Committed(m) => m < cur[p]

IndInv ==
    /\ TypeOK /\ Shape /\ EndsShape /\ FatesAwait /\ Reads /\ SeenStays
    /\ NotForgotten /\ AllOrNothing

AloneInv ==
    /\ SeenCurrent /\ EndsCurrent /\ OneQueue /\ InOrder
    /\ NewestWins /\ EndsKept /\ FirstKept /\ ConflictsExplained

-----------------------------------------------------------------------------
(* What the model's operators return.                                      *)

\* A set of positions in a sequence has a first one and a last one.
LEMMA LastPosition ==
    ASSUME NEW n \in Nat, NEW T, T \subseteq 1..n, T # {}
    PROVE  \E m \in T : \A i \in T : i <= m
  <1> DEFINE After == [i \in T |-> {j \in T : i < j}]
             Rests == {After[i] : i \in T}
  <1>1. IsFiniteSet(1..n)
    BY FS_Interval
  <1>2. Rests \subseteq FiniteSubsetsOf(1..n) /\ Rests # {}
    <2>1. \A i \in T : After[i] \in SUBSET (1..n)
      OBVIOUS
    <2>2. FiniteSubsetsOf(1..n) = SUBSET (1..n)
      BY <1>1, FS_FiniteSubsetsOfFinite
    <2>3. Rests \subseteq SUBSET (1..n)
      BY <2>1
    <2>4. Rests # {}
      OBVIOUS
    <2> HIDE DEF Rests
    <2> QED
      BY <2>2, <2>3, <2>4
  <1>3. PICK R \in Rests : \A U \in Rests : ~ (<<U, R>> \in StrictSubsetOrdering(1..n))
    BY <1>2, FS_StrictSubsetOrderingWellFounded, WFMin
  <1>4. PICK m \in T : R = After[m]
    BY <1>3
  <1>5. ASSUME NEW i \in T, ~(i <= m)
        PROVE  FALSE
    <2>0. m \in 1..n /\ i \in 1..n /\ \A j \in T : j \in Int
      OBVIOUS
    <2>1. i \in After[m] /\ i \notin After[i] /\ m \in 1..n /\ i \in 1..n /\ m < i
      BY <1>5, <2>0
    <2>2. After[i] \subseteq After[m]
      <3>1. \A j \in T : i < j => m < j
        BY <2>0, <2>1
      <3> QED
        BY <3>1
    <2>3. After[i] \in SUBSET (1..n) /\ After[m] \in SUBSET (1..n)
      OBVIOUS
    <2>4. After[i] # After[m]
      BY <2>1
    <2>5. <<After[i], After[m]>> \in StrictSubsetOrdering(1..n)
      <3> HIDE DEF After
      <3> QED
        BY <2>2, <2>3, <2>4 DEF StrictSubsetOrdering
    <2> QED
      BY <1>3, <1>4, <2>5
  <1> QED
    BY <1>5

\* A set of positions has a least one; with it a proof may go to the first
\* position where something holds, which stands for an induction.
LEMMA FirstPosition ==
    ASSUME NEW n \in Nat, NEW T, T \subseteq 1..n, T # {}
    PROVE  \E m \in T : \A i \in T : m <= i
  <1> DEFINE U == {n + 1 - i : i \in T}
  <1>1. U \subseteq 1..n /\ U # {}
    OBVIOUS
  <1>2. PICK u \in U : \A i \in U : i <= u
    BY <1>1, LastPosition
  <1>3. PICK m \in T : u = n + 1 - m
    BY <1>2
  <1>4. \A i \in T : n + 1 - i <= n + 1 - m
    BY <1>2, <1>3
  <1> QED
    BY <1>4

\* A batch is a sequence of snapshots, and not an empty one.
LEMMA BatchIsSeq ==
    ASSUME NEW b \in Batches
    PROVE  /\ b \in Seq([id : TraceIds, ver : Versions, ended : BOOLEAN]) /\ b # <<>>
           /\ Len(b) \in Nat \ {0} /\ DOMAIN b = 1..Len(b)
           /\ \A i \in DOMAIN b : /\ b[i] \in [id : TraceIds, ver : Versions, ended : BOOLEAN]
                                  /\ b[i].id \in TraceIds /\ b[i].ver \in Versions
  <1> DEFINE S == [id : TraceIds, ver : Versions, ended : BOOLEAN]
  <1>1. b \in Seq(S) /\ b # <<>>
    BY PipelineAssumption
  <1>2. Len(b) \in Nat \ {0} /\ DOMAIN b = 1..Len(b) /\ \A i \in DOMAIN b : b[i] \in S
    <2> HIDE DEF S
    <2> QED
      BY <1>1
  <1> QED
    BY <1>1, <1>2

\* The last snapshot of a trace in a batch is one of its snapshots.
LEMMA LastIsThere ==
    ASSUME NEW b \in Batches, NEW x, \E i \in DOMAIN b : b[i].id = x
    PROVE  LET last == CHOOSE i \in DOMAIN b :
                   b[i].id = x /\ \A j \in DOMAIN b : b[j].id = x => j <= i
           IN  /\ last \in DOMAIN b /\ b[last].id = x /\ b[last].ver \in Versions
               /\ \A j \in DOMAIN b : b[j].id = x => j <= last
               /\ x \in TraceIds
  <1>1. b \in Seq([id : TraceIds, ver : Versions, ended : BOOLEAN]) /\ Len(b) \in Nat /\ DOMAIN b = 1..Len(b)
    BY BatchIsSeq
  <1> DEFINE T == {i \in DOMAIN b : b[i].id = x}
             last == CHOOSE i \in DOMAIN b :
                   b[i].id = x /\ \A j \in DOMAIN b : b[j].id = x => j <= i
  <1>2. \E i \in DOMAIN b : b[i].id = x /\ \A j \in DOMAIN b : b[j].id = x => j <= i
    <2>1. \E m \in T : \A i \in T : i <= m
      <3>1. T # {} /\ T \subseteq 1..Len(b)
        BY <1>1
      <3> QED
        BY <1>1, <3>1, LastPosition
    <2> QED
      BY <2>1
  <1>3. last \in DOMAIN b /\ b[last].id = x /\ \A j \in DOMAIN b : b[j].id = x => j <= last
    BY <1>2
  <1>4. b[last].id \in TraceIds /\ b[last].ver \in Versions
    BY <1>3, BatchIsSeq
  <1> HIDE DEF last
  <1> QED
    BY <1>3, <1>4 DEF last

\* LastVersion returns a snapshot of the batch.
LEMMA LastVersionType ==
    ASSUME TypeOK, NEW n \in Accepted, NEW x \in Ids(n)
    PROVE  /\ LastVersion(n, x) \in Versions /\ LastVersion(n, x) # 0 /\ x \in TraceIds
           /\ Has(n, x, LastVersion(n, x))
  <1>1. batches[n] \in Batches /\ \E i \in DOMAIN batches[n] : batches[n][i].id = x
    BY DEF TypeOK, Accepted, Ids
  <1>2. 0 \notin Versions
    BY PipelineAssumption
  <1> DEFINE b == batches[n]
             last == CHOOSE i \in DOMAIN b :
                         b[i].id = x /\ \A j \in DOMAIN b : b[j].id = x => j <= i
  <1>3. /\ b[last].ver \in Versions /\ x \in TraceIds
        /\ \E i \in DOMAIN b : b[i].id = x /\ b[i].ver = b[last].ver
    <2>1. b \in Batches /\ \E i \in DOMAIN b : b[i].id = x
      BY <1>1
    <2>2. last \in DOMAIN b /\ b[last].id = x /\ b[last].ver \in Versions /\ x \in TraceIds
      <3> HIDE DEF b
      <3> QED
        BY <2>1, LastIsThere
    <2> HIDE DEF b, last
    <2> QED
      BY <2>2
  <1>4. LastVersion(n, x) = b[last].ver
    BY DEF LastVersion
  <1> HIDE DEF last
  <1> QED
    BY <1>2, <1>3, <1>4 DEF Has

\* A worker loads a trace's row at the first of its snapshots in the batch.
LEMMA LoadedFirst ==
    ASSUME TypeOK, NEW p \in Procs, cur[p] # NoBatch, NEW x \in Ids(cur[p])
    PROVE  \E i \in DOMAIN batches[cur[p]] :
              /\ batches[cur[p]][i].id = x /\ Loaded(p, x) = seen[p][i]
              /\ LoadedEnd(p, x) = seenEnds[p][i]
  <1> DEFINE b == batches[cur[p]]
             T == {i \in DOMAIN b : b[i].id = x}
             first == CHOOSE i \in DOMAIN b :
                        b[i].id = x /\ \A j \in DOMAIN b : b[j].id = x => i <= j
  <1>1. cur[p] \in Accepted /\ b \in Batches
    BY DEF TypeOK, Accepted, NoBatch
  <1>2. b \in Seq([id : TraceIds, ver : Versions, ended : BOOLEAN]) /\ Len(b) \in Nat /\ DOMAIN b = 1..Len(b)
    BY <1>1, BatchIsSeq
  <1>3. T # {} /\ T \subseteq 1..Len(b)
    BY <1>1, <1>2 DEF Ids
  <1>4. \E i \in DOMAIN b : b[i].id = x /\ \A j \in DOMAIN b : b[j].id = x => i <= j
    <2>1. \E m \in T : \A i \in T : m <= i
      BY <1>2, <1>3, FirstPosition
    <2> QED
      BY <2>1
  <1>5. first \in DOMAIN b /\ b[first].id = x
    BY <1>4
  <1>6. Loaded(p, x) = seen[p][first] /\ LoadedEnd(p, x) = seenEnds[p][first]
    BY DEF Loaded, LoadedEnd, FirstLookup
  <1> QED
    BY <1>5, <1>6

-----------------------------------------------------------------------------
(* Every step preserves the types.                                         *)

WorkerPC == {"loop", "pop", "mem", "read", "commit", "dead"}

\* A new process in the place of another.
Replaced(p) == Crash(p) \/ Redeploy(p)

\* A step, by kind.
LEMMA StepKinds ==
    ASSUME Next
    PROVE  \/ \E p \in ApiProcs :
                 \/ \E b \in Batches : Ingest(p, b)
                 \/ PurgeFind(p) \/ PurgeDelete(p) \/ Stop(p) \/ StartAgain(p)
                 \/ \E ids \in SUBSET TraceIds : DeleteTraces(p, ids)
           \/ \E p \in Procs :
                 \/ Loop(p) \/ Pop(p) \/ PopFails(p) \/ MemGet(p)
                 \/ ReadTrace(p) \/ Commit(p) \/ RollBack(p)
                 \/ Replaced(p)
           \/ RedisFails \/ RedisReturns
  <1>1. ApiProcs \subseteq Procs
    BY PipelineAssumption
  <1> QED
    BY <1>1 DEF Next, ApiNext, WorkerNext, Replaced

\* The types as one assumption, function by function.
LEMMA Types ==
    ASSUME TypeOK, Shape
    PROVE  /\ batches \in Seq(Batches) /\ Len(batches) \in Nat /\ Len(batches) <= MaxIngests
           /\ MaxIngests \in Nat /\ Accepted \subseteq 1..MaxIngests /\ 0 \notin Accepted
           /\ DOMAIN batches = Accepted /\ \A n \in Accepted : batches[n] \in Batches
           /\ redis \in Seq(Accepted) /\ wpc \in [Procs -> WorkerPC]
           /\ \A p \in Procs : cur[p] # 0 <=> wpc[p] \in {"read", "commit"}
           /\ \A p \in Procs : cur[p] # 0 => cur[p] \in Accepted /\ batches[cur[p]] \in Batches
           /\ \A p \in ApiProcs : p \in Procs
           /\ 0 \notin Versions
  BY PipelineAssumption DEF TypeOK, Shape, Accepted, WorkerPC, NoBatch

\* The batches accepted so far stay as they are.
LEMMA BatchesKept ==
    ASSUME TypeOK, Shape, [Next]_vars
    PROVE  /\ \/ batches' = batches
              \/ /\ \E b \in Batches : batches' = Append(batches, b)
                 /\ Len(batches) + 1 <= MaxIngests
                 /\ \E p \in ApiProcs : \E b \in Batches : Ingest(p, b)
           /\ batches' \in Seq(Batches) /\ Len(batches') <= MaxIngests
           /\ Accepted \subseteq Accepted'
           /\ \A n \in Accepted : batches'[n] = batches[n] /\ Ids(n)' = Ids(n)
           /\ \A n \in Accepted' : n \in Accepted \/ n = Len(batches) + 1
  <1>1. ASSUME NEW p \in ApiProcs, NEW b \in Batches, Ingest(p, b)
        PROVE  batches' = Append(batches, b) /\ Len(batches) + 1 <= MaxIngests
    BY <1>1 DEF Ingest
  <1>2. \/ \E p \in ApiProcs : \E b \in Batches : Ingest(p, b)
        \/ batches' = batches
    BY StepKinds DEF PurgeFind, PurgeDelete, Stop, StartAgain, DeleteTraces, Loop, Pop, PopFails,
       MemGet, ReadTrace, Commit, RollBack, Done, Replaced, Crash, Redeploy, NewProcess, RedisFails, RedisReturns, vars
  <1>3. \/ batches' = batches
        \/ /\ \E b \in Batches : batches' = Append(batches, b)
           /\ Len(batches) + 1 <= MaxIngests
           /\ \E p \in ApiProcs : \E b \in Batches : Ingest(p, b)
    BY <1>1, <1>2
  <1>4. /\ batches' \in Seq(Batches) /\ Len(batches') <= MaxIngests
        /\ Accepted \subseteq Accepted'
        /\ \A n \in Accepted : batches'[n] = batches[n]
        /\ \A n \in Accepted' : n \in Accepted \/ n = Len(batches) + 1
    <2>1. batches \in Seq(Batches) /\ Len(batches) \in Nat /\ Len(batches) <= MaxIngests
      BY Types
    <2>2. CASE batches' = batches
      BY <2>1, <2>2 DEF Accepted
    <2>3. ASSUME NEW b \in Batches, batches' = Append(batches, b), Len(batches) + 1 <= MaxIngests
          PROVE  /\ batches' \in Seq(Batches) /\ Len(batches') <= MaxIngests
                 /\ Len(batches') = Len(batches) + 1
                 /\ \A n \in 1..Len(batches) : batches'[n] = batches[n]
      BY <2>1, <2>3, AppendProperties
    <2>4. CASE batches' # batches
      BY <1>3, <2>1, <2>3, <2>4 DEF Accepted
    <2> QED
      BY <2>2, <2>4
  <1>5. \A n \in Accepted : Ids(n)' = Ids(n)
    BY <1>4 DEF Ids
  <1> QED
    BY <1>3, <1>4, <1>5

\* What the queues held before they may hold after.
LEMMA SeqKept ==
    ASSUME TypeOK, Shape, [Next]_vars, NEW s \in Seq(Accepted)
    PROVE  s \in Seq(Accepted')
  BY BatchesKept, SeqMonotonic

\* The versions that FirstVersion and LastEnded return are versions of snapshots
\* of the batch.
LEMMA FirstVersionType ==
    ASSUME TypeOK, NEW n \in Accepted, NEW x \in Ids(n)
    PROVE  FirstVersion(n, x) \in Versions
  <1> DEFINE b == batches[n]
             T == {i \in DOMAIN b : b[i].id = x}
             first == CHOOSE i \in DOMAIN b : b[i].id = x /\ \A j \in DOMAIN b : b[j].id = x => i <= j
  <1>1. b \in Batches /\ T # {}
    BY DEF TypeOK, Accepted, Ids
  <1>2. Len(b) \in Nat /\ DOMAIN b = 1..Len(b)
    BY <1>1, BatchIsSeq
  <1>3. \E i \in DOMAIN b : b[i].id = x /\ \A j \in DOMAIN b : b[j].id = x => i <= j
    <2>1. \E m \in T : \A i \in T : m <= i
      BY <1>1, <1>2, FirstPosition
    <2> QED
      BY <2>1
  <1>4. first \in DOMAIN b
    BY <1>3
  <1>5. FirstVersion(n, x) = b[first].ver
    BY DEF FirstVersion
  <1> HIDE DEF first
  <1> QED
    BY <1>1, <1>4, <1>5, BatchIsSeq

\* What LastEnded returns is a version of a trace of the batch, or 0.
LEMMA LastEndedType ==
    ASSUME TypeOK, NEW n \in Accepted, NEW x
    PROVE  /\ LastEnded(n, x) \in Versions \cup {0}
           /\ LastEnded(n, x) # 0 => x \in Ids(n)
  <1> DEFINE b == batches[n]
             T == EndsIn(n, x)
             last == CHOOSE i \in T : \A j \in T : j <= i
  <1>1. b \in Batches
    BY DEF TypeOK, Accepted
  <1>2. Len(b) \in Nat /\ DOMAIN b = 1..Len(b) /\ T \subseteq DOMAIN b
    BY <1>1, BatchIsSeq DEF EndsIn
  <1>3. CASE T = {}
    BY <1>3 DEF LastEnded
  <1>4. CASE T # {}
    <2>1. \E i \in T : \A j \in T : j <= i
      <3> HIDE DEF T, b
      <3> QED
        BY <1>2, <1>4, LastPosition
    <2>2. last \in T
      BY <2>1
    <2>3. LastEnded(n, x) = b[last].ver
      BY <1>4 DEF LastEnded
    <2>4. last \in DOMAIN b /\ b[last].id = x
      BY <2>2 DEF EndsIn
    <2> HIDE DEF last
    <2> QED
      BY <1>1, <2>3, <2>4, BatchIsSeq DEF Ids
  <1> QED
    BY <1>3, <1>4

\* A worker loads an end with every row, and what it writes for an end or a
\* first snapshot is a version.
LEMMA EndsStep == IndInv /\ [Next]_vars => EndsShape'
  <1> SUFFICES ASSUME IndInv, [Next]_vars
               PROVE  EndsShape'
    OBVIOUS
  <1> USE DEF environment, control
  <1>1. /\ TypeOK /\ Shape /\ EndsShape /\ Reads
        /\ seen \in [Procs -> Seq(Versions \cup {0})]
        /\ seenEnds \in [Procs -> Seq(Versions \cup {0})]
        /\ ends \in [TraceIds -> Versions \cup {0}] /\ firsts \in [TraceIds -> Versions \cup {0}]
        /\ \A p \in Procs : Len(seenEnds[p]) = Len(seen[p])
    BY DEF IndInv, EndsShape, Shape
  <1> DEFINE Stored == /\ ends' \in [TraceIds -> Versions \cup {0}]
                       /\ firsts' \in [TraceIds -> Versions \cup {0}]
             Seen == /\ seenEnds' \in [Procs -> Seq(Versions \cup {0})]
                     /\ \A p \in Procs : Len(seenEnds'[p]) = Len(seen'[p])
             Emptied(p) == /\ seen' = [seen EXCEPT ![p] = <<>>]
                           /\ seenEnds' = [seenEnds EXCEPT ![p] = <<>>]
  <1>2. UNCHANGED <<ends, firsts>> => Stored
    BY <1>1
  <1>3. UNCHANGED <<seen, seenEnds>> => Seen
    BY <1>1
  <1>4. ASSUME NEW p \in Procs, Emptied(p)
        PROVE  Seen
    BY <1>1, <1>4
  <1>5. ASSUME NEW p \in ApiProcs, \/ \E b \in Batches : Ingest(p, b)
                                   \/ PurgeFind(p) \/ Stop(p) \/ StartAgain(p)
        PROVE  Stored /\ Seen
    <2>1. UNCHANGED <<ends, firsts, seen, seenEnds>>
      BY <1>5 DEF Ingest, PurgeFind, Stop, StartAgain
    <2> QED
      BY <1>2, <1>3, <2>1
  <1>6. ASSUME NEW p \in ApiProcs, PurgeDelete(p) \/ \E ids \in SUBSET TraceIds : DeleteTraces(p, ids)
        PROVE  Stored /\ Seen
    <2>1. UNCHANGED <<seen, seenEnds>> /\ \E ids : TakeOut(ids)
      BY <1>6 DEF PurgeDelete, DeleteTraces
    <2> QED
      BY <1>1, <1>3, <2>1
  <1>7. ASSUME NEW p \in Procs, Loop(p) \/ Pop(p) \/ PopFails(p) \/ MemGet(p) \/ RollBack(p)
        PROVE  Stored /\ Seen
    <2>1. UNCHANGED <<ends, firsts>> /\ (UNCHANGED <<seen, seenEnds>> \/ Emptied(p))
      BY <1>7 DEF Loop, Pop, PopFails, MemGet, RollBack, Done, Takes
    <2> QED
      BY <1>2, <1>3, <1>4, <2>1
  <1>8. ASSUME NEW p \in Procs, Replaced(p)
        PROVE  Stored /\ Seen
    <2>1. UNCHANGED <<ends, firsts>> /\ Emptied(p)
      BY <1>8 DEF Replaced, Crash, Redeploy, NewProcess
    <2> QED
      BY <1>2, <1>4, <2>1
  <1>9. ASSUME NEW p \in Procs, ReadTrace(p)
        PROVE  Stored /\ Seen
    <2> DEFINE b == batches[cur[p]]
               k == Len(seen[p]) + 1
               s == Append(seen[p], rows[b[k].id])
               t == Append(seenEnds[p], ends[b[k].id])
    <2>1. /\ wpc[p] = "read" /\ seen' = [seen EXCEPT ![p] = s]
          /\ seenEnds' = [seenEnds EXCEPT ![p] = t] /\ UNCHANGED <<ends, firsts>>
      BY <1>9 DEF ReadTrace
    <2>2. /\ b \in Batches /\ Len(seen[p]) < Len(b) /\ Len(seen[p]) \in Nat
      BY <1>1, <2>1, Types DEF Reads
    <2>3. k \in DOMAIN b /\ b[k].id \in TraceIds
      BY <2>2, BatchIsSeq
    <2>4. rows[b[k].id] \in Versions \cup {0} /\ ends[b[k].id] \in Versions \cup {0}
      BY <1>1, <2>3 DEF TypeOK
    <2>5. t \in Seq(Versions \cup {0}) /\ Len(t) = Len(s)
      BY <1>1, <2>4, AppendProperties
    <2> HIDE DEF s, t
    <2> QED
      BY <1>1, <1>2, <2>1, <2>5
  <1>10. ASSUME NEW p \in Procs, Commit(p)
         PROVE  Stored /\ Seen
    <2>1. cur[p] \in Accepted
      BY <1>1, <1>10, Types DEF Commit, Done
    <2>2. \A x \in Ids(cur[p]) : FirstVersion(cur[p], x) \in Versions
      BY <1>1, <2>1, FirstVersionType
    <2>3. \A x \in Ids(cur[p]) : LastEnded(cur[p], x) \in Versions \cup {0}
      BY <1>1, <2>1, LastEndedType
    <2>4. Stored
      BY <1>1, <1>10, <2>2, <2>3 DEF Commit
    <2>5. Emptied(p)
      BY <1>10 DEF Commit, Done
    <2> QED
      BY <1>4, <2>4, <2>5
  <1>11. ASSUME RedisFails \/ RedisReturns \/ UNCHANGED vars
         PROVE  Stored /\ Seen
    <2>1. UNCHANGED <<ends, firsts, seen, seenEnds>>
      BY <1>11 DEF RedisFails, RedisReturns, vars
    <2> QED
      BY <1>2, <1>3, <2>1
  <1>12. Stored /\ Seen
    <2> DEFINE Fine == Stored /\ Seen
    <2>1. \A p \in ApiProcs : ((\E b \in Batches : Ingest(p, b)) \/ PurgeFind(p) \/ Stop(p)
                                 \/ StartAgain(p)) => Fine
      BY <1>5
    <2>2. \A p \in ApiProcs : (PurgeDelete(p) \/ \E ids \in SUBSET TraceIds : DeleteTraces(p, ids)) => Fine
      BY <1>6
    <2>3. \A p \in Procs : (Loop(p) \/ Pop(p) \/ PopFails(p) \/ MemGet(p) \/ RollBack(p)
                              \/ Replaced(p) \/ ReadTrace(p) \/ Commit(p)) => Fine
      BY <1>7, <1>8, <1>9, <1>10
    <2> HIDE DEF Fine
    <2> QED
      <3>1. CASE UNCHANGED vars
        BY <1>11, <3>1
      <3>2. CASE Next
        BY <1>11, <2>1, <2>2, <2>3, <3>2, StepKinds DEF Fine
      <3> QED
        BY <3>1, <3>2
  <1> QED
    BY <1>12 DEF EndsShape

\* Every step preserves the types, and what a process's program counter says of
\* its hands.
LEMMA TypeStep == IndInv /\ [Next]_vars => TypeOK' /\ Shape'
  <1> SUFFICES ASSUME IndInv, [Next]_vars
               PROVE  TypeOK' /\ Shape'
    OBVIOUS
  <1> USE DEF environment, control
  <1>1. TypeOK /\ Shape /\ Reads
    BY DEF IndInv
  <1> DEFINE B1 == batches' \in Seq(Batches) /\ Len(batches') <= MaxIngests
             Tables == /\ cache' \in [Procs -> [TraceIds -> Versions \cup {0}]]
                       /\ rows' \in [TraceIds -> Versions \cup {0}]
                       /\ purging' \in [ApiProcs -> [purge : BOOLEAN, ids : SUBSET TraceIds]]
                       /\ purged' \subseteq deleted' /\ deleted' \subseteq TraceIds
             Queues == /\ redisUp' \in BOOLEAN /\ redis' \in Seq(Accepted')
                       /\ useRedis' \in [Procs -> BOOLEAN]
                       /\ mem' \in [Procs -> Seq(Accepted')]
                       /\ \A p \in Procs : Len(mem'[p]) <= MemQueueSize
             History == fates' \in [1..MaxIngests -> SUBSET Fates] /\ faults' \in Nat
             Workers == /\ serving' \in [Procs -> BOOLEAN] /\ stopped' \in [Procs -> BOOLEAN]
                        /\ wpc' \in [Procs -> WorkerPC]
                        /\ cur' \in [Procs -> Accepted' \cup {NoBatch}]
                        /\ seen' \in [Procs -> Seq(Versions \cup {0})]
                        /\ \A p \in Procs :
                              /\ cur'[p] # NoBatch <=> wpc'[p] \in {"read", "commit"}
                              /\ cur'[p] # NoBatch => Len(seen'[p]) <= Len(batches'[cur'[p]])
  <1>2. B1
    BY <1>1, BatchesKept
  <1>3. ASSUME Tables, Queues, History, Workers
        PROVE  TypeOK' /\ Shape'
    <2>1. \A p \in Procs : mem'[p] \in Seq(Accepted') /\ cur'[p] \in Accepted' \cup {NoBatch}
      BY <1>3
    <2>2. EndsShape'
      BY EndsStep
    <2> QED
      BY <1>2, <1>3, <2>1, <2>2 DEF TypeOK, Shape, EndsShape, WorkerPC
  <1>4. Tables
    <2>0. /\ cache \in [Procs -> [TraceIds -> Versions \cup {0}]]
          /\ rows \in [TraceIds -> Versions \cup {0}]
          /\ purging \in [ApiProcs -> [purge : BOOLEAN, ids : SUBSET TraceIds]]
          /\ purged \subseteq deleted /\ deleted \subseteq TraceIds
      BY <1>1 DEF TypeOK
    <2>1. ASSUME NEW p \in ApiProcs, NEW b \in Batches, Ingest(p, b)
          PROVE  Tables
      <3> DEFINE last(x) == CHOOSE i \in DOMAIN b :
                              b[i].id = x /\ \A j \in DOMAIN b : b[j].id = x => j <= i
                 new == [x \in TraceIds |-> IF \E i \in DOMAIN b : b[i].id = x
                                              THEN b[last(x)].ver ELSE cache[p][x]]
      <3>1. p \in Procs
        BY <1>1, Types
      <3>2. new \in [TraceIds -> Versions \cup {0}]
        <4>1. \A x \in TraceIds : (\E i \in DOMAIN b : b[i].id = x) => b[last(x)].ver \in Versions
          BY LastIsThere, ZenonT(60)
        <4>2. cache[p] \in [TraceIds -> Versions \cup {0}]
          BY <2>0, <3>1
        <4> HIDE DEF last
        <4> QED
          BY <4>1, <4>2
      <3>3. cache' = [cache EXCEPT ![p] = new]
        BY <2>1 DEF Ingest
      <3>4. UNCHANGED <<rows, purging, deleted>> /\ purged' \subseteq purged
        BY <2>1 DEF Ingest
      <3> HIDE DEF new
      <3> QED
        BY <2>0, <3>1, <3>2, <3>3, <3>4
    <2>2. ASSUME NEW p \in ApiProcs, \/ PurgeFind(p) \/ PurgeDelete(p) \/ Stop(p) \/ StartAgain(p)
                                     \/ \E ids \in SUBSET TraceIds : DeleteTraces(p, ids)
          PROVE  Tables
      <3>1. CASE PurgeFind(p)
        BY <2>0, <3>1 DEF PurgeFind
      <3>2. CASE PurgeDelete(p)
        BY <2>0, <3>2 DEF PurgeDelete, NoPurge
      <3>3. CASE \E ids \in SUBSET TraceIds : DeleteTraces(p, ids)
        BY <2>0, <3>3 DEF DeleteTraces
      <3>4. CASE Stop(p) \/ StartAgain(p)
        BY <2>0, <3>4 DEF Stop, StartAgain
      <3> QED
        BY <2>2, <3>1, <3>2, <3>3, <3>4
    <2>3. ASSUME NEW p \in Procs, \/ Loop(p) \/ Pop(p) \/ PopFails(p) \/ MemGet(p)
                                  \/ ReadTrace(p) \/ RollBack(p)
          PROVE  Tables
      BY <2>0, <2>3 DEF Loop, Pop, PopFails, MemGet, ReadTrace, RollBack, Done
    <2>4. ASSUME NEW p \in Procs, Commit(p)
          PROVE  Tables
      <3>1. \A x \in Ids(cur[p]) : LastVersion(cur[p], x) \in Versions
        BY <1>1, <2>4, Types, LastVersionType DEF Commit, Done
      <3> QED
        BY <2>0, <2>4, <3>1 DEF Commit, Done
    <2>5. ASSUME NEW p \in Procs, Replaced(p)
          PROVE  Tables
      <3>1. /\ cache' = [cache EXCEPT ![p] = NoTraces]
            /\ purging' = [q \in ApiProcs |-> IF q = p THEN NoPurge ELSE purging[q]]
            /\ UNCHANGED <<rows, purged, deleted>>
        BY <2>5 DEF Replaced, Crash, Redeploy, NewProcess
      <3>2. NoTraces \in [TraceIds -> Versions \cup {0}]
        BY DEF NoTraces
      <3>3. NoPurge \in [purge : BOOLEAN, ids : SUBSET TraceIds]
        BY DEF NoPurge
      <3> QED
        BY <2>0, <3>1, <3>2, <3>3
    <2>6. CASE RedisFails \/ RedisReturns \/ UNCHANGED vars
      BY <2>0, <2>6 DEF RedisFails, RedisReturns, vars
    <2> QED
      BY <2>1, <2>2, <2>3, <2>4, <2>5, <2>6, StepKinds
  <1>5. Queues
    <2>0. /\ redisUp \in BOOLEAN /\ redis \in Seq(Accepted')
          /\ useRedis \in [Procs -> BOOLEAN]
          /\ mem \in [Procs -> Seq(Accepted')]
          /\ \A p \in Procs : Len(mem[p]) <= MemQueueSize
          /\ MemQueueSize \in Nat
      BY <1>1, SeqKept, PipelineAssumption DEF TypeOK, Shape
    <2> DEFINE Kept == /\ redisUp' \in BOOLEAN
                       /\ redis' = redis \/ (redis # <<>> /\ redis' = Tail(redis))
                       /\ \/ useRedis' = useRedis
                          \/ \E p \in Procs, u \in BOOLEAN : useRedis' = [useRedis EXCEPT ![p] = u]
                       /\ \/ mem' = mem
                          \/ \E p \in Procs : mem' = [mem EXCEPT ![p] = <<>>]
                          \/ \E p \in Procs : mem[p] # <<>> /\ mem' = [mem EXCEPT ![p] = Tail(@)]
    <2>1. ASSUME Kept
          PROVE  Queues
      <3>1. redis' \in Seq(Accepted')
        BY <2>0, <2>1, HeadTailProperties, SMTT(30)
      <3>2. useRedis' \in [Procs -> BOOLEAN]
        BY <2>0, <2>1
      <3>3. \A p \in Procs : mem[p] # <<>> =>
               Tail(mem[p]) \in Seq(Accepted') /\ Len(Tail(mem[p])) <= MemQueueSize
        BY <2>0, HeadTailProperties
      <3>4. <<>> \in Seq(Accepted') /\ Len(<<>>) <= MemQueueSize
        BY <2>0
      <3>5. mem' \in [Procs -> Seq(Accepted')] /\ \A p \in Procs : Len(mem'[p]) <= MemQueueSize
        BY <2>0, <2>1, <3>3, <3>4
      <3> QED
        BY <2>1, <3>1, <3>2, <3>5
    <2>2. ASSUME NEW p \in ApiProcs, NEW b \in Batches, Ingest(p, b)
          PROVE  Queues
      <3> DEFINE n == Len(batches) + 1
      <3>1. n \in Accepted' /\ p \in Procs
        BY <1>1, <2>2, Types DEF Ingest, Accepted
      <3>2. /\ redis' = redis \/ redis' = Append(redis, n)
            /\ useRedis' = useRedis \/ useRedis' = [useRedis EXCEPT ![p] = FALSE]
            /\ \/ mem' = mem
               \/ Len(mem[p]) < MemQueueSize /\ mem' = [mem EXCEPT ![p] = Append(@, n)]
            /\ redisUp' = redisUp
        BY <2>2 DEF Ingest, PushRedis, PushFails, PutMemory
      <3> HIDE DEF n
      <3>3. redis' \in Seq(Accepted')
        <4>1. Append(redis, n) \in Seq(Accepted')
          BY <2>0, <3>1, AppendProperties
        <4> QED
          BY <2>0, <3>2, <4>1
      <3>4. Append(mem[p], n) \in Seq(Accepted') /\ Len(Append(mem[p], n)) = Len(mem[p]) + 1
        BY <2>0, <3>1, AppendProperties
      <3>5. mem' \in [Procs -> Seq(Accepted')] /\ \A q \in Procs : Len(mem'[q]) <= MemQueueSize
        <4>1. Len(mem[p]) \in Nat
          BY <2>0, <3>1
        <4>2. CASE mem' = mem
          BY <2>0, <4>2
        <4>3. CASE Len(mem[p]) < MemQueueSize /\ mem' = [mem EXCEPT ![p] = Append(mem[p], n)]
          <5>1. Len(Append(mem[p], n)) <= MemQueueSize
            BY <2>0, <3>4, <4>1, <4>3
          <5> DEFINE longer == Append(mem[p], n)
          <5>2. longer \in Seq(Accepted') /\ Len(longer) <= MemQueueSize
            BY <3>4, <5>1
          <5>3. mem' = [mem EXCEPT ![p] = longer]
            BY <4>3
          <5> HIDE DEF longer
          <5> QED
            BY <2>0, <3>1, <5>2, <5>3
        <4> QED
          BY <3>2, <4>2, <4>3
      <3> QED
        BY <2>0, <3>1, <3>2, <3>3, <3>5
    <2>3. ASSUME NEW p \in ApiProcs, \/ PurgeFind(p) \/ PurgeDelete(p) \/ Stop(p) \/ StartAgain(p)
                                     \/ \E ids \in SUBSET TraceIds : DeleteTraces(p, ids)
          PROVE  Kept
      BY <2>0, <2>3 DEF PurgeFind, PurgeDelete, Stop, StartAgain, DeleteTraces
    <2>4. ASSUME NEW p \in Procs, Loop(p) \/ ReadTrace(p) \/ Commit(p) \/ RollBack(p)
          PROVE  Kept
      BY <2>0, <2>4 DEF Loop, ReadTrace, Commit, RollBack, Done
    <2>5. ASSUME NEW p \in Procs, Pop(p)
          PROVE  Kept
      BY <2>0, <2>5 DEF Pop
    <2>6. ASSUME NEW p \in Procs, PopFails(p)
          PROVE  Kept
      BY <2>0, <2>6 DEF PopFails
    <2>7. ASSUME NEW p \in Procs, MemGet(p)
          PROVE  Kept
      BY <2>0, <2>7 DEF MemGet
    <2>8. ASSUME NEW p \in Procs, Replaced(p)
          PROVE  Kept
      BY <2>0, <2>8 DEF Replaced, Crash, Redeploy, NewProcess
    <2>9. CASE RedisFails \/ RedisReturns \/ UNCHANGED vars
      BY <2>0, <2>9 DEF RedisFails, RedisReturns, vars
    <2> QED
      BY <2>1, <2>2, <2>3, <2>4, <2>5, <2>6, <2>7, <2>8, <2>9, StepKinds
  <1>6. History
    <2>0. /\ fates \in [1..MaxIngests -> SUBSET Fates] /\ faults \in Nat
          /\ Accepted \subseteq 1..MaxIngests /\ MaxIngests \in Nat
      BY <1>1, Types DEF Shape
    <2> DEFINE Met == \/ fates' = fates
                      \/ \E n \in 1..MaxIngests, fate \in Fates : MeetsFate(n, fate)
               Counted == faults' = faults \/ Fault
    <2>1. ASSUME Met, Counted
          PROVE  History
      <3>1. faults' \in Nat
        BY <2>0, <2>1 DEF Fault
      <3>2. fates' \in [1..MaxIngests -> SUBSET Fates]
        BY <2>0, <2>1 DEF MeetsFate
      <3> QED
        BY <3>1, <3>2
    <2>2. ASSUME NEW p \in ApiProcs, NEW b \in Batches, Ingest(p, b)
          PROVE  Met /\ Counted
      <3>1. Len(batches) + 1 \in 1..MaxIngests
        BY <1>1, <2>2, Types DEF Ingest
      <3>2. fates' = fates \/ MeetsFate(Len(batches) + 1, "queueFull")
        BY <2>2 DEF Ingest, PushRedis, PushFails, PutMemory
      <3>3. Counted
        BY <2>2 DEF Ingest, Fault
      <3> QED
        BY <3>1, <3>2, <3>3 DEF Fates
    <2>3. ASSUME NEW p \in ApiProcs, \/ PurgeFind(p) \/ PurgeDelete(p) \/ Stop(p) \/ StartAgain(p)
                                     \/ \E ids \in SUBSET TraceIds : DeleteTraces(p, ids)
          PROVE  Met /\ Counted
      BY <2>3 DEF PurgeFind, PurgeDelete, Stop, StartAgain, DeleteTraces
    <2>4. ASSUME NEW p \in Procs, Loop(p) \/ Pop(p) \/ MemGet(p) \/ ReadTrace(p)
          PROVE  Met /\ Counted
      BY <2>4 DEF Loop, Pop, MemGet, ReadTrace
    <2>5. ASSUME NEW p \in Procs, PopFails(p)
          PROVE  Met /\ Counted
      <3>1. redis # <<>> => Head(redis) \in 1..MaxIngests
        BY <1>1, <2>0, Types, HeadTailProperties
      <3> QED
        BY <2>5, <3>1 DEF PopFails, Fates
    <2>6. ASSUME NEW p \in Procs, Commit(p) \/ RollBack(p)
          PROVE  Met /\ Counted
      <3>1. cur[p] \in 1..MaxIngests
        BY <1>1, <2>0, <2>6, Types DEF Commit, RollBack, Done
      <3> QED
        BY <2>6, <3>1 DEF Commit, RollBack, Fates
    <2>7. ASSUME NEW p \in Procs, Replaced(p)
          PROVE  History
      <3>1. \E fate \in Fates : fates' = [n \in 1..MaxIngests |->
                   IF n = cur[p] \/ \E i \in DOMAIN mem[p] : mem[p][i] = n
                     THEN fates[n] \cup {fate} ELSE fates[n]]
        BY <2>7 DEF Replaced, Crash, Redeploy, NewProcess, Fates
      <3>2. fates' \in [1..MaxIngests -> SUBSET Fates]
        BY <2>0, <3>1
      <3>3. faults' \in Nat
        BY <2>0, <2>7 DEF Replaced, Crash, Redeploy, Fault
      <3> QED
        BY <3>2, <3>3
    <2>8. ASSUME RedisFails \/ RedisReturns \/ UNCHANGED vars
          PROVE  Met /\ Counted
      BY <2>8 DEF RedisFails, RedisReturns, vars
    <2> QED
      BY <2>1, <2>2, <2>3, <2>4, <2>5, <2>6, <2>7, <2>8, StepKinds
  <1>7. Workers
    <2>0. /\ serving \in [Procs -> BOOLEAN] /\ stopped \in [Procs -> BOOLEAN]
          /\ wpc \in [Procs -> WorkerPC]
          /\ cur \in [Procs -> Accepted' \cup {NoBatch}]
          /\ seen \in [Procs -> Seq(Versions \cup {0})]
          /\ \A p \in Procs :
                /\ cur[p] # NoBatch <=> wpc[p] \in {"read", "commit"}
                /\ cur[p] # NoBatch => Len(seen[p]) <= Len(batches'[cur[p]])
          /\ 0 \notin Accepted' /\ NoBatch = 0
      <3>1. Accepted \subseteq Accepted' /\ \A n \in Accepted : batches'[n] = batches[n]
        BY <1>1, BatchesKept
      <3>2. 0 \notin Accepted' /\ NoBatch = 0
        BY DEF Accepted, NoBatch
      <3>3. \A p \in Procs :
                /\ cur[p] \in Accepted \cup {NoBatch}
                /\ cur[p] # NoBatch <=> wpc[p] \in {"read", "commit"}
                /\ cur[p] # NoBatch => Len(seen[p]) <= Len(batches[cur[p]])
        BY <1>1 DEF TypeOK
      <3>4. cur \in [Procs -> Accepted' \cup {NoBatch}]
        BY <1>1, <3>1 DEF Shape
      <3> QED
        BY <1>1, <3>1, <3>2, <3>3, <3>4 DEF TypeOK, Shape, WorkerPC
    <2> DEFINE One(p, w, c, s) ==
                  /\ wpc' = [wpc EXCEPT ![p] = w]
                  /\ cur' = [cur EXCEPT ![p] = c]
                  /\ seen' = [seen EXCEPT ![p] = s]
               Fits(w, c, s) ==
                  /\ w \in WorkerPC /\ c \in Accepted' \cup {NoBatch}
                  /\ s \in Seq(Versions \cup {0})
                  /\ c # NoBatch <=> w \in {"read", "commit"}
                  /\ c # NoBatch => Len(s) <= Len(batches'[c])
               Lives == serving' \in [Procs -> BOOLEAN] /\ stopped' \in [Procs -> BOOLEAN]
    <2>1. ASSUME NEW p \in Procs, NEW w, NEW c, NEW s, One(p, w, c, s), Fits(w, c, s), Lives
          PROVE  Workers
      BY <2>0, <2>1
    <2>2. ASSUME UNCHANGED <<wpc, cur, seen>>, Lives
          PROVE  Workers
      BY <2>0, <2>2
    <2>3. <<>> \in Seq(Versions \cup {0}) /\ Len(<<>>) = 0
          /\ \A n \in Accepted' : Len(batches'[n]) \in Nat
      BY <1>2, BatchIsSeq DEF Accepted
    <2>4. ASSUME NEW p \in Procs, NEW n \in Accepted', Takes(p, n), UNCHANGED <<serving, stopped>>
          PROVE  Workers
      <3>1. Fits("read", n, <<>>)
        BY <2>0, <2>3 DEF WorkerPC
      <3>2. One(p, "read", n, <<>>) /\ Lives
        BY <2>0, <2>4 DEF Takes
      <3> QED
        BY <2>1, <3>1, <3>2
    <2>5. ASSUME NEW p \in Procs, NEW w \in WorkerPC \ {"read", "commit"}, Lives,
                 wpc' = [wpc EXCEPT ![p] = w], UNCHANGED <<cur, seen>>,
                 wpc[p] \notin {"read", "commit"}
          PROVE  Workers
      BY <2>0, <2>5
    <2>6. ASSUME NEW p \in Procs, NEW w \in WorkerPC \ {"read", "commit"}, Lives,
                 One(p, w, NoBatch, <<>>)
          PROVE  Workers
      <3>1. Fits(w, NoBatch, <<>>)
        BY <2>0, <2>3
      <3> QED
        BY <2>1, <2>6, <3>1
    <2>7. ASSUME NEW p \in ApiProcs, NEW b \in Batches, Ingest(p, b)
          PROVE  Workers
      BY <2>0, <2>2, <2>7 DEF Ingest
    <2>8. ASSUME NEW p \in ApiProcs, \/ PurgeFind(p) \/ PurgeDelete(p) \/ Stop(p)
                                     \/ \E ids \in SUBSET TraceIds : DeleteTraces(p, ids)
          PROVE  Workers
      <3>1. Lives /\ UNCHANGED <<wpc, cur, seen>>
        BY <2>0, <2>8 DEF PurgeFind, PurgeDelete, Stop, DeleteTraces
      <3> QED
        BY <2>2, <3>1
    <2>9. ASSUME NEW p \in ApiProcs, StartAgain(p)
          PROVE  Workers
      <3>1. Lives /\ UNCHANGED <<cur, seen>> /\ p \in Procs
        BY <1>1, <2>0, <2>9, Types DEF StartAgain
      <3>2. CASE wpc[p] = "dead"
        <4>1. wpc' = [wpc EXCEPT ![p] = "loop"]
          BY <2>9, <3>2 DEF StartAgain
        <4> QED
          BY <2>5, <3>1, <3>2, <4>1 DEF WorkerPC
      <3>3. CASE wpc[p] # "dead"
        <4>1. wpc' = [wpc EXCEPT ![p] = wpc[p]]
          BY <2>9, <3>3 DEF StartAgain
        <4>2. wpc' = wpc
          BY <2>0, <4>1
        <4> QED
          BY <2>2, <3>1, <4>2
      <3> QED
        BY <3>2, <3>3
    <2>10. ASSUME NEW p \in Procs, Loop(p)
           PROVE  Workers
      <3>1. /\ Lives /\ wpc[p] = "loop" /\ UNCHANGED <<cur, seen>>
            /\ \E w \in {"dead", "pop", "mem"} : wpc' = [wpc EXCEPT ![p] = w]
        BY <2>0, <2>10 DEF Loop
      <3> QED
        BY <2>5, <3>1 DEF WorkerPC
    <2>11. ASSUME NEW p \in Procs, Pop(p)
           PROVE  Workers
      <3>1. Lives /\ wpc[p] = "pop" /\ UNCHANGED <<serving, stopped>>
        BY <2>0, <2>11 DEF Pop
      <3>2. CASE redis # <<>> /\ Takes(p, Head(redis))
        <4>1. Head(redis) \in Accepted'
          BY <1>1, <3>2, Types, BatchesKept, HeadTailProperties
        <4> QED
          BY <2>4, <3>1, <3>2, <4>1
      <3>3. CASE wpc' = [wpc EXCEPT ![p] = "mem"] /\ UNCHANGED <<cur, seen>>
        BY <2>5, <3>1, <3>3 DEF WorkerPC
      <3> QED
        BY <2>11, <3>2, <3>3 DEF Pop
    <2>12. ASSUME NEW p \in Procs, PopFails(p)
           PROVE  Workers
      <3>1. /\ Lives /\ wpc' = [wpc EXCEPT ![p] = "mem"] /\ wpc[p] = "pop" /\ UNCHANGED <<cur, seen>>
        BY <2>0, <2>12 DEF PopFails
      <3> QED
        BY <2>5, <3>1 DEF WorkerPC
    <2>13. ASSUME NEW p \in Procs, MemGet(p)
           PROVE  Workers
      <3>1. Lives /\ wpc[p] = "mem" /\ UNCHANGED <<serving, stopped>>
        BY <2>0, <2>13 DEF MemGet
      <3>2. CASE mem[p] # <<>> /\ Takes(p, Head(mem[p]))
        <4>1. Head(mem[p]) \in Accepted'
          BY <1>1, <3>2, BatchesKept, HeadTailProperties DEF Shape
        <4> QED
          BY <2>4, <3>1, <3>2, <4>1
      <3>3. CASE wpc' = [wpc EXCEPT ![p] = "loop"] /\ UNCHANGED <<cur, seen>>
        BY <2>5, <3>1, <3>3 DEF WorkerPC
      <3> QED
        BY <2>13, <3>2, <3>3 DEF MemGet
    <2>14. ASSUME NEW p \in Procs, ReadTrace(p)
           PROVE  Workers
      <3> DEFINE b == batches[cur[p]]
                 s == Append(seen[p], rows[b[Len(seen[p]) + 1].id])
                 w == IF Len(seen[p]) + 1 = Len(b) THEN "commit" ELSE "read"
      <3>1. /\ wpc[p] = "read" /\ seen' = [seen EXCEPT ![p] = s]
            /\ wpc' = [wpc EXCEPT ![p] = w] /\ cur' = cur /\ batches' = batches /\ Lives
        BY <2>0, <2>14 DEF ReadTrace
      <3>2. /\ cur[p] \in Accepted /\ b \in Batches /\ Len(seen[p]) < Len(b)
            /\ seen[p] \in Seq(Versions \cup {0}) /\ Len(seen[p]) \in Nat
        BY <1>1, <2>0, <3>1, Types DEF Reads
      <3>3. Len(b) \in Nat /\ b[Len(seen[p]) + 1].id \in TraceIds
        BY <3>2, BatchIsSeq
      <3>4. rows[b[Len(seen[p]) + 1].id] \in Versions \cup {0}
        BY <1>1, <3>3 DEF TypeOK
      <3>5. s \in Seq(Versions \cup {0}) /\ Len(s) = Len(seen[p]) + 1
        BY <3>2, <3>4, AppendProperties
      <3>6. Fits(w, cur[p], s)
        BY <1>1, <2>0, <3>1, <3>2, <3>3, <3>5, BatchesKept DEF WorkerPC
      <3>7. One(p, w, cur[p], s)
        BY <2>0, <3>1
      <3> HIDE DEF s, w
      <3> QED
        BY <2>1, <3>1, <3>6, <3>7
    <2>15. ASSUME NEW p \in Procs, Commit(p) \/ RollBack(p)
           PROVE  Workers
      <3>1. Lives /\ One(p, "loop", NoBatch, <<>>)
        BY <2>0, <2>15 DEF Commit, RollBack, Done
      <3> QED
        BY <2>6, <3>1 DEF WorkerPC
    <2>16. ASSUME NEW p \in Procs, Replaced(p)
           PROVE  Workers
      <3>1. Lives /\ One(p, "loop", NoBatch, <<>>)
        BY <2>0, <2>16 DEF Replaced, Crash, Redeploy, NewProcess
      <3> QED
        BY <2>6, <3>1 DEF WorkerPC
    <2>17. CASE RedisFails \/ RedisReturns \/ UNCHANGED vars
      <3>1. Lives /\ UNCHANGED <<wpc, cur, seen>>
        BY <2>0, <2>17 DEF RedisFails, RedisReturns, vars
      <3> QED
        BY <2>2, <3>1
    <2> QED
      BY <2>7, <2>8, <2>9, <2>10, <2>11, <2>12, <2>13, <2>14, <2>15, <2>16, <2>17, StepKinds
  <1> QED
    BY <1>3, <1>4, <1>5, <1>6, <1>7

-----------------------------------------------------------------------------
(* What only some steps touch.                                             *)

\* Fates are only added, and a batch that is not accepted yet gets one only
\* by being accepted.
LEMMA FatesGrow ==
    ASSUME IndInv, [Next]_vars
    PROVE  /\ \A n \in 1..MaxIngests : fates[n] \subseteq fates'[n]
           /\ \A n \in 1..MaxIngests : n \notin Accepted' => fates'[n] = fates[n]
           /\ \A n \in 1..MaxIngests : "committed" \in fates'[n] =>
                 \/ "committed" \in fates[n]
                 \/ \E p \in Procs : Commit(p) /\ cur[p] = n
           /\ \A n \in 1..MaxIngests : "conflict" \in fates'[n] =>
                 \/ "conflict" \in fates[n]
                 \/ \E p \in Procs : RollBack(p) /\ cur[p] = n /\ \E x \in Ids(n) : Conflict(p, x)
  <1>1. /\ TypeOK /\ Shape /\ fates \in [1..MaxIngests -> SUBSET Fates]
        /\ Accepted \subseteq 1..MaxIngests /\ Accepted \subseteq Accepted'
    BY Types, BatchesKept DEF IndInv, Shape
  <1> DEFINE Grows(c, k) ==
               \A n \in 1..MaxIngests :
                  /\ fates[n] \subseteq fates'[n]
                  /\ n \notin Accepted' => fates'[n] = fates[n]
                  /\ c \/ ("committed" \in fates'[n] => "committed" \in fates[n])
                  /\ k \/ ("conflict" \in fates'[n] => "conflict" \in fates[n])
  <1>2. UNCHANGED fates => Grows(FALSE, FALSE)
    OBVIOUS
  <1>3. ASSUME NEW m \in Accepted', m \in 1..MaxIngests,
               NEW fate \in Fates \ {"committed", "conflict"}, MeetsFate(m, fate)
        PROVE  Grows(FALSE, FALSE)
    BY <1>1, <1>3 DEF MeetsFate
  <1>4. ASSUME NEW p \in ApiProcs, NEW b \in Batches, Ingest(p, b)
        PROVE  Grows(FALSE, FALSE)
    <2>1. Len(batches) + 1 \in Accepted' /\ Len(batches) + 1 \in 1..MaxIngests
      BY <1>1, <1>4, Types DEF Ingest, Accepted
    <2>2. fates' = fates \/ MeetsFate(Len(batches) + 1, "queueFull")
      BY <1>4 DEF Ingest, PushRedis, PushFails, PutMemory
    <2> QED
      BY <1>2, <1>3, <2>1, <2>2 DEF Fates
  <1>5. ASSUME NEW p \in ApiProcs, \/ PurgeFind(p) \/ PurgeDelete(p) \/ Stop(p) \/ StartAgain(p)
                                   \/ \E ids \in SUBSET TraceIds : DeleteTraces(p, ids)
        PROVE  Grows(FALSE, FALSE)
    <2>1. UNCHANGED fates
      BY <1>5 DEF PurgeFind, PurgeDelete, Stop, StartAgain, DeleteTraces
    <2> QED
      BY <1>2, <2>1
  <1>6. ASSUME NEW p \in Procs, Loop(p) \/ Pop(p) \/ MemGet(p) \/ ReadTrace(p)
        PROVE  Grows(FALSE, FALSE)
    <2>1. UNCHANGED fates
      BY <1>6 DEF Loop, Pop, MemGet, ReadTrace
    <2> QED
      BY <1>2, <2>1
  <1>7. ASSUME NEW p \in Procs, PopFails(p)
        PROVE  Grows(FALSE, FALSE)
    <2>1. redis # <<>> => Head(redis) \in Accepted' /\ Head(redis) \in 1..MaxIngests
      BY <1>1, Types, HeadTailProperties
    <2>2. fates' = fates \/ (redis # <<>> /\ MeetsFate(Head(redis), "lostInPop"))
      BY <1>7 DEF PopFails
    <2> QED
      BY <1>2, <1>3, <2>1, <2>2 DEF Fates
  <1>8. ASSUME NEW p \in Procs, Commit(p)
        PROVE  /\ Grows(TRUE, FALSE)
               /\ \A n \in 1..MaxIngests \ {cur[p]} : fates'[n] = fates[n]
    <2>1. cur[p] \in Accepted' /\ cur[p] \in 1..MaxIngests
      BY <1>1, <1>8, Types DEF Commit, Done
    <2> QED
      BY <1>1, <1>8, <2>1 DEF Commit, MeetsFate
  <1>9. ASSUME NEW p \in Procs, RollBack(p)
        PROVE  /\ Grows(FALSE, TRUE)
               /\ \A n \in 1..MaxIngests : n # cur[p] => fates'[n] = fates[n]
               /\ \/ \E x \in Ids(cur[p]) : Conflict(p, x)
                  \/ \A n \in 1..MaxIngests : "conflict" \in fates'[n] => "conflict" \in fates[n]
    <2>1. cur[p] \in Accepted' /\ cur[p] \in 1..MaxIngests
      BY <1>1, <1>9, Types DEF RollBack, Done
    <2> QED
      <3>1. CASE MeetsFate(cur[p], "conflict") /\ \E x \in Ids(cur[p]) : Conflict(p, x)
        BY <1>1, <2>1, <3>1 DEF MeetsFate
      <3>2. CASE MeetsFate(cur[p], "dbError")
        BY <1>1, <2>1, <3>2 DEF MeetsFate
      <3>3. \/ MeetsFate(cur[p], "conflict") /\ \E x \in Ids(cur[p]) : Conflict(p, x)
            \/ MeetsFate(cur[p], "dbError")
        BY <1>9 DEF RollBack
      <3> QED
        BY <3>1, <3>2, <3>3
  <1>10. ASSUME NEW p \in Procs, Replaced(p)
         PROVE  Grows(FALSE, FALSE)
    <2>1. PICK fate \in {"crash", "exit"} : fates' = [n \in 1..MaxIngests |->
                   IF n = cur[p] \/ \E i \in DOMAIN mem[p] : mem[p][i] = n
                     THEN fates[n] \cup {fate} ELSE fates[n]]
      BY <1>10 DEF Replaced, Crash, Redeploy, NewProcess
    <2>2. \A n \in 1..MaxIngests :
             n = cur[p] \/ (\E i \in DOMAIN mem[p] : mem[p][i] = n) => n \in Accepted'
      <3>1. cur[p] \in Accepted \cup {0} /\ mem[p] \in Seq(Accepted)
        BY <1>1 DEF Shape, NoBatch
      <3>2. \A i \in DOMAIN mem[p] : mem[p][i] \in Accepted
        BY <3>1
      <3> QED
        BY <1>1, <3>1, <3>2
    <2>3. \A n \in 1..MaxIngests :
             \/ fates'[n] = fates[n]
             \/ n \in Accepted' /\ fates'[n] = fates[n] \cup {fate}
      BY <2>1, <2>2
    <2> QED
      BY <2>3
  <1>11. RedisFails \/ RedisReturns \/ UNCHANGED vars => Grows(FALSE, FALSE)
    BY <1>2 DEF RedisFails, RedisReturns, vars
  <1>12. \/ Grows(FALSE, FALSE)
         \/ \E p \in Procs : /\ Commit(p) /\ Grows(TRUE, FALSE)
                             /\ \A n \in 1..MaxIngests \ {cur[p]} : fates'[n] = fates[n]
         \/ \E p \in Procs : /\ RollBack(p) /\ Grows(FALSE, TRUE)
                             /\ \A n \in 1..MaxIngests : n # cur[p] => fates'[n] = fates[n]
                             /\ \/ \E x \in Ids(cur[p]) : Conflict(p, x)
                                \/ \A n \in 1..MaxIngests :
                                      "conflict" \in fates'[n] => "conflict" \in fates[n]
    <2> HIDE DEF Grows
    <2> QED
      BY <1>4, <1>5, <1>6, <1>7, <1>8, <1>9, <1>10, <1>11, StepKinds
  <1> QED
    BY <1>12

\* A row changes only when a worker commits a batch with its trace, or when
\* the trace is deleted.
LEMMA RowsChange ==
    ASSUME IndInv, [Next]_vars
    PROVE  /\ deleted \subseteq deleted'
           /\ \A x \in TraceIds :
                 \/ rows'[x] = rows[x]
                 \/ (rows'[x] = 0 /\ x \in deleted')
                 \/ \E p \in Procs : /\ Commit(p) /\ x \in Ids(cur[p])
                                     /\ (Inserts(p, x) # {} \/ Replaces(p, x))
                                     /\ rows'[x] = LastVersion(cur[p], x)
  <1>1. rows \in [TraceIds -> Versions \cup {0}]
    BY DEF IndInv, TypeOK
  <1>2. ASSUME NEW p \in ApiProcs, PurgeDelete(p)
        PROVE  /\ deleted \subseteq deleted'
               /\ \A x \in TraceIds : rows'[x] = rows[x] \/ (rows'[x] = 0 /\ x \in deleted')
    BY <1>1, <1>2 DEF PurgeDelete
  <1>3. ASSUME NEW p \in ApiProcs, NEW ids \in SUBSET TraceIds, DeleteTraces(p, ids)
        PROVE  /\ deleted \subseteq deleted'
               /\ \A x \in TraceIds : rows'[x] = rows[x] \/ (rows'[x] = 0 /\ x \in deleted')
    BY <1>1, <1>3 DEF DeleteTraces
  <1>4. ASSUME NEW p \in Procs, Commit(p)
        PROVE  /\ deleted' = deleted
               /\ \A x \in TraceIds :
                    \/ rows'[x] = rows[x]
                    \/ /\ x \in Ids(cur[p]) /\ (Inserts(p, x) # {} \/ Replaces(p, x))
                       /\ rows'[x] = LastVersion(cur[p], x)
    BY <1>1, <1>4 DEF Commit, Done
  <1>5. ASSUME NEW p \in ApiProcs, \/ \E b \in Batches : Ingest(p, b)
                                   \/ PurgeFind(p) \/ Stop(p) \/ StartAgain(p)
        PROVE  UNCHANGED <<rows, deleted>>
    BY <1>5 DEF Ingest, PurgeFind, Stop, StartAgain
  <1>6. ASSUME NEW p \in Procs, \/ Loop(p) \/ Pop(p) \/ PopFails(p) \/ MemGet(p) \/ ReadTrace(p)
                                \/ RollBack(p) \/ Replaced(p)
        PROVE  UNCHANGED <<rows, deleted>>
    BY <1>6 DEF Loop, Pop, PopFails, MemGet, ReadTrace, RollBack, Done, Replaced, Crash,
       Redeploy, NewProcess
  <1>7. RedisFails \/ RedisReturns \/ UNCHANGED vars => UNCHANGED <<rows, deleted>>
    BY DEF RedisFails, RedisReturns, vars
  <1> QED
    BY <1>2, <1>3, <1>4, <1>5, <1>6, <1>7, StepKinds

\* What a worker has in hand changes only when it takes a batch, lets go of
\* it, or reads the next trace's row.
LEMMA HandsChange ==
    ASSUME IndInv, [Next]_vars, NEW p \in Procs
    PROVE  \/ cur'[p] = cur[p] /\ seen'[p] = seen[p]
              /\ (wpc'[p] = wpc[p] \/ wpc'[p] \notin {"read", "commit"})
           \/ seen'[p] = <<>> /\ (cur'[p] = 0 \/ wpc'[p] = "read")
           \/ ReadTrace(p)
  <1>1. /\ cur \in [Procs -> Accepted \cup {NoBatch}] /\ wpc \in [Procs -> WorkerPC]
        /\ seen \in [Procs -> Seq(Versions \cup {0})]
        /\ \A q \in ApiProcs : q \in Procs
    BY Types DEF IndInv, Shape
  <1> DEFINE Same(w) == cur'[p] = cur[p] /\ seen'[p] = seen[p] /\ (wpc'[p] = wpc[p] \/ w)
             Fresh == seen'[p] = <<>> /\ (cur'[p] = 0 \/ wpc'[p] = "read")
  <1>2. ASSUME NEW q \in ApiProcs, \/ \E b \in Batches : Ingest(q, b)
                                   \/ PurgeFind(q) \/ PurgeDelete(q) \/ Stop(q)
                                   \/ \E ids \in SUBSET TraceIds : DeleteTraces(q, ids)
        PROVE  Same(FALSE)
    BY <1>2 DEF Ingest, PurgeFind, PurgeDelete, Stop, DeleteTraces, control
  <1>3. ASSUME NEW q \in ApiProcs, StartAgain(q)
        PROVE  Same(wpc'[p] = "loop")
    <2>1. /\ UNCHANGED <<cur, seen>>
          /\ wpc' = [wpc EXCEPT ![q] = IF wpc[q] = "dead" THEN "loop" ELSE wpc[q]]
      BY <1>3 DEF StartAgain
    <2>2. CASE p = q
      BY <1>1, <2>1, <2>2
    <2>3. CASE p # q
      BY <1>1, <2>1, <2>3
    <2> QED
      BY <2>2, <2>3
  <1>4. ASSUME NEW q \in Procs, Loop(q) \/ PopFails(q)
        PROVE  Same(wpc'[p] \in {"dead", "pop", "mem"})
    BY <1>1, <1>4 DEF Loop, PopFails
  <1>5. ASSUME NEW q \in Procs, NEW n, Takes(q, n)
        PROVE  Same(FALSE) \/ Fresh
    BY <1>1, <1>5 DEF Takes
  <1>6. ASSUME NEW q \in Procs, Pop(q) \/ MemGet(q)
        PROVE  Same(wpc'[p] \in {"mem", "loop"}) \/ Fresh
    <2>1. (\E n : Takes(q, n)) \/ (UNCHANGED <<cur, seen>>
              /\ \E w \in {"mem", "loop"} : wpc' = [wpc EXCEPT ![q] = w])
      BY <1>6 DEF Pop, MemGet
    <2> QED
      BY <1>1, <1>5, <2>1
  <1>7. ASSUME NEW q \in Procs, ReadTrace(q)
        PROVE  Same(FALSE) \/ ReadTrace(p)
    <2>1. CASE q # p
      BY <1>1, <1>7, <2>1 DEF ReadTrace
    <2> QED
      BY <1>7, <2>1
  <1>8. ASSUME NEW q \in Procs, Commit(q) \/ RollBack(q) \/ Replaced(q)
        PROVE  Same(FALSE) \/ Fresh
    <2>1. /\ cur' = [cur EXCEPT ![q] = NoBatch] /\ seen' = [seen EXCEPT ![q] = <<>>]
          /\ wpc' = [wpc EXCEPT ![q] = "loop"]
      BY <1>8 DEF Commit, RollBack, Done, Replaced, Crash, Redeploy, NewProcess
    <2> QED
      BY <1>1, <2>1 DEF NoBatch
  <1>9. RedisFails \/ RedisReturns \/ UNCHANGED vars => Same(FALSE)
    BY DEF RedisFails, RedisReturns, vars, control
  <1>10. \/ Same(wpc'[p] \notin {"read", "commit"}) \/ Fresh \/ ReadTrace(p)
    <2>1. CASE \E q \in ApiProcs : \/ \E b \in Batches : Ingest(q, b)
                                   \/ PurgeFind(q) \/ PurgeDelete(q) \/ Stop(q)
                                   \/ \E ids \in SUBSET TraceIds : DeleteTraces(q, ids)
      BY <1>2, <2>1
    <2>2. CASE \E q \in ApiProcs : StartAgain(q)
      BY <1>3, <2>2
    <2>3. CASE \E q \in Procs : Loop(q) \/ PopFails(q)
      BY <1>4, <2>3
    <2>4. CASE \E q \in Procs : Pop(q) \/ MemGet(q)
      BY <1>6, <2>4
    <2>5. CASE \E q \in Procs : ReadTrace(q)
      BY <1>7, <2>5
    <2>6. CASE \E q \in Procs : Commit(q) \/ RollBack(q) \/ Replaced(q)
      BY <1>8, <2>6
    <2>7. CASE RedisFails \/ RedisReturns \/ UNCHANGED vars
      BY <1>9, <2>7
    <2> QED
      BY <2>1, <2>2, <2>3, <2>4, <2>5, <2>6, <2>7, StepKinds
  <1> QED
    BY <1>10

\* The read of the next trace's row, in detail.
LEMMA ReadFacts ==
    ASSUME IndInv, NEW p \in Procs, ReadTrace(p)
    PROVE  /\ UNCHANGED <<batches, rows, deleted, cur>> /\ cur[p] \in Accepted
           /\ LET b == batches[cur[p]] IN
                /\ b \in Batches /\ Len(seen[p]) \in Nat /\ Len(b) \in Nat
                /\ DOMAIN b = 1..Len(b) /\ DOMAIN seen[p] = 1..Len(seen[p])
                /\ Len(seen[p]) < Len(b)
                /\ Len(seen'[p]) = Len(seen[p]) + 1
                /\ DOMAIN seen'[p] = 1..(Len(seen[p]) + 1)
                /\ \A i \in 1..Len(seen[p]) : seen'[p][i] = seen[p][i]
                /\ b[Len(seen[p]) + 1].id \in TraceIds
                /\ seen'[p][Len(seen[p]) + 1] = rows[b[Len(seen[p]) + 1].id]
                /\ wpc'[p] = IF Len(seen[p]) + 1 = Len(b) THEN "commit" ELSE "read"
  <1>1. /\ cur \in [Procs -> Accepted \cup {NoBatch}] /\ wpc \in [Procs -> WorkerPC]
        /\ seen \in [Procs -> Seq(Versions \cup {0})]
        /\ rows \in [TraceIds -> Versions \cup {0}]
    BY Types DEF IndInv, Shape, TypeOK
  <1> DEFINE b == batches[cur[p]]
             s == seen[p]
             v == rows[b[Len(s) + 1].id]
  <1>2. /\ wpc[p] = "read" /\ seen' = [seen EXCEPT ![p] = Append(s, v)]
        /\ UNCHANGED <<batches, rows, deleted, cur>>
        /\ wpc' = [wpc EXCEPT ![p] = IF Len(s) + 1 = Len(b) THEN "commit" ELSE "read"]
    BY DEF ReadTrace
  <1>3. cur[p] \in Accepted /\ b \in Batches /\ Len(s) < Len(b)
    BY <1>2, Types DEF IndInv, Reads
  <1>4. s \in Seq(Versions \cup {0}) /\ Len(s) \in Nat /\ DOMAIN s = 1..Len(s)
    BY <1>1
  <1>5. Len(b) \in Nat /\ DOMAIN b = 1..Len(b) /\ b[Len(s) + 1].id \in TraceIds
    BY <1>3, <1>4, BatchIsSeq
  <1>6. v \in Versions \cup {0}
    BY <1>1, <1>5
  <1>7. /\ seen'[p] = Append(s, v)
        /\ wpc'[p] = IF Len(s) + 1 = Len(b) THEN "commit" ELSE "read"
    BY <1>1, <1>2
  <1>8. /\ Len(Append(s, v)) = Len(s) + 1 /\ DOMAIN Append(s, v) = 1..(Len(s) + 1)
        /\ \A i \in 1..Len(s) : Append(s, v)[i] = s[i]
        /\ Append(s, v)[Len(s) + 1] = v
    <2> HIDE DEF s, v
    <2> QED
      BY <1>4, <1>6, AppendProperties
  <1> QED
    BY <1>2, <1>3, <1>4, <1>5, <1>7, <1>8

-----------------------------------------------------------------------------
(* Every step preserves the rest of the invariant.                         *)

\* A batch that no request was answered for has no fate: fates are only added
\* to batches already accepted.
LEMMA FatesAwaitStep == IndInv /\ [Next]_vars => FatesAwait'
  <1> SUFFICES ASSUME IndInv, [Next]_vars, NEW n \in 1..MaxIngests, n > Len(batches')
               PROVE  fates'[n] = {}
    BY DEF FatesAwait
  <1>1. n \notin Accepted' /\ n \notin Accepted
    BY Types, BatchesKept DEF IndInv, Accepted
  <1>2. fates[n] = {}
    BY <1>1, Types DEF IndInv, FatesAwait, Accepted
  <1> QED
    BY <1>1, <1>2, FatesGrow

\* The worker has read as many rows as its program counter says: it reads the
\* rows of its batch one at a time, and commits when all are read.
LEMMA ReadsStep == IndInv /\ [Next]_vars => Reads'
  <1> SUFFICES ASSUME IndInv, [Next]_vars, NEW p \in Procs
               PROVE  /\ wpc'[p] = "read" => Len(seen'[p]) < Len(batches'[cur'[p]])
                      /\ wpc'[p] = "commit" => Len(seen'[p]) = Len(batches'[cur'[p]])
                      /\ cur'[p] = NoBatch => seen'[p] = <<>>
    BY DEF Reads
  <1>1. /\ TypeOK /\ Shape /\ TypeOK' /\ Shape' /\ NoBatch = 0
        /\ wpc[p] = "read" => Len(seen[p]) < Len(batches[cur[p]])
        /\ wpc[p] = "commit" => Len(seen[p]) = Len(batches[cur[p]])
        /\ cur[p] = NoBatch => seen[p] = <<>>
        /\ cur[p] # NoBatch <=> wpc[p] \in {"read", "commit"}
        /\ cur'[p] # NoBatch <=> wpc'[p] \in {"read", "commit"}
        /\ cur[p] # NoBatch => cur[p] \in Accepted
        /\ cur'[p] # NoBatch => cur'[p] \in Accepted'
    BY TypeStep DEF IndInv, Reads, TypeOK, NoBatch
  <1>2. CASE /\ cur'[p] = cur[p] /\ seen'[p] = seen[p]
             /\ wpc'[p] = wpc[p] \/ wpc'[p] \notin {"read", "commit"}
    BY <1>1, <1>2, BatchesKept
  <1>3. CASE seen'[p] = <<>> /\ (cur'[p] = 0 \/ wpc'[p] = "read")
    <2>1. cur'[p] # NoBatch => Len(batches'[cur'[p]]) \in Nat \ {0}
      BY <1>1, BatchesKept, BatchIsSeq DEF Accepted
    <2> QED
      BY <1>1, <1>3, <2>1
  <1>4. CASE ReadTrace(p)
    <2>1. /\ Len(seen'[p]) = Len(seen[p]) + 1 /\ Len(seen[p]) < Len(batches[cur[p]])
          /\ Len(seen[p]) \in Nat /\ Len(batches[cur[p]]) \in Nat
          /\ wpc'[p] = IF Len(seen[p]) + 1 = Len(batches[cur[p]]) THEN "commit" ELSE "read"
          /\ UNCHANGED <<batches, cur>> /\ cur[p] \in Accepted
      BY <1>4, ReadFacts
    <2> QED
      BY <1>1, <2>1
  <1> QED
    BY <1>2, <1>3, <1>4, HandsChange

\* A row that a worker saw stays, unless the trace is deleted: commits
\* overwrite rows, and only a deletion takes one out.
LEMMA SeenStaysStep == IndInv /\ [Next]_vars => SeenStays'
  <1> SUFFICES ASSUME IndInv, [Next]_vars, NEW p \in Procs, NEW i \in DOMAIN seen'[p],
                      seen'[p][i] # 0
               PROVE  LET x == batches'[cur'[p]][i].id IN rows'[x] # 0 \/ x \in deleted'
    BY DEF SeenStays
  <1>1. TypeOK /\ Shape /\ SeenStays /\ Reads /\ NoBatch = 0
    BY DEF IndInv, NoBatch
  <1>2. ASSUME NEW x \in TraceIds, rows[x] # 0 \/ x \in deleted
        PROVE  rows'[x] # 0 \/ x \in deleted'
    <2>1. ASSUME NEW q \in Procs, Commit(q), x \in Ids(cur[q]), rows'[x] = LastVersion(cur[q], x)
          PROVE  rows'[x] # 0
      BY <1>1, <2>1, Types, LastVersionType DEF Commit, Done
    <2> QED
      BY <1>2, <2>1, RowsChange
  <1>3. CASE cur'[p] = cur[p] /\ seen'[p] = seen[p]
    <2>1. cur[p] \in Accepted /\ batches[cur[p]] \in Batches
      <3>1. i \in DOMAIN seen[p] /\ seen[p] # <<>>
        BY <1>3
      <3>2. cur[p] \in Accepted
        BY <1>1, <3>1, Types DEF Reads, Shape
      <3> QED
        BY <1>1, <3>2, Types DEF Shape
    <2>2. i \in 1..Len(seen[p]) /\ Len(seen[p]) <= Len(batches[cur[p]])
      BY <1>1, <1>3, <2>1, Types, SMTT(30) DEF TypeOK, Shape
    <2>3. i \in DOMAIN batches[cur[p]] /\ batches[cur[p]][i].id \in TraceIds
      BY <1>1, <2>1, <2>2, BatchIsSeq DEF Shape
    <2>4. batches'[cur'[p]] = batches[cur[p]]
      BY <1>1, <1>3, <2>1, BatchesKept
    <2> QED
      BY <1>1, <1>2, <1>3, <2>3, <2>4 DEF SeenStays
  <1>4. CASE seen'[p] = <<>>
    BY <1>4
  <1>5. CASE ReadTrace(p)
    <2>1. UNCHANGED <<batches, rows, deleted, cur>>
      BY <1>5, ReadFacts
    <2>2. CASE i \in 1..Len(seen[p])
      BY <1>1, <1>5, <2>1, <2>2, ReadFacts DEF SeenStays
    <2>3. CASE i = Len(seen[p]) + 1
      BY <1>5, <2>1, <2>3, ReadFacts
    <2> QED
      BY <1>5, <2>2, <2>3, ReadFacts
  <1> QED
    BY <1>3, <1>4, <1>5, HandsChange

\* What is in a queue after something was put there, or taken out.
LEMMA ElementsAppend ==
    ASSUME NEW S, NEW s \in Seq(S), NEW e \in S
    PROVE  Elements(Append(s, e)) = Elements(s) \cup {e}
  <1>1. /\ Len(s) \in Nat /\ DOMAIN s = 1..Len(s)
        /\ DOMAIN Append(s, e) = 1..(Len(s) + 1)
        /\ \A i \in 1..Len(s) : Append(s, e)[i] = s[i]
        /\ Append(s, e)[Len(s) + 1] = e
    BY AppendProperties
  <1> QED
    BY <1>1 DEF Elements

\* The elements of a queue are its head and those of its tail.
LEMMA ElementsTail ==
    ASSUME NEW S, NEW s \in Seq(S), s # <<>>
    PROVE  Elements(s) = Elements(Tail(s)) \cup {Head(s)}
  <1>1. /\ Len(s) \in Nat \ {0} /\ DOMAIN s = 1..Len(s)
        /\ DOMAIN Tail(s) = 1..(Len(s) - 1)
        /\ \A i \in 1..(Len(s) - 1) : Tail(s)[i] = s[i + 1]
        /\ Head(s) = s[1]
    BY HeadTailProperties
  <1>2. \A i \in 1..Len(s) :
          i = 1 \/ \E j \in 1..(Len(s) - 1) : i = j + 1
    <2>1. \A i \in 1..Len(s) : i # 1 => i - 1 \in 1..(Len(s) - 1) /\ i = (i - 1) + 1
      BY <1>1
    <2> QED
      BY <2>1
  <1>3. \A i \in 1..(Len(s) - 1) : i + 1 \in 1..Len(s)
    BY <1>1
  <1>4. /\ Elements(s) = {s[i] : i \in 1..Len(s)}
        /\ Elements(Tail(s)) = {Tail(s)[i] : i \in 1..(Len(s) - 1)}
    BY <1>1 DEF Elements
  <1>5. ASSUME NEW i \in 1..Len(s)
        PROVE  s[i] \in Elements(Tail(s)) \cup {Head(s)}
    <2>1. CASE i = 1
      BY <1>1, <2>1
    <2>2. ASSUME NEW j \in 1..(Len(s) - 1), i = j + 1
          PROVE  s[i] \in Elements(Tail(s))
      BY <1>1, <1>4, <2>2
    <2> QED
      BY <1>2, <2>1, <2>2
  <1>6. ASSUME NEW i \in 1..(Len(s) - 1)
        PROVE  Tail(s)[i] \in Elements(s)
    BY <1>1, <1>3, <1>4
  <1>7. Head(s) \in Elements(s)
    BY <1>1, <1>4
  <1> QED
    BY <1>4, <1>5, <1>6, <1>7

\* Every step keeps an accepted batch in a queue or in a worker's hands, or
\* gives it a fate: the only steps that let go of a batch are those that record
\* why.
LEMMA NoLossStep == IndInv /\ [Next]_vars => NotForgotten'
  <1> SUFFICES ASSUME IndInv, [Next]_vars, NEW n \in Accepted'
               PROVE  InSystem(n)' \/ fates'[n] # {}
    BY DEF NotForgotten
  <1>1. /\ TypeOK /\ Shape /\ n \in 1..MaxIngests
        /\ fates \in [1..MaxIngests -> SUBSET Fates] /\ fates' \in [1..MaxIngests -> SUBSET Fates]
        /\ redis \in Seq(Accepted) /\ mem \in [Procs -> Seq(Accepted)]
        /\ cur \in [Procs -> Accepted \cup {0}] /\ wpc \in [Procs -> WorkerPC]
        /\ \A p \in Procs : cur[p] # 0 <=> wpc[p] \in {"read", "commit"}
        /\ \A p \in ApiProcs : p \in Procs
        /\ Accepted' \subseteq 1..MaxIngests
    <2>1. TypeOK /\ Shape
      BY DEF IndInv
    <2>2. TypeOK' /\ Shape'
      BY TypeStep
    <2>3. Accepted' \subseteq 1..MaxIngests
      BY <2>1, Types, BatchesKept DEF Accepted
    <2> QED
      BY <2>1, <2>2, <2>3, Types DEF Shape, NoBatch
  <1> DEFINE In(m) == \/ m \in Elements(redis)
                      \/ \E p \in Procs : m \in Elements(mem[p])
                      \/ \E p \in Procs : cur[p] = m
             Safe == In(n)' \/ fates'[n] # {}
  <1>2. Safe => InSystem(n)' \/ fates'[n] # {}
    BY DEF InSystem, Queued, InHand
  <1>3. CASE n \notin Accepted
    <2>1. PICK p \in ApiProcs, b \in Batches : Ingest(p, b)
      BY <1>1, <1>3, BatchesKept DEF Accepted
    <2>2. n = Len(batches) + 1
      BY <1>1, <1>3, BatchesKept
    <2>3. \/ redis' = Append(redis, n)
          \/ mem' = [mem EXCEPT ![p] = Append(@, n)]
          \/ fates' = [fates EXCEPT ![n] = @ \cup {"queueFull"}]
      BY <2>1, <2>2 DEF Ingest, PushRedis, PushFails, PutMemory, MeetsFate
    <2>4. redis \in Seq(Accepted') /\ mem[p] \in Seq(Accepted') /\ p \in Procs
      BY <1>1, SeqKept
    <2>5. n \in Elements(Append(redis, n)) /\ n \in Elements(Append(mem[p], n))
      BY <2>4, ElementsAppend
    <2> QED
      BY <1>1, <1>2, <2>3, <2>4, <2>5
  <1>4. CASE n \in Accepted /\ fates[n] # {}
    BY <1>1, <1>4, FatesGrow
  <1>5. CASE n \in Accepted /\ In(n)
    <2>0. n # 0
      BY <1>5 DEF Accepted
    <2>1. ASSUME NEW p \in ApiProcs, NEW b \in Batches, Ingest(p, b)
          PROVE  In(n)'
      <3> DEFINE m == Len(batches) + 1
      <3>1. m \in Accepted' /\ cur' = cur
        BY <1>1, <2>1, Types DEF Ingest, Accepted, control
      <3>2. redis' = redis \/ redis' = Append(redis, m)
        BY <2>1 DEF Ingest, PushRedis, PushFails
      <3>3. mem' = mem \/ mem' = [mem EXCEPT ![p] = Append(@, m)]
        BY <2>1 DEF Ingest, PushRedis, PushFails, PutMemory
      <3>4. p \in Procs /\ redis \in Seq(Accepted') /\ mem[p] \in Seq(Accepted')
        BY <1>1, SeqKept
      <3> HIDE DEF m
      <3>5. Elements(redis) \subseteq Elements(Append(redis, m))
        BY <3>1, <3>4, ElementsAppend
      <3>6. Elements(mem[p]) \subseteq Elements(Append(mem[p], m))
        BY <3>1, <3>4, ElementsAppend
      <3>7. Elements(redis) \subseteq Elements(redis')
        BY <3>2, <3>5
      <3>8. \A q \in Procs : Elements(mem[q]) \subseteq Elements(mem'[q])
        BY <1>1, <3>3, <3>4, <3>6
      <3> QED
        BY <1>5, <3>1, <3>7, <3>8 DEF Elements
    <2>2. ASSUME NEW p \in ApiProcs, \/ PurgeFind(p) \/ PurgeDelete(p) \/ Stop(p) \/ StartAgain(p)
                                     \/ \E ids \in SUBSET TraceIds : DeleteTraces(p, ids)
          PROVE  In(n)'
      <3>1. UNCHANGED <<redis, mem, cur>>
        BY <2>2 DEF PurgeFind, PurgeDelete, Stop, StartAgain, DeleteTraces, environment, control
      <3> QED
        BY <1>5, <3>1 DEF Elements
    <2>3. ASSUME NEW p \in Procs, Loop(p) \/ ReadTrace(p)
          PROVE  In(n)'
      <3>1. UNCHANGED <<redis, mem, cur>>
        BY <2>3 DEF Loop, ReadTrace, environment
      <3> QED
        BY <1>5, <3>1 DEF Elements
    <2>4. ASSUME NEW p \in Procs, Pop(p)
          PROVE  In(n)'
      <3>1. cur[p] = 0 /\ mem' = mem
        BY <1>1, <2>4 DEF Pop
      <3>2. CASE redis # <<>> /\ redis' = Tail(redis) /\ cur' = [cur EXCEPT ![p] = Head(redis)]
        <4>1. Elements(redis) = Elements(redis') \cup {Head(redis)}
          BY <1>1, <3>2, ElementsTail
        <4>2. cur'[p] = Head(redis) /\ \A q \in Procs \ {p} : cur'[q] = cur[q]
          BY <1>1, <3>2
        <4>3. CASE n = Head(redis)
          BY <4>2, <4>3
        <4>4. CASE n \in Elements(redis')
          BY <4>4 DEF Elements
        <4>5. CASE n \notin Elements(redis)
          BY <1>5, <2>0, <3>1, <4>2, <4>5 DEF Elements
        <4> QED
          BY <4>1, <4>3, <4>4, <4>5
      <3>3. CASE UNCHANGED <<redis, cur>>
        BY <1>5, <3>1, <3>3 DEF Elements
      <3> QED
        BY <2>4, <3>2, <3>3 DEF Pop, Takes
    <2>5. ASSUME NEW p \in Procs, PopFails(p)
          PROVE  Safe
      <3>1. UNCHANGED <<mem, cur>>
        BY <2>5 DEF PopFails
      <3>2. CASE redis # <<>> /\ redis' = Tail(redis) /\ MeetsFate(Head(redis), "lostInPop")
        <4>1. Elements(redis) = Elements(redis') \cup {Head(redis)}
          BY <1>1, <3>2, ElementsTail
        <4>2. CASE n = Head(redis)
          BY <1>1, <3>2, <4>2 DEF MeetsFate
        <4>3. CASE n # Head(redis)
          BY <1>5, <3>1, <4>1, <4>3 DEF Elements
        <4> QED
          BY <4>2, <4>3
      <3>3. CASE redis' = redis
        BY <1>5, <3>1, <3>3 DEF Elements
      <3> QED
        BY <2>5, <3>2, <3>3 DEF PopFails
    <2>6. ASSUME NEW p \in Procs, MemGet(p)
          PROVE  In(n)'
      <3>1. cur[p] = 0 /\ redis' = redis
        BY <1>1, <2>6 DEF MemGet, environment
      <3>2. CASE /\ mem[p] # <<>> /\ mem' = [mem EXCEPT ![p] = Tail(@)]
                 /\ cur' = [cur EXCEPT ![p] = Head(mem[p])]
        <4>1. Elements(mem[p]) = Elements(Tail(mem[p])) \cup {Head(mem[p])}
          BY <1>1, <3>2, ElementsTail
        <4>2. \A q \in Procs \ {p} : mem'[q] = mem[q] /\ cur'[q] = cur[q]
          BY <1>1, <3>2
        <4>3. mem'[p] = Tail(mem[p]) /\ cur'[p] = Head(mem[p])
          BY <1>1, <3>2
        <4>4. CASE n = Head(mem[p])
          BY <4>3, <4>4
        <4>5. CASE n \in Elements(Tail(mem[p]))
          BY <4>3, <4>5 DEF Elements
        <4>6. CASE n \notin Elements(mem[p])
          BY <1>5, <2>0, <3>1, <4>2, <4>6 DEF Elements
        <4> QED
          BY <4>1, <4>4, <4>5, <4>6
      <3>3. CASE UNCHANGED <<mem, cur>>
        BY <1>5, <3>1, <3>3 DEF Elements
      <3> QED
        BY <2>6, <3>2, <3>3 DEF MemGet, Takes
    <2>7. ASSUME NEW p \in Procs, Commit(p) \/ RollBack(p)
          PROVE  Safe
      <3>1. UNCHANGED <<redis, mem>> /\ cur' = [cur EXCEPT ![p] = 0]
            /\ \E fate : fates' = [fates EXCEPT ![cur[p]] = @ \cup {fate}]
        BY <2>7 DEF Commit, RollBack, Done, MeetsFate, environment, NoBatch
      <3>2. CASE cur[p] = n
        BY <1>1, <3>1, <3>2
      <3>3. CASE cur[p] # n
        BY <1>1, <1>5, <3>1, <3>3 DEF Elements
      <3> QED
        BY <3>2, <3>3
    <2>8. ASSUME NEW p \in Procs, Replaced(p)
          PROVE  Safe
      <3>1. PICK fate : fates' = [m \in 1..MaxIngests |->
                   IF m = cur[p] \/ \E i \in DOMAIN mem[p] : mem[p][i] = m
                     THEN fates[m] \cup {fate} ELSE fates[m]]
        BY <2>8 DEF Replaced, Crash, Redeploy, NewProcess
      <3>2. redis' = redis /\ mem' = [mem EXCEPT ![p] = <<>>] /\ cur' = [cur EXCEPT ![p] = 0]
        BY <2>8 DEF Replaced, Crash, Redeploy, NewProcess, environment, NoBatch
      <3>3. CASE n = cur[p] \/ n \in Elements(mem[p])
        <4>1. fates'[n] = fates[n] \cup {fate}
          BY <1>1, <3>1, <3>3 DEF Elements
        <4> QED
          BY <4>1
      <3>4. CASE n # cur[p] /\ n \notin Elements(mem[p])
        <4>1. \A q \in Procs \ {p} : mem'[q] = mem[q] /\ cur'[q] = cur[q]
          BY <1>1, <3>2
        <4> QED
          BY <1>5, <3>2, <3>4, <4>1 DEF Elements
      <3> QED
        BY <3>3, <3>4
    <2>9. RedisFails \/ RedisReturns \/ UNCHANGED vars => In(n)'
      <3>1. RedisFails \/ RedisReturns \/ UNCHANGED vars => UNCHANGED <<redis, mem, cur>>
        BY DEF RedisFails, RedisReturns, vars, control
      <3> QED
        BY <1>5, <3>1 DEF Elements
    <2>10. Safe
      <3> HIDE DEF In
      <3> QED
        BY <2>1, <2>2, <2>3, <2>4, <2>5, <2>6, <2>7, <2>8, <2>9, StepKinds
    <2> QED
      BY <1>2, <2>10
  <1>6. n \in Accepted => In(n) \/ fates[n] # {}
    BY DEF IndInv, NotForgotten, InSystem, Queued, InHand
  <1> QED
    BY <1>3, <1>4, <1>5, <1>6

\* Every step preserves that a batch was written whole: one commit writes all
\* its traces, and only a deletion or another batch takes them away.
LEMMA AllOrNothingStep == IndInv /\ [Next]_vars => AllOrNothing'
  <1> SUFFICES ASSUME IndInv, [Next]_vars
               PROVE  AllOrNothing'
    OBVIOUS
  <1>1. /\ TypeOK /\ Shape /\ AllOrNothing /\ Accepted \subseteq 1..MaxIngests
        /\ Accepted' \subseteq 1..MaxIngests /\ Accepted \subseteq Accepted'
        /\ rows \in [TraceIds -> Versions \cup {0}]
    BY TypeStep, Types, BatchesKept DEF IndInv, TypeOK, Accepted
  <1>2. ASSUME NEW p \in Procs, Commit(p)
        PROVE  /\ cur[p] \in Accepted /\ "committed" \in fates'[cur[p]]
               /\ \A x \in Ids(cur[p]) : LastVersion(cur[p], x) # 0
               /\ \A x \in Ids(cur[p]) : Has(cur[p], x, LastVersion(cur[p], x))
    <2>1. cur[p] \in Accepted
      BY <1>1, <1>2, Types DEF Commit, Done
    <2> QED
      BY <1>1, <1>2, <2>1, LastVersionType DEF Commit, MeetsFate, Shape
  <1>3. ASSUME NEW n \in Accepted', "committed" \in fates'[n], NEW x \in Ids(n)'
        PROVE  rows'[x] # 0 \/ x \in deleted'
    <2>1. CASE "committed" \in fates[n]
      <3>1. n \in Accepted
        <4>1. n \in 1..MaxIngests /\ MaxIngests \in Nat /\ Len(batches) \in Nat
          BY <1>1, PipelineAssumption DEF TypeOK
        <4>2. ~(n > Len(batches))
          BY <2>1, <4>1 DEF IndInv, FatesAwait
        <4> QED
          BY <4>1, <4>2 DEF Accepted
      <3>2. x \in Ids(n) /\ (rows[x] # 0 \/ x \in deleted)
        BY <1>1, <2>1, <3>1, BatchesKept DEF AllOrNothing
      <3>3. x \in TraceIds
        BY <1>1, <3>1, <3>2, LastVersionType
      <3> QED
        BY <1>2, <3>2, <3>3, RowsChange
    <2>2. ASSUME NEW p \in Procs, Commit(p), cur[p] = n
          PROVE  rows'[x] # 0 \/ x \in deleted'
      <3>1. n \in Accepted /\ x \in Ids(n)
        BY <1>1, <1>2, <2>2, BatchesKept
      <3>2. x \in TraceIds /\ LastVersion(n, x) # 0
        BY <1>1, <3>1, LastVersionType
      <3>3. CASE Inserts(p, x) # {} \/ Replaces(p, x)
        <4>1. rows'[x] = LastVersion(n, x)
          BY <2>2, <3>1, <3>2, <3>3 DEF Commit
        <4> QED
          BY <3>2, <4>1
      <3>4. CASE Inserts(p, x) = {} /\ ~Replaces(p, x)
        <4>1. rows'[x] = rows[x] /\ deleted' = deleted
          BY <2>2, <3>2, <3>4 DEF Commit, Done
        <4>2. PICK i \in DOMAIN batches[n] : batches[n][i].id = x
          BY <3>1 DEF Ids
        <4>3. seen[p][i] # 0
          BY <2>2, <3>4, <4>2 DEF Inserts
        <4>4. i \in DOMAIN seen[p]
          <5>1. /\ Len(seen[p]) = Len(batches[cur[p]]) /\ seen[p] \in Seq(Versions \cup {0})
                /\ batches[n] \in Batches
            BY <1>1, <2>2, <3>1, Types DEF IndInv, Reads, Commit, Done, Shape
          <5> QED
            BY <2>2, <4>2, <5>1, BatchIsSeq
        <4> QED
          BY <2>2, <4>1, <4>2, <4>3, <4>4 DEF IndInv, SeenStays
      <3> QED
        BY <3>3, <3>4
    <2> QED
      BY <1>1, <1>3, <2>1, <2>2, FatesGrow
  <1>4. ASSUME NEW x \in TraceIds, rows'[x] # 0
        PROVE  \E n \in Accepted' : /\ "committed" \in fates'[n]
                                    /\ \E i \in DOMAIN batches'[n] :
                                          batches'[n][i].id = x /\ batches'[n][i].ver = rows'[x]
    <2>1. CASE rows'[x] = rows[x]
      <3>1. PICK n \in Accepted : /\ "committed" \in fates[n]
                                  /\ Has(n, x, rows[x])
        BY <1>1, <1>4, <2>1 DEF AllOrNothing, Has
      <3>2. n \in Accepted' /\ "committed" \in fates'[n] /\ batches'[n] = batches[n]
        BY <1>1, <3>1, FatesGrow, BatchesKept
      <3> QED
        BY <2>1, <3>1, <3>2 DEF Has
    <2>2. ASSUME NEW p \in Procs, Commit(p), x \in Ids(cur[p]), rows'[x] = LastVersion(cur[p], x)
          PROVE  \E n \in Accepted' : /\ "committed" \in fates'[n]
                                      /\ \E i \in DOMAIN batches'[n] :
                                          batches'[n][i].id = x /\ batches'[n][i].ver = rows'[x]
      <3>1. cur[p] \in Accepted' /\ batches'[cur[p]] = batches[cur[p]]
        BY <1>1, <1>2, <2>2, BatchesKept
      <3> QED
        BY <1>2, <2>2, <3>1 DEF Has
    <2> QED
      BY <1>4, <2>1, <2>2, RowsChange
  <1> QED
    BY <1>3, <1>4 DEF AllOrNothing

-----------------------------------------------------------------------------
(* The theorems.                                                           *)

\* The invariant holds at first: nothing was accepted, and no worker has
\* anything in its hands.
LEMMA InitIndInv == Init => IndInv
  <1> SUFFICES ASSUME Init
               PROVE  IndInv
    OBVIOUS
  <1>1. /\ batches = <<>> /\ Len(batches) = 0 /\ Accepted = {} /\ DOMAIN batches = {}
        /\ rows = [x \in TraceIds |-> 0]
        /\ ends = [x \in TraceIds |-> 0] /\ firsts = [x \in TraceIds |-> 0]
    BY DEF Init, NoTraces, Accepted
  <1>2. TypeOK
    <2>1. batches \in Seq(Batches) /\ Len(batches) <= MaxIngests
      BY <1>1, PipelineAssumption
    <2>2. redis \in Seq(Accepted) /\ \A p \in Procs : mem[p] \in Seq(Accepted)
      BY DEF Init
    <2>3. \A p \in Procs : Len(mem[p]) <= MemQueueSize
      BY PipelineAssumption DEF Init
    <2> QED
      BY <1>1, <2>1, <2>2, <2>3 DEF Init, TypeOK, NoTraces, NoPurge, NoBatch
  <1>3. Shape
    BY <1>1 DEF Init, Shape, NoBatch, Fates
  <1>4. FatesAwait /\ Reads /\ SeenStays
    BY <1>1 DEF Init, FatesAwait, Reads, SeenStays, NoBatch
  <1>6. EndsShape
    BY <1>1 DEF Init, EndsShape
  <1>5. NotForgotten /\ AllOrNothing
    BY <1>1 DEF NotForgotten, AllOrNothing
  <1> QED
    BY <1>2, <1>3, <1>4, <1>5, <1>6 DEF IndInv

\* Every reachable state satisfies the invariant.
THEOREM Invariance == Spec => []IndInv
  <1>1. IndInv /\ [Next]_vars => IndInv'
    BY TypeStep, EndsStep, FatesAwaitStep, ReadsStep, SeenStaysStep, NoLossStep, AllOrNothingStep
       DEF IndInv
  <1> QED
    BY InitIndInv, <1>1, PTL DEF Spec

\* The state has the types TypeOK gives it: no queue holds a batch nobody
\* sent, and a worker has a batch in hand exactly while it processes it.
THEOREM TypeCorrect == Spec => []TypeOK
  <1>1. IndInv => TypeOK
    BY DEF IndInv
  <1> QED
    BY <1>1, Invariance, PTL

\* A batch is written whole or not at all, with any number of workers that
\* read and commit at once, and deletions in between. (process_batch.)
THEOREM WholeBatches == Spec => []AllOrNothing
  <1>1. IndInv => AllOrNothing
    BY DEF IndInv
  <1> QED
    BY <1>1, Invariance, PTL

-----------------------------------------------------------------------------
(* One worker: what it commits, what it rolls back, and in which order.    *)

\* Alone, there is one process.
LEMMA OneProcess == Alone => \E p : Procs = {p}
  BY PipelineAssumption, FS_Singleton DEF Alone

\* A batch with two snapshots of a trace repeats that trace.
LEMMA TwoRepeat ==
    ASSUME TypeOK, Shape, NEW n \in Accepted,
           NEW i \in DOMAIN batches[n], NEW j \in DOMAIN batches[n], i # j,
           batches[n][i].id = batches[n][j].id
    PROVE  Repeats(n)
  <1> DEFINE b == batches[n]
             S == (1..Len(b)) \ {j}
             f == [k \in S |-> b[k].id]
  <1>1. Len(b) \in Nat \ {0} /\ DOMAIN b = 1..Len(b)
    BY Types, BatchIsSeq
  <1>2. IsFiniteSet(1..Len(b)) /\ Cardinality(1..Len(b)) = Len(b)
    BY <1>1, FS_Interval
  <1>3. IsFiniteSet(S) /\ Cardinality(S) = Len(b) - 1
    <2> DEFINE I == 1..Len(b)
    <2>1. IsFiniteSet(I) /\ Cardinality(I) = Len(b) /\ j \in I
      BY <1>1, <1>2
    <2> HIDE DEF I
    <2>2. IsFiniteSet(I \ {j}) /\ Cardinality(I \ {j}) = Len(b) - 1
      BY <2>1, FS_RemoveElement
    <2> QED
      BY <2>2 DEF I
  <1>4. f \in Surjection(S, Ids(n))
    <2>1. \A k \in S : f[k] \in Ids(n)
      BY <1>1 DEF Ids
    <2>2. ASSUME NEW x \in Ids(n)
          PROVE  \E k \in S : f[k] = x
      <3>1. PICK k \in DOMAIN b : b[k].id = x
        BY DEF Ids
      <3>2. CASE k = j
        BY <1>1, <3>1, <3>2
      <3>3. CASE k # j
        BY <1>1, <3>1, <3>3
      <3> QED
        BY <3>2, <3>3
    <2> HIDE DEF S
    <2> QED
      BY <2>1, <2>2 DEF Surjection
  <1>5. Cardinality(Ids(n)) <= Cardinality(S) /\ Cardinality(Ids(n)) \in Nat
        /\ Cardinality(S) \in Nat
    <2> HIDE DEF S, f
    <2> QED
      BY <1>3, <1>4, FS_Surjection, FS_CardinalityType DEF ExistsSurjection
  <1> QED
    BY <1>1, <1>3, <1>5 DEF Repeats

\* A lone worker: a conflict of its batch is one that ConflictsExplained names.
LEMMA ConflictExplained ==
    ASSUME IndInv, SeenCurrent, Alone, NEW p \in Procs, RollBack(p),
           NEW x \in Ids(cur[p]), Conflict(p, x)
    PROVE  Repeats(cur[p]) \/ x \in deleted
  <1> DEFINE b == batches[cur[p]]
  <1>1. /\ TypeOK /\ Shape /\ cur[p] # NoBatch /\ cur[p] \in Accepted /\ b \in Batches
        /\ seen[p] \in Seq(Versions \cup {0}) /\ Len(seen[p]) = Len(b) /\ SeenStays
    BY Types DEF IndInv, Shape, Reads, RollBack, Done, NoBatch
  <1>2. DOMAIN b = 1..Len(b) /\ DOMAIN seen[p] = DOMAIN b /\ Len(b) \in Nat
    BY <1>1, BatchIsSeq
  <1>3. PICK i \in DOMAIN b : b[i].id = x /\ Loaded(p, x) = seen[p][i]
    BY <1>1, LoadedFirst
  <1>4. \A j \in DOMAIN b : b[j].id = x /\ j # i => Repeats(cur[p])
    BY <1>1, <1>3, TwoRepeat
  <1>5. Inserts(p, x) = {j \in DOMAIN b : b[j].id = x /\ seen[p][j] = 0}
    BY DEF Inserts
  <1>6. CASE (Replaces(p, x) \/ EndsAnew(p, x)) /\ rows[x] = 0
    BY <1>1, <1>2, <1>3, <1>6 DEF Replaces, EndsAnew, SeenStays
  <1>7. CASE Inserts(p, x) # {} /\ rows[x] # 0
    <2>1. PICK j \in DOMAIN b : b[j].id = x /\ seen[p][j] = 0
      BY <1>5, <1>7
    <2>2. rows[x] \in {0, seen[p][j]}
      BY <1>2, <2>1 DEF SeenCurrent
    <2> QED
      BY <1>7, <2>1, <2>2
  <1>8. CASE Inserts(p, x) # {} /\ Loaded(p, x) # 0
    BY <1>3, <1>4, <1>5, <1>8
  <1>9. CASE Cardinality(Inserts(p, x)) > 1
    <2>1. ASSUME Inserts(p, x) \subseteq {i}
          PROVE  FALSE
      <3>1. IsFiniteSet({i}) /\ Cardinality({i}) = 1
        BY FS_Singleton
      <3>2. Cardinality(Inserts(p, x)) <= 1 /\ Cardinality(Inserts(p, x)) \in Nat
        BY <2>1, <3>1, FS_Subset, FS_CardinalityType
      <3> QED
        BY <1>9, <3>2
    <2> QED
      BY <1>4, <1>5, <2>1
  <1> QED
    BY <1>6, <1>7, <1>8, <1>9 DEF Conflict

\* Alone, a row that the worker read is still as it was read, or deleted: only
\* this worker writes rows.
LEMMA SeenCurrentStep == IndInv /\ SeenCurrent /\ [Next]_vars => SeenCurrent'
  <1> SUFFICES ASSUME IndInv, SeenCurrent, [Next]_vars, Alone, NEW p \in Procs,
                      NEW i \in DOMAIN seen'[p]
               PROVE  LET x == batches'[cur'[p]][i].id IN rows'[x] \in {0, seen'[p][i]}
    BY DEF SeenCurrent, Alone
  <1>1. TypeOK /\ Shape /\ Reads /\ NoBatch = 0
    BY DEF IndInv, NoBatch
  <1>2. CASE seen'[p] = <<>>
    BY <1>2
  <1>3. CASE cur'[p] = cur[p] /\ seen'[p] = seen[p] /\ seen[p] # <<>>
    <2>1. cur[p] \in Accepted /\ batches[cur[p]] \in Batches
      BY <1>1, <1>3, Types DEF Reads, Shape
    <2>2. i \in 1..Len(seen[p]) /\ Len(seen[p]) <= Len(batches[cur[p]])
      BY <1>1, <1>3, <2>1, Types DEF TypeOK, Shape
    <2>3. i \in DOMAIN batches[cur[p]] /\ batches[cur[p]][i].id \in TraceIds
      BY <1>1, <2>1, <2>2, BatchIsSeq DEF Shape
    <2>4. batches'[cur'[p]] = batches[cur[p]]
      BY <1>1, <1>3, <2>1, BatchesKept
    <2>5. ~ \E q \in Procs : Commit(q)
      <3>1. ASSUME NEW q \in Procs, Commit(q)
            PROVE  FALSE
        <4>1. q = p
          BY OneProcess
        <4>2. seen'[p] = <<>>
          BY <1>1, <3>1, <4>1 DEF Commit, Done, Shape
        <4> QED
          BY <1>3, <4>2
      <3> QED
        BY <3>1
    <2> DEFINE x == batches[cur[p]][i].id
    <2>6. rows'[x] = rows[x] \/ rows'[x] = 0
      BY <2>3, <2>5, RowsChange
    <2>7. rows[x] \in {0, seen[p][i]}
      BY <1>3 DEF SeenCurrent
    <2> QED
      BY <1>3, <2>4, <2>6, <2>7
  <1>4. CASE ReadTrace(p)
    <2>1. UNCHANGED <<batches, rows, deleted, cur>>
      BY <1>4, ReadFacts
    <2>2. CASE i \in 1..Len(seen[p])
      BY <1>4, <2>1, <2>2, ReadFacts DEF SeenCurrent
    <2>3. CASE i = Len(seen[p]) + 1
      BY <1>4, <2>1, <2>3, ReadFacts
    <2> QED
      BY <1>4, <2>2, <2>3, ReadFacts
  <1> QED
    BY <1>2, <1>3, <1>4, HandsChange

\* Alone, a commit is refused only for a batch that names a trace twice or
\* names one that was deleted.
LEMMA ConflictsStep ==
    IndInv /\ SeenCurrent /\ ConflictsExplained /\ [Next]_vars => ConflictsExplained'
  <1> SUFFICES ASSUME IndInv, SeenCurrent, ConflictsExplained, [Next]_vars, Alone,
                      NEW n \in Accepted', "conflict" \in fates'[n]
               PROVE  Repeats(n)' \/ Ids(n)' \cap deleted' # {}
    BY DEF ConflictsExplained, Alone
  <1>0. TypeOK /\ Shape /\ Accepted' \subseteq 1..MaxIngests
    BY TypeStep, Types, BatchesKept DEF IndInv, TypeOK, Accepted
  <1>1. TypeOK /\ Shape /\ Accepted' \subseteq 1..MaxIngests /\ deleted \subseteq deleted'
    BY <1>0, RowsChange
  <1>2. ASSUME NEW m \in Accepted
        PROVE  batches'[m] = batches[m] /\ Ids(m)' = Ids(m) /\ (Repeats(m) => Repeats(m)')
    BY <1>1, BatchesKept DEF Repeats
  <1>3. CASE "conflict" \in fates[n]
    <2>1. n \in Accepted
      BY <1>1, <1>3, Types DEF IndInv, FatesAwait, Accepted
    <2> QED
      BY <1>1, <1>2, <1>3, <2>1 DEF ConflictsExplained
  <1>4. ASSUME NEW p \in Procs, RollBack(p), cur[p] = n, NEW x \in Ids(n), Conflict(p, x)
        PROVE  Repeats(n)' \/ Ids(n)' \cap deleted' # {}
    <2>1. n \in Accepted
      BY <1>1, <1>4, Types DEF RollBack, Done
    <2>2. Repeats(n) \/ x \in deleted
      BY <1>4, ConflictExplained
    <2> QED
      BY <1>1, <1>2, <1>4, <2>1, <2>2
  <1> QED
    BY <1>1, <1>3, <1>4, FatesGrow

\* A step without a fault: the ways it can change a queue, a worker's control
\* or the batch it has in hand.
LEMMA QuietStep ==
    ASSUME IndInv, OneQueue, [Next]_vars, faults' = 0
    PROVE  /\ faults = 0 /\ UNCHANGED <<redisUp, useRedis, serving>>
           /\ \/ \E p \in ApiProcs : \E b \in Batches :
                    /\ Ingest(p, b) /\ UNCHANGED <<cur, wpc>>
                    /\ \/ redisUp /\ mem' = mem /\ redis' = Append(redis, Len(batches) + 1)
                       \/ /\ ~redisUp /\ redis' = redis
                          /\ \/ mem' = mem
                             \/ mem' = [mem EXCEPT ![p] = Append(@, Len(batches) + 1)]
              \/ UNCHANGED <<batches, redis, mem, cur, wpc, fates>>
              \/ \E p \in Procs : Loop(p) \/ ReadTrace(p) \/ Pop(p) \/ MemGet(p)
                                  \/ Commit(p) \/ RollBack(p)
  <1>1. /\ TypeOK /\ Shape /\ faults \in Nat /\ \A p \in ApiProcs : p \in Procs
        /\ wpc \in [Procs -> WorkerPC]
    BY Types DEF IndInv, Shape
  <1>2. ~Fault
    BY <1>1 DEF Fault
  <1>3. ASSUME NEW p \in ApiProcs, NEW b \in Batches, Ingest(p, b)
        PROVE  /\ faults = 0 /\ UNCHANGED <<redisUp, useRedis, serving, cur, wpc>>
               /\ \/ redisUp /\ mem' = mem /\ redis' = Append(redis, Len(batches) + 1)
                  \/ /\ ~redisUp /\ redis' = redis
                     /\ \/ mem' = mem
                        \/ mem' = [mem EXCEPT ![p] = Append(@, Len(batches) + 1)]
    <2>1. faults = 0
      BY <1>2, <1>3 DEF Ingest
    <2>2. useRedis[p] = redisUp
      BY <1>1, <2>1 DEF OneQueue
    <2> QED
      BY <1>2, <1>3, <2>1, <2>2 DEF Ingest, PushRedis, PutMemory, control
  <1>4. ASSUME NEW p \in ApiProcs, PurgeFind(p) \/ PurgeDelete(p)
                                   \/ \E ids \in SUBSET TraceIds : DeleteTraces(p, ids)
        PROVE  faults = 0 /\ UNCHANGED <<batches, redisUp, useRedis, serving, redis, mem, cur, wpc,
                                        fates>>
    BY <1>4 DEF PurgeFind, PurgeDelete, DeleteTraces, control, environment
  <1>5. ASSUME NEW p \in ApiProcs, Stop(p) \/ StartAgain(p)
        PROVE  FALSE
    BY <1>1, <1>2, <1>5 DEF Stop, StartAgain, OneQueue
  <1>6. ASSUME NEW p \in Procs, Replaced(p)
        PROVE  FALSE
    BY <1>2, <1>6 DEF Replaced, Crash, Redeploy, OneQueue
  <1>7. ASSUME NEW p \in Procs, PopFails(p)
        PROVE  FALSE
    <2>1. ~redisUp /\ faults = 0 /\ wpc[p] = "pop"
      BY <1>2, <1>7 DEF PopFails
    <2>2. useRedis[p] = redisUp /\ useRedis[p]
      BY <2>1 DEF OneQueue
    <2> QED
      BY <2>1, <2>2
  <1>8. ASSUME NEW p \in Procs, Loop(p) \/ ReadTrace(p) \/ Pop(p) \/ MemGet(p) \/ Commit(p)
                                \/ RollBack(p)
        PROVE  faults = 0 /\ UNCHANGED <<redisUp, useRedis, serving>>
    BY <1>2, <1>8 DEF Loop, ReadTrace, Pop, MemGet, Commit, RollBack, Done, environment
  <1>9. ~RedisFails /\ ~RedisReturns
    BY <1>1, <1>2 DEF RedisFails, RedisReturns
  <1>10. CASE UNCHANGED vars
    BY <1>10 DEF vars, control
  <1>11. CASE Next
    <2>1. CASE \E p \in ApiProcs : \E b \in Batches : Ingest(p, b)
      BY <1>3, <2>1
    <2>2. CASE \E p \in ApiProcs : PurgeFind(p) \/ PurgeDelete(p)
                                   \/ \E ids \in SUBSET TraceIds : DeleteTraces(p, ids)
      BY <1>4, <2>2
    <2>3. CASE \E p \in Procs : Loop(p) \/ ReadTrace(p) \/ Pop(p) \/ MemGet(p) \/ Commit(p)
                                \/ RollBack(p)
      BY <1>8, <2>3
    <2> QED
      BY <1>5, <1>6, <1>7, <1>9, <1>11, <2>1, <2>2, <2>3, StepKinds
  <1> QED
    BY <1>10, <1>11

\* Without faults the process stays with the queue it started with, and the
\* other one stays empty.
LEMMA OneQueueStep == IndInv /\ OneQueue /\ [Next]_vars => OneQueue'
  <1> SUFFICES ASSUME IndInv, OneQueue, [Next]_vars, faults' = 0, NEW p \in Procs
               PROVE  /\ serving'[p] /\ useRedis'[p] = redisUp'
                      /\ wpc'[p] = "pop" => useRedis'[p]
                      /\ IF redisUp' THEN mem'[p] = <<>> ELSE redis' = <<>>
    BY DEF OneQueue
  <1>1. /\ mem \in [Procs -> Seq(Accepted)] /\ wpc \in [Procs -> WorkerPC]
        /\ redis \in Seq(Accepted) /\ \A q \in ApiProcs : q \in Procs
    BY Types DEF IndInv, Shape
  <1>2. faults = 0 /\ UNCHANGED <<redisUp, useRedis, serving>>
    BY QuietStep
  <1>3. /\ serving[p] /\ useRedis[p] = redisUp /\ (wpc[p] = "pop" => useRedis[p])
        /\ IF redisUp THEN mem[p] = <<>> ELSE redis = <<>>
    BY <1>2 DEF OneQueue
  <1>4. wpc'[p] = "pop" => useRedis[p]
    <2>1. ASSUME NEW q \in Procs, Loop(q)
          PROVE  wpc'[p] = "pop" => useRedis[p]
      BY <1>1, <1>3, <2>1 DEF Loop
    <2>2. ASSUME NEW q \in Procs, ReadTrace(q) \/ Pop(q) \/ MemGet(q) \/ Commit(q) \/ RollBack(q)
          PROVE  wpc'[p] = wpc[p] \/ wpc'[p] # "pop"
      BY <1>1, <2>2 DEF ReadTrace, Pop, MemGet, Takes, Commit, RollBack, Done
    <2> QED
      BY <1>3, <2>1, <2>2, QuietStep
  <1>5. IF redisUp THEN mem'[p] = <<>> ELSE redis' = <<>>
    <2>1. ASSUME NEW q \in Procs, Loop(q) \/ ReadTrace(q) \/ Commit(q) \/ RollBack(q)
          PROVE  UNCHANGED <<redis, mem>>
      BY <2>1 DEF Loop, ReadTrace, Commit, RollBack, Done, environment
    <2>2. ASSUME NEW q \in Procs, Pop(q)
          PROVE  redisUp /\ mem' = mem
      BY <2>2 DEF Pop
    <2>3. ASSUME NEW q \in Procs, MemGet(q)
          PROVE  redis' = redis /\ (mem[p] = <<>> => mem'[p] = <<>>)
      BY <1>1, <2>3 DEF MemGet, environment
    <2> QED
      BY <1>3, <2>1, <2>2, <2>3, QuietStep
  <1> QED
    BY <1>2, <1>3, <1>4, <1>5

\* A rising queue stays one when a greater number is appended, and its head
\* is less than what is behind it.
LEMMA RisingAppend ==
    ASSUME NEW S, NEW q \in Seq(S), NEW e \in S, Rising(q), \A n \in Elements(q) : n < e
    PROVE  Rising(Append(q, e))
  <1>1. /\ Len(q) \in Nat /\ DOMAIN q = 1..Len(q)
        /\ DOMAIN Append(q, e) = 1..(Len(q) + 1)
        /\ \A i \in 1..Len(q) : Append(q, e)[i] = q[i]
        /\ Append(q, e)[Len(q) + 1] = e
    BY AppendProperties
  <1> SUFFICES ASSUME NEW i \in 1..(Len(q) + 1), NEW j \in 1..(Len(q) + 1), i < j
               PROVE  Append(q, e)[i] < Append(q, e)[j]
    BY <1>1 DEF Rising
  <1>2. i \in 1..Len(q)
    BY <1>1
  <1>3. CASE j \in 1..Len(q)
    BY <1>1, <1>2, <1>3 DEF Rising
  <1>4. CASE j = Len(q) + 1
    <2>1. q[i] \in Elements(q)
      BY <1>1, <1>2 DEF Elements
    <2> QED
      BY <1>1, <1>2, <1>4, <2>1
  <1> QED
    BY <1>1, <1>3, <1>4

\* The tail of a rising queue is rising, and its elements come after the head.
LEMMA RisingTail ==
    ASSUME NEW S, NEW q \in Seq(S), q # <<>>, Rising(q)
    PROVE  Rising(Tail(q)) /\ \A n \in Elements(Tail(q)) : Head(q) < n
  <1>1. /\ Len(q) \in Nat \ {0} /\ DOMAIN q = 1..Len(q)
        /\ DOMAIN Tail(q) = 1..(Len(q) - 1)
        /\ \A i \in 1..(Len(q) - 1) : Tail(q)[i] = q[i + 1]
        /\ Head(q) = q[1]
    BY HeadTailProperties
  <1>2. \A i \in 1..(Len(q) - 1) : i + 1 \in 1..Len(q) /\ 1 < i + 1 /\ 1 \in 1..Len(q)
    BY <1>1
  <1>3. Rising(Tail(q))
    <2> SUFFICES ASSUME NEW i \in 1..(Len(q) - 1), NEW j \in 1..(Len(q) - 1), i < j
                 PROVE  Tail(q)[i] < Tail(q)[j]
      BY <1>1 DEF Rising
    <2>1. i + 1 < j + 1
      BY <1>1
    <2> QED
      BY <1>1, <1>2, <2>1 DEF Rising
  <1>4. ASSUME NEW n \in Elements(Tail(q))
        PROVE  Head(q) < n
    <2>1. PICK i \in 1..(Len(q) - 1) : n = Tail(q)[i]
      BY <1>1 DEF Elements
    <2> QED
      BY <1>1, <1>2, <2>1 DEF Rising
  <1> QED
    BY <1>3, <1>4

\* A committed batch was committed before, or is committed now.
LEMMA CommittedNow ==
    ASSUME IndInv, [Next]_vars, NEW m \in Accepted', Committed(m)'
    PROVE  /\ m \in Accepted
           /\ Committed(m) \/ \E q \in Procs : Commit(q) /\ cur[q] = m
  <1>1. TypeOK /\ Shape /\ m \in 1..MaxIngests
    BY TypeStep, Types, BatchesKept DEF IndInv, TypeOK, Accepted
  <1>2. Committed(m) \/ \E q \in Procs : Commit(q) /\ cur[q] = m
    BY <1>1, FatesGrow DEF Committed
  <1>3. Committed(m) => m \in Accepted
    BY <1>1, Types DEF IndInv, FatesAwait, Accepted, Committed
  <1>4. ASSUME NEW q \in Procs, Commit(q), cur[q] = m
        PROVE  m \in Accepted
    BY <1>1, <1>4, Types DEF Commit, Done
  <1> QED
    BY <1>2, <1>3, <1>4

\* Alone and without faults, batches are queued, taken and committed in the
\* order they were accepted.
LEMMA InOrderStep == IndInv /\ OneQueue /\ InOrder /\ [Next]_vars => InOrder'
  <1> SUFFICES ASSUME IndInv, OneQueue, InOrder, [Next]_vars, Alone, faults' = 0, NEW p \in Procs
               PROVE  /\ Rising(redis') /\ Rising(mem'[p])
                      /\ \A n \in Elements(redis') \cup Elements(mem'[p]) :
                            cur'[p] < n /\ \A m \in Accepted' : Committed(m)' => m < n
                      /\ cur'[p] # NoBatch =>
                            \A m \in Accepted' : Committed(m)' => m < cur'[p]
    BY DEF InOrder, Alone, Rising, Elements
  <1>1. /\ TypeOK /\ Shape /\ mem \in [Procs -> Seq(Accepted)] /\ redis \in Seq(Accepted)
        /\ cur \in [Procs -> Accepted \cup {0}] /\ wpc \in [Procs -> WorkerPC]
        /\ \A q \in Procs : cur[q] # 0 <=> wpc[q] \in {"read", "commit"}
        /\ \A q \in Procs : q = p
        /\ \A q \in ApiProcs : q \in Procs
        /\ NoBatch = 0 /\ Len(batches) \in Nat /\ mem[p] \in Seq(Accepted)
        /\ Accepted \subseteq Nat \ {0}
    <2>1. TypeOK /\ Shape
      BY DEF IndInv
    <2>2. \A q \in Procs : q = p
      BY OneProcess
    <2> QED
      BY <2>1, <2>2, Types DEF Shape, NoBatch, Accepted
  <1>2. faults = 0
    BY QuietStep
  <1> DEFINE All == Elements(redis) \cup Elements(mem[p])
  <1>3. /\ Rising(redis) /\ Rising(mem[p])
        /\ \A n \in All : cur[p] < n /\ \A m \in Accepted : Committed(m) => m < n
        /\ cur[p] # 0 => \A m \in Accepted : Committed(m) => m < cur[p]
    BY <1>1, <1>2 DEF InOrder
  <1>4. All \subseteq Accepted /\ \A n \in Accepted : n \in Nat /\ 0 < n
    BY <1>1 DEF Elements, Accepted
  <1>5. ASSUME \A q \in Procs : ~Commit(q), NEW m \in Accepted', Committed(m)'
        PROVE  m \in Accepted /\ Committed(m)
    BY <1>5, CommittedNow
  <1>6. ASSUME UNCHANGED <<redis, mem, cur>>, \A q \in Procs : ~Commit(q)
        PROVE  /\ Rising(redis') /\ Rising(mem'[p])
               /\ \A n \in Elements(redis') \cup Elements(mem'[p]) :
                     cur'[p] < n /\ \A m \in Accepted' : Committed(m)' => m < n
               /\ cur'[p] # 0 => \A m \in Accepted' : Committed(m)' => m < cur'[p]
    BY <1>3, <1>5, <1>6
  <1>7. CASE \E q \in ApiProcs : \E b \in Batches :
                /\ Ingest(q, b) /\ UNCHANGED <<cur, wpc>>
                /\ \/ redisUp /\ mem' = mem /\ redis' = Append(redis, Len(batches) + 1)
                   \/ /\ ~redisUp /\ redis' = redis
                      /\ \/ mem' = mem
                         \/ mem' = [mem EXCEPT ![q] = Append(@, Len(batches) + 1)]
    <2> DEFINE N == Len(batches) + 1
    <2>1. \A q \in Procs : ~Commit(q)
      BY <1>1, <1>7 DEF Commit, Done
    <2>2. N \in Nat /\ \A n \in Accepted : n < N /\ n \in Nat
      BY <1>1 DEF Accepted
    <2>3. cur'[p] = cur[p]
      BY <1>7
    <2>4. redis' = redis \/ redis' = Append(redis, N)
      BY <1>7
    <2>5. mem'[p] = mem[p] \/ mem'[p] = Append(mem[p], N)
      BY <1>1, <1>7
    <2> HIDE DEF N
    <2>6. redis \in Seq(Nat) /\ mem[p] \in Seq(Nat)
      BY <1>1, SeqMonotonic
    <2>7. Rising(redis') /\ Rising(mem'[p])
      BY <1>3, <1>4, <2>2, <2>4, <2>5, <2>6, RisingAppend
    <2>8. Elements(redis') \cup Elements(mem'[p]) \subseteq All \cup {N}
      <3>1. Elements(redis') \subseteq Elements(redis) \cup {N}
        <4>1. redis' = Append(redis, N) => Elements(redis') = Elements(redis) \cup {N}
          BY <2>2, <2>6, ElementsAppend
        <4> QED
          BY <2>4, <4>1
      <3>2. Elements(mem'[p]) \subseteq Elements(mem[p]) \cup {N}
        <4>1. mem'[p] = Append(mem[p], N) => Elements(mem'[p]) = Elements(mem[p]) \cup {N}
          BY <2>2, <2>6, ElementsAppend, SMTT(30)
        <4> QED
          BY <2>5, <4>1
      <3> QED
        BY <3>1, <3>2
    <2>9. cur[p] < N /\ \A m \in Accepted : m < N
      <3>1. cur[p] \in Accepted \cup {0} /\ 0 < N
        BY <1>1 DEF N
      <3> QED
        BY <2>2, <3>1
    <2> QED
      BY <1>1, <1>3, <1>5, <2>1, <2>3, <2>7, <2>8, <2>9
  <1>8. CASE UNCHANGED <<batches, redis, mem, cur, wpc>>
    <2>1. \A q \in Procs : ~Commit(q)
      BY <1>1, <1>8 DEF Commit, Done
    <2> QED
      BY <1>1, <1>6, <1>8, <2>1
  <1>9. CASE Loop(p) \/ ReadTrace(p)
    <2>1. UNCHANGED <<redis, mem, cur>> /\ wpc[p] # "commit"
      BY <1>9 DEF Loop, ReadTrace, environment
    <2> QED
      BY <1>1, <1>6, <2>1 DEF Commit, Done
  <1>10. CASE Pop(p)
    <2>1. wpc[p] = "pop" /\ mem' = mem /\ cur[p] = 0 /\ \A q \in Procs : ~Commit(q)
      BY <1>1, <1>10 DEF Pop, Commit, Done
    <2>2. CASE redis # <<>> /\ redis' = Tail(redis) /\ cur' = [cur EXCEPT ![p] = Head(redis)]
      <3>1. /\ Rising(Tail(redis)) /\ \A n \in Elements(Tail(redis)) : Head(redis) < n
            /\ Elements(redis) = Elements(Tail(redis)) \cup {Head(redis)}
        BY <1>1, <1>3, <2>2, RisingTail, ElementsTail
      <3>2. mem[p] = <<>>
        <4>1. redisUp
          BY <1>10 DEF Pop
        <4> QED
          BY <1>2, <4>1 DEF OneQueue
      <3>3. cur'[p] = Head(redis) /\ mem'[p] = <<>> /\ Elements(mem'[p]) = {}
        BY <1>1, <2>1, <2>2, <3>2 DEF Elements
      <3> QED
        BY <1>3, <1>5, <2>1, <2>2, <3>1, <3>3 DEF Rising
    <2>3. CASE UNCHANGED <<redis, cur>>
      BY <1>1, <1>6, <2>1, <2>3
    <2> QED
      BY <1>10, <2>2, <2>3 DEF Pop, Takes
  <1>11. CASE MemGet(p)
    <2>1. wpc[p] = "mem" /\ redis' = redis /\ cur[p] = 0 /\ \A q \in Procs : ~Commit(q)
      BY <1>1, <1>11 DEF MemGet, Commit, Done, environment
    <2>2. CASE /\ mem[p] # <<>> /\ mem' = [mem EXCEPT ![p] = Tail(@)]
               /\ cur' = [cur EXCEPT ![p] = Head(mem[p])]
      <3>1. /\ Rising(Tail(mem[p])) /\ \A n \in Elements(Tail(mem[p])) : Head(mem[p]) < n
            /\ Elements(mem[p]) = Elements(Tail(mem[p])) \cup {Head(mem[p])}
        BY <1>1, <1>3, <2>2, RisingTail, ElementsTail
      <3>2. redis = <<>> /\ redis' = <<>> /\ Elements(redis') = {}
        BY <1>2, <2>1, <2>2 DEF OneQueue, Elements
      <3>3. cur'[p] = Head(mem[p]) /\ mem'[p] = Tail(mem[p])
        BY <1>1, <2>2
      <3> QED
        BY <1>3, <1>5, <2>1, <3>1, <3>2, <3>3 DEF Rising
    <2>3. CASE UNCHANGED <<mem, cur>>
      BY <1>1, <1>6, <2>1, <2>3
    <2> QED
      BY <1>11, <2>2, <2>3 DEF MemGet, Takes
  <1>12. CASE Commit(p)
    <2>1. UNCHANGED <<redis, mem>> /\ cur'[p] = 0
      BY <1>1, <1>12 DEF Commit, Done, environment
    <2>2. ASSUME NEW m \in Accepted', Committed(m)'
          PROVE  m \in Accepted /\ (Committed(m) \/ m = cur[p])
      BY <1>1, <2>2, CommittedNow
    <2>3. \A n \in All : 0 < n
      <3> HIDE DEF All
      <3> QED
        BY <1>4
    <2> QED
      BY <1>1, <1>3, <2>1, <2>2, <2>3
  <1>13. CASE RollBack(p)
    <2>1. UNCHANGED <<redis, mem>> /\ cur'[p] = 0 /\ rows' = rows
      BY <1>1, <1>13 DEF RollBack, Done, environment
    <2>2. ASSUME NEW m \in Accepted', Committed(m)'
          PROVE  m \in Accepted /\ (Committed(m) \/ m = cur[p])
      BY <1>1, <2>2, CommittedNow
    <2>3. \A n \in All : 0 < n
      <3> HIDE DEF All
      <3> QED
        BY <1>4
    <2> QED
      BY <1>1, <1>3, <2>1, <2>2, <2>3
  <1> QED
    BY <1>1, <1>7, <1>8, <1>9, <1>10, <1>11, <1>12, <1>13, QuietStep

\* A lone worker's commit leaves the batch's own last snapshot in each of its
\* rows, or no row.
LEMMA CommitWrites ==
    ASSUME IndInv, SeenCurrent, Alone, NEW p \in Procs, Commit(p), NEW x \in Ids(cur[p])
    PROVE  rows'[x] \in {0, LastVersion(cur[p], x)}
  <1> DEFINE b == batches[cur[p]]
  <1>1. /\ TypeOK /\ Shape /\ cur[p] # NoBatch /\ cur[p] \in Accepted /\ b \in Batches
        /\ seen[p] \in Seq(Versions \cup {0}) /\ Len(seen[p]) = Len(b)
    BY Types DEF IndInv, Shape, Reads, Commit, Done, NoBatch
  <1>2. DOMAIN b = 1..Len(b) /\ DOMAIN seen[p] = DOMAIN b /\ Len(b) \in Nat
    BY <1>1, BatchIsSeq
  <1>3. x \in TraceIds
    BY <1>1, LastVersionType
  <1>4. PICK i \in DOMAIN b : b[i].id = x /\ Loaded(p, x) = seen[p][i]
    BY <1>1, LoadedFirst
  <1>5. CASE Inserts(p, x) # {} \/ Replaces(p, x)
    BY <1>3, <1>5 DEF Commit
  <1>6. CASE Inserts(p, x) = {} /\ ~Replaces(p, x)
    <2>1. rows'[x] = rows[x]
      BY <1>3, <1>6 DEF Commit
    <2>2. seen[p][i] # 0
      BY <1>4, <1>6 DEF Inserts
    <2>3. LastVersion(cur[p], x) = seen[p][i]
      BY <1>4, <1>6, <2>2 DEF Replaces
    <2>4. rows[x] \in {0, seen[p][i]}
      BY <1>2, <1>4 DEF SeenCurrent
    <2> QED
      BY <2>1, <2>3, <2>4
  <1> QED
    BY <1>5, <1>6

\* Alone and without faults, the row of a trace holds what the last committed
\* batch that names it said.
LEMMA NewestStep ==
    IndInv /\ SeenCurrent /\ OneQueue /\ InOrder /\ NewestWins /\ [Next]_vars => NewestWins'
  <1> SUFFICES ASSUME IndInv, SeenCurrent, OneQueue, InOrder, NewestWins, [Next]_vars, Alone,
                      faults' = 0, NEW x \in TraceIds, NEW n \in Accepted',
                      rows'[x] # 0, x \in Ids(n)', Committed(n)',
                      \A m \in Accepted' : m > n => ~(x \in Ids(m)' /\ Committed(m)')
               PROVE  rows'[x] = LastVersion(n, x)'
    BY DEF NewestWins, Alone, Committed
  <1>1. /\ TypeOK /\ Shape /\ faults = 0 /\ NoBatch = 0 /\ Accepted \subseteq Accepted'
        /\ Accepted \subseteq Nat
    BY QuietStep, BatchesKept, Types DEF IndInv, NoBatch, Accepted
  <1>2. n \in Accepted /\ (Committed(n) \/ \E q \in Procs : Commit(q) /\ cur[q] = n)
    BY CommittedNow
  <1>3. Ids(n)' = Ids(n) /\ LastVersion(n, x)' = LastVersion(n, x)
    BY <1>1, <1>2, BatchesKept DEF LastVersion
  <1>4. ASSUME NEW m \in Accepted, Committed(m)
        PROVE  Committed(m)' /\ Ids(m)' = Ids(m)
    BY <1>1, <1>4, FatesGrow, BatchesKept, Types DEF Committed
  <1>5. CASE \E q \in Procs : Commit(q) /\ x \in Ids(cur[q])
    <2>1. PICK q \in Procs : Commit(q) /\ x \in Ids(cur[q])
      BY <1>5
    <2>2. cur[q] \in Accepted /\ cur[q] # NoBatch
      BY <1>1, <2>1, Types DEF Commit, Done
    <2>3. "committed" \in fates'[cur[q]] /\ Ids(cur[q]) = {batches'[cur[q]][i].id : i \in DOMAIN batches'[cur[q]]}
      <3>1. cur[q] \in 1..MaxIngests /\ fates \in [1..MaxIngests -> SUBSET Fates]
        BY <1>1, <2>2, Types DEF Shape
      <3>2. "committed" \in fates'[cur[q]]
        BY <2>1, <3>1 DEF Commit, MeetsFate
      <3>3. batches'[cur[q]] = batches[cur[q]]
        BY <1>1, <2>2, BatchesKept
      <3> QED
        BY <3>2, <3>3 DEF Ids
    <2>4. n = cur[q]
      <3>1. Committed(n) => n < cur[q]
        BY <1>1, <1>2, <2>2 DEF InOrder
      <3>2. ~(cur[q] > n)
        <4>1. cur[q] \in Accepted'
          BY <1>1, <2>2, BatchesKept
        <4>2. cur[q] > n => ~(x \in {batches'[cur[q]][i].id : i \in DOMAIN batches'[cur[q]]}
                               /\ "committed" \in fates'[cur[q]])
          BY <4>1 DEF Ids, Committed
        <4> QED
          BY <2>1, <2>3, <4>2
      <3>3. \A r \in Procs : r = q
        BY OneProcess
      <3> QED
        BY <1>1, <1>2, <2>2, <3>1, <3>2, <3>3
    <2>5. rows'[x] \in {0, LastVersion(cur[q], x)}
      BY <2>1, CommitWrites
    <2> QED
      BY <1>3, <2>4, <2>5
  <1>6. CASE ~ \E q \in Procs : Commit(q) /\ x \in Ids(cur[q])
    <2>1. rows'[x] = rows[x]
      BY <1>6, RowsChange
    <2>2. Committed(n)
      BY <1>2, <1>3, <1>6
    <2>3. \A m \in Accepted : m > n => ~(x \in Ids(m) /\ Committed(m))
      BY <1>1, <1>4
    <2> QED
      BY <1>1, <1>2, <1>3, <2>1, <2>2, <2>3 DEF NewestWins, Committed
  <1> QED
    BY <1>5, <1>6

\* A worker's loaded ends change only with its batch, or with a read.
LEMMA EndsHands ==
    ASSUME IndInv, [Next]_vars, NEW p \in Procs
    PROVE  \/ cur'[p] = cur[p] /\ seenEnds'[p] = seenEnds[p]
           \/ seenEnds'[p] = <<>>
           \/ ReadTrace(p)
  <1>1. /\ cur \in [Procs -> Accepted \cup {NoBatch}]
        /\ seenEnds \in [Procs -> Seq(Versions \cup {0})]
    BY DEF IndInv, Shape, EndsShape
  <1> DEFINE Same == cur'[p] = cur[p] /\ seenEnds'[p] = seenEnds[p]
             Fresh == seenEnds'[p] = <<>>
  <1>2. UNCHANGED <<cur, seenEnds>> => Same
    OBVIOUS
  <1>3. ASSUME NEW q \in Procs, NEW n, cur' = [cur EXCEPT ![q] = n],
               seenEnds' = [seenEnds EXCEPT ![q] = <<>>]
        PROVE  Same \/ Fresh
    BY <1>1, <1>3
  <1>4. ASSUME NEW q \in ApiProcs, \/ \E b \in Batches : Ingest(q, b)
                                   \/ PurgeFind(q) \/ PurgeDelete(q) \/ Stop(q) \/ StartAgain(q)
                                   \/ \E ids \in SUBSET TraceIds : DeleteTraces(q, ids)
        PROVE  UNCHANGED <<cur, seenEnds>>
    BY <1>4 DEF Ingest, PurgeFind, PurgeDelete, Stop, StartAgain, DeleteTraces, control
  <1>5. ASSUME NEW q \in Procs, \/ Loop(q) \/ Pop(q) \/ PopFails(q) \/ MemGet(q) \/ Commit(q)
                                \/ RollBack(q) \/ Replaced(q)
        PROVE  Same \/ Fresh
    <2>1. \/ UNCHANGED <<cur, seenEnds>>
          \/ \E n : cur' = [cur EXCEPT ![q] = n] /\ seenEnds' = [seenEnds EXCEPT ![q] = <<>>]
      BY <1>5 DEF Loop, Pop, PopFails, MemGet, Commit, RollBack, Done, Takes, Replaced, Crash,
         Redeploy, NewProcess
    <2> QED
      BY <1>2, <1>3, <2>1
  <1>6. ASSUME NEW q \in Procs, ReadTrace(q)
        PROVE  Same \/ ReadTrace(p)
    <2>1. CASE q # p
      BY <1>1, <1>6, <2>1 DEF ReadTrace
    <2> QED
      BY <1>6, <2>1
  <1>7. CASE RedisFails \/ RedisReturns \/ UNCHANGED vars
    BY <1>2, <1>7 DEF RedisFails, RedisReturns, vars, control
  <1>8. Same \/ Fresh \/ ReadTrace(p)
    <2> DEFINE Fine == Same \/ Fresh \/ ReadTrace(p)
    <2>1. \A q \in ApiProcs : ((\E b \in Batches : Ingest(q, b)) \/ PurgeFind(q) \/ PurgeDelete(q)
                                 \/ Stop(q) \/ StartAgain(q)
                                 \/ \E ids \in SUBSET TraceIds : DeleteTraces(q, ids)) => Fine
      BY <1>2, <1>4
    <2>2. \A q \in Procs : (Loop(q) \/ Pop(q) \/ PopFails(q) \/ MemGet(q) \/ Commit(q)
                              \/ RollBack(q) \/ Replaced(q) \/ ReadTrace(q)) => Fine
      BY <1>5, <1>6
    <2> HIDE DEF Fine
    <2> QED
      <3>1. CASE UNCHANGED vars
        BY <1>7, <3>1 DEF Fine
      <3>2. CASE Next
        BY <1>7, <2>1, <2>2, <3>2, StepKinds DEF Fine
      <3> QED
        BY <3>1, <3>2
  <1> QED
    BY <1>8

\* Ends and first snapshots change only when a batch with the trace is
\* committed, or when the trace is deleted.
LEMMA EndsChange ==
    ASSUME IndInv, [Next]_vars, NEW x \in TraceIds
    PROVE  \/ ends'[x] = ends[x] /\ firsts'[x] = firsts[x]
           \/ x \in deleted'
           \/ \E p \in Procs : Commit(p) /\ x \in Ids(cur[p])
  <1>1. ASSUME NEW p \in ApiProcs, NEW ids, TakeOut(ids), ids \subseteq deleted'
        PROVE  (ends'[x] = ends[x] /\ firsts'[x] = firsts[x]) \/ x \in deleted'
    BY <1>1
  <1>2. ASSUME NEW p \in ApiProcs, PurgeDelete(p) \/ \E ids \in SUBSET TraceIds : DeleteTraces(p, ids)
        PROVE  (ends'[x] = ends[x] /\ firsts'[x] = firsts[x]) \/ x \in deleted'
    <2>1. \E ids : TakeOut(ids) /\ ids \subseteq deleted'
      BY <1>2 DEF PurgeDelete, DeleteTraces
    <2> QED
      BY <1>1, <1>2, <2>1
  <1>3. ASSUME NEW p \in ApiProcs, \/ \E b \in Batches : Ingest(p, b)
                                   \/ PurgeFind(p) \/ Stop(p) \/ StartAgain(p)
        PROVE  UNCHANGED <<ends, firsts>>
    BY <1>3 DEF Ingest, PurgeFind, Stop, StartAgain
  <1>4. ASSUME NEW p \in Procs, \/ Loop(p) \/ Pop(p) \/ PopFails(p) \/ MemGet(p) \/ ReadTrace(p)
                                \/ RollBack(p) \/ Replaced(p)
        PROVE  UNCHANGED <<ends, firsts>>
    BY <1>4 DEF Loop, Pop, PopFails, MemGet, ReadTrace, RollBack, Done, Replaced, Crash,
       Redeploy, NewProcess
  <1>5. ASSUME NEW p \in Procs, Commit(p), x \notin Ids(cur[p])
        PROVE  ends'[x] = ends[x] /\ firsts'[x] = firsts[x]
    BY <1>5 DEF Commit
  <1>6. RedisFails \/ RedisReturns \/ UNCHANGED vars => UNCHANGED <<ends, firsts>>
    BY DEF RedisFails, RedisReturns, vars
  <1> QED
    BY <1>2, <1>3, <1>4, <1>5, <1>6, StepKinds

\* The read of the next trace's end, in detail.
LEMMA EndsRead ==
    ASSUME IndInv, NEW p \in Procs, ReadTrace(p)
    PROVE  /\ UNCHANGED <<batches, ends, deleted, cur>>
           /\ DOMAIN seenEnds[p] = 1..Len(seen[p])
           /\ DOMAIN seenEnds'[p] = 1..(Len(seen[p]) + 1)
           /\ \A i \in 1..Len(seen[p]) : seenEnds'[p][i] = seenEnds[p][i]
           /\ seenEnds'[p][Len(seen[p]) + 1] = ends[batches[cur[p]][Len(seen[p]) + 1].id]
  <1> DEFINE s == seenEnds[p]
             v == ends[batches[cur[p]][Len(seen[p]) + 1].id]
  <1>1. /\ seenEnds \in [Procs -> Seq(Versions \cup {0})] /\ Len(s) = Len(seen[p])
        /\ ends \in [TraceIds -> Versions \cup {0}]
    BY DEF IndInv, EndsShape
  <1>2. seenEnds'[p] = Append(s, v) /\ UNCHANGED <<batches, ends, deleted, cur>>
    BY <1>1 DEF ReadTrace
  <1>3. v \in Versions \cup {0}
    BY <1>1, ReadFacts
  <1>4. s \in Seq(Versions \cup {0}) /\ DOMAIN s = 1..Len(s)
    BY <1>1
  <1>5. /\ DOMAIN Append(s, v) = 1..(Len(s) + 1) /\ Append(s, v)[Len(s) + 1] = v
        /\ \A i \in 1..Len(s) : Append(s, v)[i] = s[i]
    <2> HIDE DEF s, v
    <2> QED
      BY <1>3, <1>4, AppendProperties
  <1> QED
    BY <1>1, <1>2, <1>4, <1>5

\* Alone, an end that the worker loaded is still the row's, or the trace was
\* deleted: only this worker writes ends.
LEMMA EndsCurrentStep == IndInv /\ EndsCurrent /\ [Next]_vars => EndsCurrent'
  <1> SUFFICES ASSUME IndInv, EndsCurrent, [Next]_vars, Alone, NEW p \in Procs,
                      NEW i \in DOMAIN seenEnds'[p]
               PROVE  LET x == batches'[cur'[p]][i].id IN
                      ends'[x] = seenEnds'[p][i] \/ x \in deleted'
    BY DEF EndsCurrent, Alone
  <1>1. TypeOK /\ Shape /\ EndsShape /\ Reads /\ NoBatch = 0 /\ deleted \subseteq deleted'
    BY RowsChange DEF IndInv, NoBatch
  <1>2. CASE seenEnds'[p] = <<>>
    BY <1>2
  <1>3. CASE cur'[p] = cur[p] /\ seenEnds'[p] = seenEnds[p] /\ seenEnds[p] # <<>>
    <2>1. cur[p] \in Accepted /\ batches[cur[p]] \in Batches /\ Len(seen[p]) <= Len(batches[cur[p]])
      <3>1. seen[p] # <<>>
        BY <1>1, <1>3 DEF EndsShape, Shape
      <3> QED
        BY <1>1, <3>1, Types DEF Reads, Shape, TypeOK
    <2>2. i \in 1..Len(seenEnds[p]) /\ Len(seenEnds[p]) <= Len(batches[cur[p]])
      BY <1>1, <1>3, <2>1 DEF EndsShape
    <2>3. i \in DOMAIN batches[cur[p]] /\ batches[cur[p]][i].id \in TraceIds
      BY <1>1, <2>1, <2>2, BatchIsSeq DEF EndsShape
    <2>4. batches'[cur'[p]] = batches[cur[p]]
      BY <1>1, <1>3, <2>1, BatchesKept
    <2>5. ~ \E q \in Procs : Commit(q)
      <3>1. ASSUME NEW q \in Procs, Commit(q)
            PROVE  FALSE
        <4>1. q = p
          BY OneProcess
        <4>2. seenEnds'[p] = <<>>
          BY <1>1, <3>1, <4>1 DEF Commit, Done, EndsShape
        <4> QED
          BY <1>3, <4>2
      <3> QED
        BY <3>1
    <2> DEFINE x == batches[cur[p]][i].id
    <2>6. ends'[x] = ends[x] \/ x \in deleted'
      BY <2>3, <2>5, EndsChange
    <2>7. ends[x] = seenEnds[p][i] \/ x \in deleted
      BY <1>3 DEF EndsCurrent
    <2> QED
      BY <1>1, <1>3, <2>4, <2>6, <2>7
  <1>4. CASE ReadTrace(p)
    <2>1. UNCHANGED <<batches, ends, deleted, cur>>
      BY <1>4, EndsRead
    <2>2. CASE i \in 1..Len(seen[p])
      BY <1>4, <2>1, <2>2, EndsRead DEF EndsCurrent
    <2>3. CASE i = Len(seen[p]) + 1
      BY <1>4, <2>1, <2>3, EndsRead
    <2>4. i \in 1..(Len(seen[p]) + 1) /\ Len(seen[p]) \in Nat
      BY <1>4, EndsRead, ReadFacts
    <2> QED
      BY <2>2, <2>3, <2>4
  <1> QED
    BY <1>2, <1>3, <1>4, EndsHands

\* What a lone worker's commit does with a trace that was never deleted: it
\* inserts it where there is no row, and only there, and changes its end only
\* to another one.
LEMMA CommitMerges ==
    ASSUME IndInv, SeenCurrent, EndsCurrent, Alone, NEW p \in Procs, Commit(p),
           NEW x \in Ids(cur[p]), x \notin deleted
    PROVE  /\ cur[p] \in Accepted /\ x \in TraceIds
           /\ firsts'[x] = IF rows[x] = 0 THEN FirstVersion(cur[p], x) ELSE firsts[x]
           /\ LastEnded(cur[p], x) # 0 => ends'[x] = LastEnded(cur[p], x)
           /\ LastEnded(cur[p], x) = 0 /\ rows[x] # 0 => ends'[x] = ends[x]
  <1> DEFINE b == batches[cur[p]]
  <1>1. /\ TypeOK /\ Shape /\ cur[p] # NoBatch /\ cur[p] \in Accepted /\ b \in Batches
        /\ seen[p] \in Seq(Versions \cup {0}) /\ Len(seen[p]) = Len(b)
        /\ seenEnds[p] \in Seq(Versions \cup {0}) /\ Len(seenEnds[p]) = Len(b)
    BY Types DEF IndInv, Shape, EndsShape, Reads, Commit, Done, NoBatch
  <1>2. DOMAIN b = 1..Len(b) /\ DOMAIN seen[p] = DOMAIN b /\ DOMAIN seenEnds[p] = DOMAIN b
        /\ Len(b) \in Nat
    BY <1>1, BatchIsSeq
  <1>3. x \in TraceIds
    BY <1>1, LastVersionType
  <1>4. PICK i \in DOMAIN b : /\ b[i].id = x /\ Loaded(p, x) = seen[p][i]
                              /\ LoadedEnd(p, x) = seenEnds[p][i]
    BY <1>1, LoadedFirst
  <1>5. \A j \in DOMAIN b : b[j].id = x => (seen[p][j] = 0 <=> rows[x] = 0)
    BY <1>2 DEF SeenCurrent, IndInv, SeenStays
  <1>6. Inserts(p, x) # {} <=> rows[x] = 0
    BY <1>4, <1>5 DEF Inserts
  <1>7. LoadedEnd(p, x) = ends[x]
    BY <1>2, <1>4 DEF EndsCurrent
  <1>8. EndsAnew(p, x) => LastEnded(cur[p], x) # 0 /\ rows[x] # 0
    BY <1>4, <1>5 DEF EndsAnew
  <1>9. ends'[x] = IF Inserts(p, x) # {} \/ EndsAnew(p, x) THEN LastEnded(cur[p], x) ELSE ends[x]
    BY <1>3 DEF Commit
  <1>10. LastEnded(cur[p], x) # 0 => ends'[x] = LastEnded(cur[p], x)
    <2>1. CASE rows[x] = 0
      BY <1>6, <1>9, <2>1
    <2>2. CASE rows[x] # 0
      <3>1. Loaded(p, x) # 0
        BY <1>4, <1>5, <2>2
      <3> QED
        BY <1>7, <1>9, <3>1 DEF EndsAnew
    <2> QED
      BY <2>1, <2>2
  <1>11. firsts'[x] = IF rows[x] = 0 THEN FirstVersion(cur[p], x) ELSE firsts[x]
    BY <1>3, <1>6 DEF Commit
  <1> QED
    BY <1>1, <1>3, <1>6, <1>8, <1>9, <1>10, <1>11

\* What an accepted batch holds does not change.
LEMMA ContentsStay ==
    ASSUME TypeOK, Shape, [Next]_vars, NEW m \in Accepted, NEW x
    PROVE  /\ m \in Accepted' /\ Ids(m)' = Ids(m)
           /\ LastEnded(m, x)' = LastEnded(m, x) /\ FirstVersion(m, x)' = FirstVersion(m, x)
  <1>1. m \in Accepted' /\ batches'[m] = batches[m] /\ Ids(m)' = Ids(m)
    BY BatchesKept
  <1>2. EndsIn(m, x)' = EndsIn(m, x)
    BY <1>1 DEF EndsIn
  <1>3. LastEnded(m, x)' = LastEnded(m, x)
    BY <1>1, <1>2 DEF LastEnded
  <1>4. FirstVersion(m, x)' = FirstVersion(m, x)
    BY <1>1 DEF FirstVersion
  <1> QED
    BY <1>1, <1>3, <1>4

\* Alone and without faults: a step, as the columns of a trace see it. Either
\* they stay, and with them what is committed of the trace, or the worker
\* commits a batch with the trace that is newer than all committed ones.
LEMMA ColumnsStep ==
    ASSUME IndInv, SeenCurrent, EndsCurrent, OneQueue, InOrder, [Next]_vars, Alone, faults' = 0,
           NEW x \in TraceIds, x \notin deleted', NEW n \in Accepted', x \in Ids(n)', Committed(n)'
    PROVE  /\ faults = 0 /\ x \notin deleted /\ n \in Accepted /\ x \in Ids(n) /\ n \in Nat
           /\ LastEnded(n, x)' = LastEnded(n, x) /\ FirstVersion(n, x)' = FirstVersion(n, x)
           /\ \A m \in Accepted : /\ m \in Accepted' /\ Ids(m)' = Ids(m)
                                   /\ LastEnded(m, x)' = LastEnded(m, x)
                                   /\ Committed(m) => Committed(m)'
           /\ \/ /\ Committed(n) /\ ends'[x] = ends[x] /\ firsts'[x] = firsts[x]
              \/ \E p \in Procs :
                    /\ Commit(p) /\ x \in Ids(cur[p]) /\ cur[p] \in Accepted /\ cur[p] \in Nat
                    /\ "committed" \in fates'[cur[p]]
                    /\ n = cur[p] \/ (Committed(n) /\ n < cur[p] /\ rows[x] # 0)
                    /\ n = cur[p] => rows[x] = 0 \/ \E m \in Accepted : /\ m < n /\ Committed(m)
                                                                        /\ x \in Ids(m)
  <1>1. /\ TypeOK /\ Shape /\ AllOrNothing /\ faults = 0 /\ NoBatch = 0
        /\ Accepted \subseteq Accepted' /\ Accepted \subseteq Nat
        /\ deleted \subseteq deleted'
    BY QuietStep, BatchesKept, RowsChange, Types DEF IndInv, NoBatch, Accepted
  <1>2. n \in Accepted /\ (Committed(n) \/ \E q \in Procs : Commit(q) /\ cur[q] = n)
    BY CommittedNow
  <1>3. \A m \in Accepted : /\ m \in Accepted' /\ Ids(m)' = Ids(m)
                            /\ LastEnded(m, x)' = LastEnded(m, x)
                            /\ FirstVersion(m, x)' = FirstVersion(m, x)
    BY <1>1, ContentsStay
  <1>4. \A m \in Accepted : Committed(m) => Committed(m)'
    BY <1>1, FatesGrow, Types DEF Committed
  <1>5. CASE \E q \in Procs : Commit(q) /\ x \in Ids(cur[q])
    <2>1. PICK q \in Procs : Commit(q) /\ x \in Ids(cur[q])
      BY <1>5
    <2>2. cur[q] \in Accepted /\ cur[q] # NoBatch
      BY <1>1, <2>1, Types DEF Commit, Done
    <2>3. "committed" \in fates'[cur[q]]
      <3>1. cur[q] \in 1..MaxIngests /\ fates \in [1..MaxIngests -> SUBSET Fates]
        BY <1>1, <2>2, Types DEF Shape
      <3>2. "committed" \in fates'[cur[q]]
        BY <2>1, <3>1 DEF Commit, MeetsFate
      <3> QED
        BY <2>2, <3>2 DEF Committed
    <2>4. \A m \in Accepted : Committed(m) => m < cur[q]
      BY <1>1, <2>2 DEF InOrder
    <2>5. \A r \in Procs : r = q
      BY OneProcess
    <2>6. n = cur[q] \/ (Committed(n) /\ n < cur[q] /\ rows[x] # 0)
      BY <1>1, <1>2, <1>3, <2>4, <2>5 DEF AllOrNothing, Committed
    <2>7. rows[x] = 0 \/ \E m \in Accepted : m < cur[q] /\ Committed(m) /\ x \in Ids(m)
      <3>1. SUFFICES ASSUME rows[x] # 0
                     PROVE  \E m \in Accepted : m < cur[q] /\ Committed(m) /\ x \in Ids(m)
        OBVIOUS
      <3>2. PICK m \in Accepted : /\ "committed" \in fates[m]
                                  /\ \E i \in DOMAIN batches[m] :
                                       batches[m][i].id = x /\ batches[m][i].ver = rows[x]
        BY <1>1, <3>1 DEF AllOrNothing
      <3>3. x \in Ids(m) /\ Committed(m)
        BY <3>2 DEF Ids, Committed
      <3> QED
        BY <2>4, <3>3
    <2> QED
      BY <1>1, <1>2, <1>3, <1>4, <2>1, <2>2, <2>3, <2>6, <2>7
  <1>6. CASE ~ \E q \in Procs : Commit(q) /\ x \in Ids(cur[q])
    <2>1. ends'[x] = ends[x] /\ firsts'[x] = firsts[x]
      BY <1>6, EndsChange
    <2>2. Committed(n)
      BY <1>2, <1>3, <1>6
    <2> QED
      BY <1>1, <1>2, <1>3, <1>4, <2>1, <2>2
  <1> QED
    BY <1>5, <1>6

\* Alone and without faults, a trace has the end that the newest committed batch
\* with an end for it has.
LEMMA EndsKeptStep ==
    IndInv /\ SeenCurrent /\ EndsCurrent /\ OneQueue /\ InOrder /\ EndsKept /\ [Next]_vars
        => EndsKept'
  <1> SUFFICES ASSUME IndInv, SeenCurrent, EndsCurrent, OneQueue, InOrder, EndsKept, [Next]_vars,
                      Alone, faults' = 0, NEW x \in TraceIds, x \notin deleted', NEW n \in Accepted',
                      LastEnded(n, x)' # 0, Committed(n)',
                      \A m \in Accepted' : m > n => ~(LastEnded(m, x)' # 0 /\ Committed(m)')
               PROVE  ends'[x] = LastEnded(n, x)'
    BY DEF EndsKept, Alone, Committed
  <1>1. n \in Accepted /\ TypeOK /\ Shape
    BY CommittedNow DEF IndInv
  <1>2. LastEnded(n, x)' = LastEnded(n, x) /\ Ids(n)' = Ids(n)
    BY <1>1, ContentsStay
  <1>3. x \in Ids(n)'
    BY <1>1, <1>2, LastEndedType
  <1>6. \A m \in Accepted : m \in Accepted' /\ LastEnded(m, x)' = LastEnded(m, x)
    BY <1>1, ContentsStay
  <1>7. \A m \in Accepted : Committed(m) => Committed(m)'
    BY <1>1, FatesGrow, Types DEF Committed
  <1>4. CASE Committed(n) /\ ends'[x] = ends[x]
    <2>1. \A m \in Accepted : m > n => ~(LastEnded(m, x) # 0 /\ Committed(m))
      BY <1>6, <1>7
    <2>2. faults = 0 /\ x \notin deleted
      BY <1>3, ColumnsStep
    <2> QED
      BY <1>1, <1>2, <1>4, <2>1, <2>2 DEF EndsKept, Committed
  <1>5. ASSUME NEW p \in Procs, Commit(p), x \in Ids(cur[p]), cur[p] \in Accepted, cur[p] \in Nat,
               "committed" \in fates'[cur[p]], n = cur[p] \/ (Committed(n) /\ n < cur[p] /\ rows[x] # 0)
        PROVE  ends'[x] = LastEnded(n, x)'
    <2>1. x \notin deleted /\ n \in Nat
      BY <1>3, ColumnsStep
    <2>2. CASE LastEnded(cur[p], x) # 0
      <3>1. cur[p] \in Accepted'
        BY <1>5, <1>6
      <3>2. ~(cur[p] > n)
        <4>1. ASSUME NEW m \in Accepted', m = cur[p], m > n
              PROVE  FALSE
          <5>1. LastEnded(m, x)' # 0
            BY <1>5, <1>6, <2>2, <4>1
          <5>2. Committed(m)'
            BY <1>5, <4>1 DEF Committed
          <5> QED
            BY <4>1, <5>1, <5>2
        <4> QED
          BY <3>1, <4>1
      <3>3. n = cur[p]
        BY <1>5, <2>1, <3>2
      <3> QED
        BY <1>2, <1>5, <2>1, <2>2, <3>3, CommitMerges
    <2>3. CASE LastEnded(cur[p], x) = 0
      <3>1. n # cur[p]
        BY <1>2, <2>3
      <3>2. Committed(n) /\ rows[x] # 0
        BY <1>5, <3>1
      <3>3. ends'[x] = ends[x]
        BY <1>5, <2>1, <2>3, <3>2, CommitMerges
      <3> QED
        BY <1>4, <3>2, <3>3
    <2> QED
      BY <2>2, <2>3
  <1> QED
    BY <1>3, <1>4, <1>5, ColumnsStep

\* Alone and without faults, a trace has the name that the oldest committed
\* batch has for it.
LEMMA FirstKeptStep ==
    IndInv /\ SeenCurrent /\ EndsCurrent /\ OneQueue /\ InOrder /\ FirstKept /\ [Next]_vars
        => FirstKept'
  <1> SUFFICES ASSUME IndInv, SeenCurrent, EndsCurrent, OneQueue, InOrder, FirstKept, [Next]_vars,
                      Alone, faults' = 0, NEW x \in TraceIds, x \notin deleted', NEW n \in Accepted',
                      x \in Ids(n)', Committed(n)',
                      \A m \in Accepted' : m < n => ~(x \in Ids(m)' /\ Committed(m)')
               PROVE  firsts'[x] = FirstVersion(n, x)'
    BY DEF FirstKept, Alone, Committed
  <1>1. /\ faults = 0 /\ x \notin deleted /\ n \in Accepted /\ x \in Ids(n)
        /\ FirstVersion(n, x)' = FirstVersion(n, x)
    BY ColumnsStep
  <1>2. \A m \in Accepted : m < n => ~(x \in Ids(m) /\ Committed(m))
    <2>1. TypeOK /\ Shape
      BY DEF IndInv
    <2>2. \A m \in Accepted : m \in Accepted' /\ Ids(m)' = Ids(m)
      BY <2>1, ContentsStay
    <2>3. \A m \in Accepted : Committed(m) => Committed(m)'
      BY <2>1, FatesGrow, Types DEF Committed
    <2> QED
      BY <2>2, <2>3
  <1>3. CASE Committed(n) /\ firsts'[x] = firsts[x]
    BY <1>1, <1>2, <1>3 DEF FirstKept, Committed
  <1>4. ASSUME NEW p \in Procs, Commit(p), x \in Ids(cur[p]),
               n = cur[p] \/ (Committed(n) /\ n < cur[p] /\ rows[x] # 0),
               n = cur[p] => rows[x] = 0 \/ \E m \in Accepted : m < n /\ Committed(m) /\ x \in Ids(m)
        PROVE  firsts'[x] = FirstVersion(n, x)'
    <2>1. firsts'[x] = IF rows[x] = 0 THEN FirstVersion(cur[p], x) ELSE firsts[x]
      BY <1>1, <1>4, CommitMerges
    <2>2. CASE n = cur[p]
      BY <1>1, <1>2, <1>4, <2>1, <2>2
    <2>3. CASE n # cur[p]
      BY <1>3, <1>4, <2>1, <2>3
    <2> QED
      BY <2>2, <2>3
  <1> QED
    BY <1>3, <1>4, ColumnsStep

-----------------------------------------------------------------------------

\* At first nothing is queued, read or committed.
LEMMA InitAlone == Init => AloneInv
  <1> SUFFICES ASSUME Init
               PROVE  AloneInv
    OBVIOUS
  <1>1. /\ Accepted = {} /\ redis = <<>> /\ \A p \in Procs : seen[p] = <<>> /\ mem[p] = <<>>
        /\ \A p \in Procs : serving[p] /\ useRedis[p] = redisUp /\ wpc[p] = "loop"
    BY DEF Init, Accepted
  <1>2. \A p \in Procs : cur[p] = NoBatch
    BY DEF Init
  <1>3. SeenCurrent /\ OneQueue /\ NewestWins /\ ConflictsExplained
    BY <1>1 DEF SeenCurrent, OneQueue, NewestWins, ConflictsExplained
  <1>5. EndsCurrent /\ EndsKept /\ FirstKept
    BY <1>1 DEF Init, EndsCurrent, EndsKept, FirstKept
  <1>4. InOrder
    BY <1>1, <1>2 DEF InOrder, Rising, Elements
  <1> QED
    BY <1>3, <1>4, <1>5 DEF AloneInv

\* In every reachable state a lone worker's queue, its hands and the rows agree.
THEOREM AloneInvariance == Spec => []AloneInv
  <1>1. IndInv /\ AloneInv /\ [Next]_vars => AloneInv'
    BY SeenCurrentStep, EndsCurrentStep, OneQueueStep, InOrderStep, NewestStep, EndsKeptStep,
       FirstKeptStep, ConflictsStep DEF AloneInv
  <1> QED
    BY InitAlone, Invariance, <1>1, PTL DEF Spec

\* What one worker stores of a trace is, column by column, the newest status,
\* the newest end and the first of the rest, and what it rolls back repeats a
\* trace or had one deleted. (process_batch.)
THEOREM CommitsAreExplained == Spec => []CommitsExplained
  <1>1. AloneInv => CommitsExplained
    BY DEF AloneInv, CommitsExplained
  <1> QED
    BY AloneInvariance, <1>1, PTL

-----------------------------------------------------------------------------
(* The server implements BatchDelivery.                                    *)

Once(q) == \A i, j \in DOMAIN q : q[i] = q[j] => i = j

\* A batch is on the Redis list once at most, and in one memory queue, once.
Apart ==
    /\ Once(redis)
    /\ \A p \in Procs : Once(mem[p])
    /\ \A p, q \in Procs : Elements(mem[p]) \cap Elements(mem[q]) # {} => p = q

\* The snapshot x, in version v, is in a batch that was committed.
WrittenAs(x, v) ==
    \E n \in Accepted : Committed(n) /\ Has(n, x, v)

\* What a worker loaded had been committed.
SeenWritten ==
    \A p \in Procs : \A i \in DOMAIN seen[p] :
        seen[p][i] # 0 => WrittenAs(batches[cur[p]][i].id, seen[p][i])

DeliveryInv == Apart /\ SeenWritten

\* A new element keeps a queue's elements apart, and taking the head leaves
\* nothing equal to it behind.
LEMMA OnceAppend ==
    ASSUME NEW S, NEW s \in Seq(S), NEW e \in S, Once(s), e \notin Elements(s)
    PROVE  Once(Append(s, e))
  <1>1. /\ Len(s) \in Nat /\ DOMAIN s = 1..Len(s)
        /\ DOMAIN Append(s, e) = 1..(Len(s) + 1)
        /\ \A i \in 1..Len(s) : Append(s, e)[i] = s[i]
        /\ Append(s, e)[Len(s) + 1] = e
    BY AppendProperties
  <1>2. \A i \in 1..Len(s) : s[i] # e
    BY <1>1 DEF Elements
  <1>3. \A i \in 1..(Len(s) + 1) : i \in 1..Len(s) \/ i = Len(s) + 1
    BY <1>1
  <1> QED
    BY <1>1, <1>2, <1>3 DEF Once

\* Taking the head of a queue leaves nothing equal to it behind.
LEMMA OnceTail ==
    ASSUME NEW S, NEW s \in Seq(S), s # <<>>, Once(s)
    PROVE  Once(Tail(s)) /\ Head(s) \notin Elements(Tail(s)) /\ Head(s) \in S
  <1>1. /\ Len(s) \in Nat \ {0} /\ DOMAIN s = 1..Len(s)
        /\ DOMAIN Tail(s) = 1..(Len(s) - 1)
        /\ \A i \in 1..(Len(s) - 1) : Tail(s)[i] = s[i + 1]
        /\ Head(s) = s[1] /\ Head(s) \in S
    BY HeadTailProperties
  <1>2. \A i \in 1..(Len(s) - 1) : i + 1 \in 1..Len(s) /\ i + 1 # 1
    BY <1>1
  <1>3. 1 \in 1..Len(s)
    BY <1>1
  <1>4. ASSUME NEW i \in 1..(Len(s) - 1), NEW j \in 1..(Len(s) - 1), Tail(s)[i] = Tail(s)[j]
        PROVE  i = j
    <2>1. i + 1 = j + 1
      BY <1>1, <1>2, <1>4 DEF Once
    <2> QED
      BY <2>1
  <1>5. \A i \in 1..(Len(s) - 1) : Tail(s)[i] # Head(s)
    BY <1>1, <1>2, <1>3 DEF Once
  <1> QED
    BY <1>1, <1>4, <1>5 DEF Once, Elements

\* The copies of a batch, where they are.
OnList(n) == IF n \in Elements(redis) THEN 1 ELSE 0
InMemory(n) == IF \E p \in Procs : n \in Elements(mem[p]) THEN 1 ELSE 0
Holders(n) == {p \in Procs : cur[p] = n}
InHands(n) == Cardinality(Holders(n))

\* A batch is in the system exactly while copies of it are counted.
LEMMA CopiesType ==
    ASSUME TypeOK, Shape
    PROVE  /\ Copies \in [1..MaxIngests -> Nat]
           /\ \A n \in 1..MaxIngests :
                /\ Copies[n] = OnList(n) + InMemory(n) + InHands(n)
                /\ OnList(n) \in {0, 1} /\ InMemory(n) \in {0, 1}
                /\ InHands(n) \in Nat /\ IsFiniteSet(Holders(n))
                /\ Copies[n] = 0 <=> ~InSystem(n)
                /\ (\E p \in Procs : cur[p] = n) => InHands(n) > 0
  <1> SUFFICES ASSUME NEW n \in 1..MaxIngests
               PROVE  /\ Copies[n] = OnList(n) + InMemory(n) + InHands(n)
                      /\ OnList(n) \in {0, 1} /\ InMemory(n) \in {0, 1}
                      /\ InHands(n) \in Nat /\ IsFiniteSet(Holders(n))
                      /\ Copies[n] = 0 <=> ~InSystem(n)
                      /\ (\E p \in Procs : cur[p] = n) => InHands(n) > 0
    <2>1. Copies = [m \in 1..MaxIngests |-> OnList(m) + InMemory(m) + InHands(m)]
      BY DEF Copies, OnList, InMemory, InHands, Holders
    <2> HIDE DEF OnList, InMemory, InHands, Holders
    <2> QED
      BY <2>1
  <1>1. IsFiniteSet(Holders(n))
    BY PipelineAssumption, FS_Subset DEF Holders
  <1>2. InHands(n) \in Nat
    BY <1>1, FS_CardinalityType DEF InHands
  <1>3. OnList(n) \in {0, 1} /\ InMemory(n) \in {0, 1}
    BY DEF OnList, InMemory
  <1>4. Copies[n] = OnList(n) + InMemory(n) + InHands(n)
    BY DEF Copies, OnList, InMemory, InHands, Holders
  <1>5. InHands(n) = 0 <=> ~InHand(n)
    BY <1>1, FS_EmptySet DEF InHands, Holders, InHand
  <1>6. OnList(n) + InMemory(n) = 0 <=> ~Queued(n)
    BY DEF OnList, InMemory, Queued
  <1>7. Copies[n] = 0 <=> ~InSystem(n)
    BY <1>2, <1>3, <1>4, <1>5, <1>6 DEF InSystem
  <1> QED
    BY <1>1, <1>2, <1>3, <1>4, <1>5, <1>7 DEF InHand

\* The same, as a fact of one state that can be used of the next.
LEMMA CountedInSystem ==
    TypeOK /\ Shape => \A m \in 1..MaxIngests : Copies[m] = 0 <=> ~InSystem(m)
  BY CopiesType

\* A worker takes a batch: one more hand holds it, whatever else moved.
LEMMA HandTakes ==
    ASSUME TypeOK, Shape, NEW p \in Procs, cur[p] = 0,
           NEW n \in 1..MaxIngests, cur' = [cur EXCEPT ![p] = n]
    PROVE  \A m \in 1..MaxIngests :
               InHands(m)' = IF m = n THEN InHands(m) + 1 ELSE InHands(m)
  <1> SUFFICES ASSUME NEW m \in 1..MaxIngests
               PROVE  InHands(m)' = IF m = n THEN InHands(m) + 1 ELSE InHands(m)
    OBVIOUS
  <1>1. cur \in [Procs -> Accepted \cup {NoBatch}] /\ m # 0
    BY DEF Shape
  <1>2. IsFiniteSet(Holders(m)) /\ p \notin Holders(m)
    BY <1>1, CopiesType DEF Holders
  <1>3. CASE m = n
    <2>1. Holders(m)' = Holders(m) \cup {p}
      BY <1>1, <1>3 DEF Holders
    <2>2. Cardinality(Holders(m) \cup {p}) = Cardinality(Holders(m)) + 1
      BY <1>2, FS_AddElement
    <2> QED
      BY <1>3, <2>1, <2>2 DEF InHands
  <1>4. CASE m # n
    <2>1. Holders(m)' = Holders(m)
      BY <1>1, <1>4 DEF Holders
    <2> QED
      BY <1>4, <2>1 DEF InHands
  <1> QED
    BY <1>3, <1>4

\* A worker lets go of what it holds: one hand fewer holds it.
LEMMA HandLetsGo ==
    ASSUME TypeOK, Shape, NEW p \in Procs, cur' = [cur EXCEPT ![p] = 0]
    PROVE  \A m \in 1..MaxIngests :
               /\ InHands(m)' = IF m = cur[p] THEN InHands(m) - 1 ELSE InHands(m)
               /\ m = cur[p] => InHands(m) > 0
  <1> SUFFICES ASSUME NEW m \in 1..MaxIngests
               PROVE  /\ InHands(m)' = IF m = cur[p] THEN InHands(m) - 1 ELSE InHands(m)
                      /\ m = cur[p] => InHands(m) > 0
    OBVIOUS
  <1>1. cur \in [Procs -> Accepted \cup {NoBatch}] /\ m # 0
    BY DEF Shape
  <1>2. IsFiniteSet(Holders(m)) /\ InHands(m) \in Nat
    BY CopiesType
  <1>3. CASE m = cur[p]
    <2>1. Holders(m)' = Holders(m) \ {p} /\ p \in Holders(m)
      BY <1>1, <1>3 DEF Holders
    <2>2. Cardinality(Holders(m) \ {p}) = Cardinality(Holders(m)) - 1
      BY <1>2, <2>1, FS_RemoveElement
    <2> QED
      BY <1>2, <1>3, <2>1, <2>2, CopiesType DEF InHands
  <1>4. CASE m # cur[p]
    <2>1. Holders(m)' = Holders(m)
      BY <1>1, <1>4 DEF Holders
    <2> QED
      BY <1>4, <2>1 DEF InHands
  <1> QED
    BY <1>3, <1>4

\* What a step does to the queues: a new batch is put at the end of one or of
\* two, a head is taken, or a process's memory goes.
LEMMA QueuesChange ==
    ASSUME IndInv, [Next]_vars
    PROVE  \/ UNCHANGED <<redis, mem>>
           \/ \E p \in Procs :
                LET n == Len(batches) + 1 IN
                /\ n \in Accepted'
                /\ redis' \in {redis, Append(redis, n)}
                /\ mem' \in {mem, [mem EXCEPT ![p] = Append(mem[p], n)]}
           \/ redis # <<>> /\ redis' = Tail(redis) /\ mem' = mem
           \/ \E p \in Procs : /\ mem[p] # <<>> /\ redis' = redis
                               /\ mem' = [mem EXCEPT ![p] = Tail(mem[p])]
           \/ \E p \in Procs : redis' = redis /\ mem' = [mem EXCEPT ![p] = <<>>]
  <1>1. \A p \in ApiProcs : p \in Procs
    BY PipelineAssumption
  <1>2. ASSUME NEW p \in ApiProcs, NEW b \in Batches, Ingest(p, b)
        PROVE  LET n == Len(batches) + 1 IN
                /\ n \in Accepted'
                /\ redis' \in {redis, Append(redis, n)}
                /\ mem' \in {mem, [mem EXCEPT ![p] = Append(mem[p], n)]}
    <2>1. Len(batches) + 1 \in Accepted'
      BY <1>2, Types DEF Ingest, Accepted, IndInv
    <2>2. redis' \in {redis, Append(redis, Len(batches) + 1)}
      BY <1>2 DEF Ingest, PushRedis, PushFails
    <2>3. mem' \in {mem, [mem EXCEPT ![p] = Append(mem[p], Len(batches) + 1)]}
      BY <1>2 DEF Ingest, PushRedis, PushFails, PutMemory
    <2> QED
      BY <2>1, <2>2, <2>3
  <1>3. ASSUME NEW p \in ApiProcs, \/ PurgeFind(p) \/ PurgeDelete(p) \/ Stop(p) \/ StartAgain(p)
                                   \/ \E ids \in SUBSET TraceIds : DeleteTraces(p, ids)
        PROVE  UNCHANGED <<redis, mem>>
    BY <1>3 DEF PurgeFind, PurgeDelete, Stop, StartAgain, DeleteTraces, environment, control
  <1>4. ASSUME NEW p \in Procs, Loop(p) \/ ReadTrace(p) \/ Commit(p) \/ RollBack(p)
        PROVE  UNCHANGED <<redis, mem>>
    BY <1>4 DEF Loop, ReadTrace, Commit, RollBack, Done, environment
  <1>5. ASSUME NEW p \in Procs, Pop(p) \/ PopFails(p)
        PROVE  \/ UNCHANGED <<redis, mem>>
               \/ redis # <<>> /\ redis' = Tail(redis) /\ mem' = mem
    BY <1>5 DEF Pop, PopFails
  <1>6. ASSUME NEW p \in Procs, MemGet(p)
        PROVE  \/ UNCHANGED <<redis, mem>>
               \/ /\ mem[p] # <<>> /\ redis' = redis
                  /\ mem' = [mem EXCEPT ![p] = Tail(mem[p])]
    BY <1>6 DEF MemGet, environment
  <1>7. ASSUME NEW p \in Procs, Replaced(p)
        PROVE  redis' = redis /\ mem' = [mem EXCEPT ![p] = <<>>]
    BY <1>7 DEF Replaced, Crash, Redeploy, NewProcess, environment
  <1>8. RedisFails \/ RedisReturns \/ UNCHANGED vars => UNCHANGED <<redis, mem>>
    BY DEF RedisFails, RedisReturns, vars
  <1>9. CASE \E p \in ApiProcs : \E b \in Batches : Ingest(p, b)
    BY <1>1, <1>2, <1>9
  <1> QED
    BY <1>1, <1>3, <1>4, <1>5, <1>6, <1>7, <1>8, <1>9, StepKinds

\* A batch that is put on a queue is new, so no queue holds it already, but
\* for the memory queue of the process whose push failed late: no two memory
\* queues ever share a batch, and no queue holds one twice.
LEMMA ApartStep == IndInv /\ Apart /\ [Next]_vars => Apart'
  <1> SUFFICES ASSUME IndInv, Apart, [Next]_vars
               PROVE  Apart'
    OBVIOUS
  <1> DEFINE Alike(q, m) ==
               /\ Once(q)
               /\ \A p \in Procs : Once(m[p])
               /\ \A p, r \in Procs : Elements(m[p]) \cap Elements(m[r]) # {} => p = r
  <1>1. /\ redis \in Seq(Accepted) /\ mem \in [Procs -> Seq(Accepted)]
        /\ Len(batches) + 1 \notin Accepted /\ Accepted \subseteq Accepted'
    BY Types, BatchesKept DEF IndInv, Shape, Accepted
  <1>2. Alike(redis, mem) /\ (Alike(redis', mem') => Apart')
    BY DEF Apart
  <1>3. ASSUME NEW s \in Seq(Accepted)
        PROVE  Elements(s) \subseteq Accepted
    BY <1>3 DEF Elements
  <1>4. ASSUME NEW p \in Procs, NEW n, n = Len(batches) + 1, n \in Accepted',
               redis' \in {redis, Append(redis, n)},
               mem' \in {mem, [mem EXCEPT ![p] = Append(mem[p], n)]}
        PROVE  Alike(redis', mem')
    <2>1. redis \in Seq(Accepted') /\ mem[p] \in Seq(Accepted')
      BY <1>1, SeqKept DEF IndInv
    <2>2. n \notin Elements(redis) /\ \A q \in Procs : n \notin Elements(mem[q])
      BY <1>1, <1>3, <1>4
    <2>3. Once(Append(redis, n)) /\ Once(Append(mem[p], n))
      BY <1>2, <1>4, <2>1, <2>2, OnceAppend
    <2>4. Elements(Append(mem[p], n)) = Elements(mem[p]) \cup {n}
      BY <1>4, <2>1, ElementsAppend
    <2>5. Once(redis')
      BY <1>2, <1>4, <2>3
    <2>6. CASE mem' = mem
      BY <1>2, <2>5, <2>6
    <2>7. CASE mem' = [mem EXCEPT ![p] = Append(mem[p], n)]
      <3>1. /\ mem'[p] = Append(mem[p], n)
            /\ \A q \in Procs : q # p => mem'[q] = mem[q]
        BY <1>1, <2>7
      <3>2. \A q \in Procs : Once(mem'[q])
        BY <1>2, <2>3, <3>1
      <3>3. \A q, r \in Procs : Elements(mem'[q]) \cap Elements(mem'[r]) # {} => q = r
        <4>1. ASSUME NEW q \in Procs, NEW r \in Procs, q # r
              PROVE  Elements(mem'[q]) \cap Elements(mem'[r]) = {}
          <5>1. Elements(mem[q]) \cap Elements(mem[r]) = {}
            BY <1>2, <4>1
          <5>2. CASE q = p
            BY <2>2, <2>4, <3>1, <4>1, <5>1, <5>2
          <5>3. CASE r = p
            BY <2>2, <2>4, <3>1, <4>1, <5>1, <5>3
          <5>4. CASE q # p /\ r # p
            BY <3>1, <5>1, <5>4
          <5> QED
            BY <5>2, <5>3, <5>4
        <4> QED
          BY <4>1
      <3> QED
        BY <2>5, <3>2, <3>3
    <2> QED
      BY <1>4, <2>6, <2>7
  <1>5. CASE redis # <<>> /\ redis' = Tail(redis) /\ mem' = mem
    BY <1>1, <1>2, <1>5, OnceTail
  <1>6. ASSUME NEW p \in Procs, NEW s, redis' = redis, mem' = [mem EXCEPT ![p] = s],
               Once(s), Elements(s) \subseteq Elements(mem[p])
        PROVE  Alike(redis', mem')
    <2>1. /\ mem'[p] = s
          /\ \A q \in Procs : q # p => mem'[q] = mem[q]
      BY <1>1, <1>6
    <2>2. \A q \in Procs : Elements(mem'[q]) \subseteq Elements(mem[q])
      BY <1>6, <2>1
    <2>3. \A q \in Procs : Once(mem'[q])
      BY <1>2, <1>6, <2>1
    <2>4. \A q, r \in Procs : Elements(mem'[q]) \cap Elements(mem'[r]) # {} => q = r
      BY <1>2, <2>2
    <2> QED
      BY <1>2, <1>6, <2>3, <2>4
  <1>7. ASSUME NEW p \in Procs, mem[p] # <<>>, redis' = redis,
               mem' = [mem EXCEPT ![p] = Tail(mem[p])]
        PROVE  Alike(redis', mem')
    <2>1. Once(Tail(mem[p])) /\ Elements(Tail(mem[p])) \subseteq Elements(mem[p])
      BY <1>1, <1>2, <1>7, OnceTail, ElementsTail
    <2> QED
      BY <1>6, <1>7, <2>1
  <1>8. ASSUME NEW p \in Procs, redis' = redis, mem' = [mem EXCEPT ![p] = <<>>]
        PROVE  Alike(redis', mem')
    <2>1. Once(<<>>) /\ Elements(<<>>) = {}
      BY DEF Once, Elements
    <2> QED
      BY <1>6, <1>8, <2>1
  <1>9. UNCHANGED <<redis, mem>> => Alike(redis', mem')
    BY <1>2
  <1> HIDE DEF Alike
  <1> QED
    BY <1>2, <1>4, <1>5, <1>7, <1>8, <1>9, QueuesChange

\* A worker loads rows, and a row is a snapshot that was committed.
LEMMA SeenWrittenStep == IndInv /\ SeenWritten /\ [Next]_vars => SeenWritten'
  <1> SUFFICES ASSUME IndInv, SeenWritten, [Next]_vars, NEW p \in Procs,
                      NEW i \in DOMAIN seen'[p], seen'[p][i] # 0
               PROVE  WrittenAs(batches[cur[p]][i].id, seen[p][i])'
    BY DEF SeenWritten
  <1>1. TypeOK /\ Shape /\ Reads /\ AllOrNothing /\ NoBatch = 0
    BY DEF IndInv, NoBatch
  <1>2. ASSUME NEW x, NEW v, WrittenAs(x, v)
        PROVE  \E n \in Accepted' : /\ "committed" \in fates'[n]
                                    /\ \E k \in DOMAIN batches'[n] :
                                          batches'[n][k].id = x /\ batches'[n][k].ver = v
    <2>1. PICK n \in Accepted : "committed" \in fates[n] /\ Has(n, x, v)
      BY <1>2 DEF WrittenAs, Committed
    <2>2. n \in 1..MaxIngests /\ n \in Accepted' /\ batches'[n] = batches[n]
      BY <1>1, Types, BatchesKept
    <2>3. "committed" \in fates'[n]
      BY <2>1, <2>2, FatesGrow
    <2> QED
      BY <2>1, <2>2, <2>3 DEF Has
  <1>3. ASSUME WrittenAs(batches'[cur'[p]][i].id, seen'[p][i])
        PROVE  WrittenAs(batches[cur[p]][i].id, seen[p][i])'
    BY <1>2, <1>3 DEF WrittenAs, Committed, Has
  <1>4. CASE cur'[p] = cur[p] /\ seen'[p] = seen[p]
    <2>1. cur[p] \in Accepted
      <3>1. i \in DOMAIN seen[p] /\ seen[p] # <<>>
        BY <1>4
      <3> QED
        BY <1>1, <3>1, Types DEF Reads, Shape
    <2>2. batches'[cur'[p]] = batches[cur[p]]
      BY <1>1, <1>4, <2>1, BatchesKept
    <2>3. WrittenAs(batches[cur[p]][i].id, seen[p][i])
      BY <1>4 DEF SeenWritten
    <2> QED
      BY <1>3, <1>4, <2>2, <2>3
  <1>5. CASE seen'[p] = <<>>
    BY <1>5
  <1>6. CASE ReadTrace(p)
    <2>1. UNCHANGED <<batches, rows, deleted, cur>> /\ cur[p] \in Accepted
      BY <1>6, ReadFacts
    <2>2. CASE i \in 1..Len(seen[p])
      <3>1. i \in DOMAIN seen[p] /\ seen'[p][i] = seen[p][i]
        BY <1>6, <2>2, ReadFacts
      <3>2. WrittenAs(batches[cur[p]][i].id, seen[p][i])
        BY <3>1 DEF SeenWritten
      <3> QED
        BY <1>3, <2>1, <3>1, <3>2
    <2>3. CASE i = Len(seen[p]) + 1
      <3> DEFINE x == batches[cur[p]][i].id
      <3>1. x \in TraceIds /\ seen'[p][i] = rows[x]
        BY <1>6, <2>3, ReadFacts
      <3>2. WrittenAs(x, rows[x])
        BY <1>1, <3>1 DEF AllOrNothing, WrittenAs, Committed, Has
      <3> QED
        BY <1>3, <2>1, <3>1, <3>2
    <2> QED
      BY <1>6, <2>2, <2>3, ReadFacts
  <1> QED
    BY <1>4, <1>5, <1>6, HandsChange

\* Where queues and hands stay as they are, so do the copies.
LEMMA CopiesStay == UNCHANGED <<redis, mem, cur>> => Copies' = Copies
  <1> SUFFICES ASSUME redis' = redis, mem' = mem, cur' = cur
               PROVE  Copies' = Copies
    OBVIOUS
  <1>1. \A q : Elements(q)' = Elements(q)
    BY DEF Elements
  <1> QED
    BY <1>1 DEF Copies, Elements

\* A new batch has as many copies as queues it was put on.
LEMMA CopiesPut ==
    ASSUME IndInv, NEW p \in Procs, NEW n, n = Len(batches) + 1, n \in 1..MaxIngests,
           n \in Accepted', \A s \in Seq(Accepted) : s \in Seq(Accepted'), cur' = cur,
           NEW a \in {0, 1}, NEW b \in {0, 1},
           redis' = IF a = 1 THEN Append(redis, n) ELSE redis,
           mem' = IF b = 1 THEN [mem EXCEPT ![p] = Append(mem[p], n)] ELSE mem
    PROVE  Copies' = [Copies EXCEPT ![n] = a + b]
  <1>1. /\ TypeOK /\ Shape /\ n \notin Accepted /\ n # 0
        /\ redis \in Seq(Accepted) /\ mem \in [Procs -> Seq(Accepted)]
        /\ redis \in Seq(Accepted') /\ mem[p] \in Seq(Accepted')
        /\ cur \in [Procs -> Accepted \cup {0}]
    <2>1. TypeOK /\ Shape
      BY DEF IndInv
    <2>2. n \notin Accepted /\ n # 0
      BY <2>1, Types DEF Accepted
    <2>3. mem \in [Procs -> Seq(Accepted)] /\ cur \in [Procs -> Accepted \cup {0}]
      BY <2>1 DEF Shape, NoBatch
    <2>4. redis \in Seq(Accepted)
      BY <2>1, Types
    <2> QED
      BY <2>1, <2>2, <2>3, <2>4
  <1>2. \A s \in Seq(Accepted) : Elements(s) \subseteq Accepted
    BY DEF Elements
  <1>3. /\ n \notin Elements(redis) /\ \A q \in Procs : n \notin Elements(mem[q])
        /\ Holders(n) = {}
    BY <1>1, <1>2 DEF Holders
  <1>4. Elements(redis') = Elements(redis) \cup (IF a = 1 THEN {n} ELSE {})
    BY <1>1, ElementsAppend
  <1>5. /\ Elements(mem'[p]) = Elements(mem[p]) \cup (IF b = 1 THEN {n} ELSE {})
        /\ \A q \in Procs : q # p => Elements(mem'[q]) = Elements(mem[q])
    <2>1. CASE b = 1
      <3>1. /\ mem'[p] = Append(mem[p], n)
            /\ \A q \in Procs : q # p => mem'[q] = mem[q]
        BY <1>1, <2>1
      <3>2. Elements(Append(mem[p], n)) = Elements(mem[p]) \cup {n}
        BY <1>1, ElementsAppend
      <3> QED
        BY <2>1, <3>1, <3>2
    <2>2. CASE b = 0
      BY <2>2
    <2> QED
      BY <2>1, <2>2
  <1>6. \A m \in 1..MaxIngests : InHands(m)' = InHands(m)
    BY DEF InHands, Holders
  <1>7. ASSUME NEW m \in 1..MaxIngests, m # n
        PROVE  OnList(m)' = OnList(m) /\ InMemory(m)' = InMemory(m)
    <2>1. OnList(m)' = OnList(m)
      BY <1>4, <1>7 DEF OnList, Elements
    <2>2. \A q \in Procs : m \in Elements(mem'[q]) <=> m \in Elements(mem[q])
      BY <1>5, <1>7
    <2>3. InMemory(m)' = InMemory(m)
      BY <2>2 DEF InMemory, Elements
    <2> QED
      BY <2>1, <2>3
  <1>8. OnList(n)' = a /\ InMemory(n)' = b /\ InHands(n) = 0
    <2>1. OnList(n)' = a
      BY <1>3, <1>4 DEF OnList, Elements
    <2>2. (\E q \in Procs : n \in Elements(mem'[q])) <=> b = 1
      BY <1>3, <1>5
    <2>3. InMemory(n)' = b
      BY <2>2 DEF InMemory, Elements
    <2>4. InHands(n) = 0
      BY <1>3, FS_EmptySet DEF InHands
    <2> QED
      BY <2>1, <2>3, <2>4
  <1>9. /\ Copies = [m \in 1..MaxIngests |-> OnList(m) + InMemory(m) + InHands(m)]
        /\ Copies' = [m \in 1..MaxIngests |-> OnList(m)' + InMemory(m)' + InHands(m)']
    BY DEF Copies, OnList, InMemory, InHands, Holders
  <1> DEFINE sum(m) == OnList(m) + InMemory(m) + InHands(m)
             later(m) == OnList(m)' + InMemory(m)' + InHands(m)'
  <1> HIDE DEF OnList, InMemory, InHands
  <1>10. \A m \in 1..MaxIngests : later(m) = IF m = n THEN a + b ELSE sum(m)
    BY <1>6, <1>7, <1>8
  <1>11. /\ Copies = [m \in 1..MaxIngests |-> sum(m)]
         /\ Copies' = [m \in 1..MaxIngests |-> later(m)]
    BY <1>9
  <1> HIDE DEF sum, later
  <1> QED
    BY <1>10, <1>11

\* The head of the Redis list leaves it: no copy of that batch stays there.
LEMMA ListLosesHead ==
    ASSUME IndInv, Apart, redis # <<>>, redis' = Tail(redis)
    PROVE  /\ Head(redis) \in 1..MaxIngests /\ OnList(Head(redis)) = 1
           /\ \A m \in 1..MaxIngests :
                OnList(m)' = IF m = Head(redis) THEN OnList(m) - 1 ELSE OnList(m)
  <1>1. redis \in Seq(Accepted) /\ Accepted \subseteq 1..MaxIngests /\ Once(redis)
    BY Types DEF IndInv, Apart
  <1>2. /\ Elements(redis) = Elements(Tail(redis)) \cup {Head(redis)}
        /\ Head(redis) \notin Elements(Tail(redis)) /\ Head(redis) \in Accepted
    BY <1>1, ElementsTail, OnceTail
  <1>3. Elements(redis') = Elements(Tail(redis))
    OBVIOUS
  <1>4. \A m \in 1..MaxIngests : OnList(m)' = IF m \in Elements(redis') THEN 1 ELSE 0
    BY DEF OnList, Elements
  <1>5. Head(redis) \in 1..MaxIngests /\ OnList(Head(redis)) = 1
    BY <1>1, <1>2 DEF OnList
  <1>6. ASSUME NEW m \in 1..MaxIngests
        PROVE  OnList(m)' = IF m = Head(redis) THEN OnList(m) - 1 ELSE OnList(m)
    <2>1. CASE m = Head(redis)
      <3>1. m \notin Elements(redis')
        BY <1>2, <1>3, <2>1
      <3>2. OnList(m) = 1
        BY <1>5, <2>1
      <3> QED
        BY <1>4, <2>1, <3>1, <3>2
    <2>2. CASE m # Head(redis)
      <3>1. m \in Elements(redis') <=> m \in Elements(redis)
        BY <1>2, <1>3, <2>2
      <3> QED
        BY <1>4, <2>2, <3>1 DEF OnList
    <2> QED
      BY <2>1, <2>2
  <1> QED
    BY <1>5, <1>6

\* Nor does one stay in memory when the head of a memory queue leaves it: only
\* one process has the batch there, and once.
LEMMA MemoryLosesHead ==
    ASSUME IndInv, Apart, NEW p \in Procs, mem[p] # <<>>,
           mem' = [mem EXCEPT ![p] = Tail(mem[p])]
    PROVE  /\ Head(mem[p]) \in 1..MaxIngests /\ InMemory(Head(mem[p])) = 1
           /\ \A m \in 1..MaxIngests :
                InMemory(m)' = IF m = Head(mem[p]) THEN InMemory(m) - 1 ELSE InMemory(m)
  <1> DEFINE h == Head(mem[p])
  <1>1. /\ mem \in [Procs -> Seq(Accepted)] /\ Accepted \subseteq 1..MaxIngests
        /\ Once(mem[p])
        /\ \A q \in Procs : q # p => Elements(mem[q]) \cap Elements(mem[p]) = {}
    BY Types DEF IndInv, Shape, Apart
  <1>2. /\ Elements(mem[p]) = Elements(Tail(mem[p])) \cup {h}
        /\ h \notin Elements(Tail(mem[p])) /\ h \in Accepted
    BY <1>1, ElementsTail, OnceTail
  <1>3. /\ mem'[p] = Tail(mem[p])
        /\ \A q \in Procs : q # p => mem'[q] = mem[q]
    BY <1>1
  <1>4. \A m \in 1..MaxIngests :
            InMemory(m)' = IF \E q \in Procs : m \in Elements(mem'[q]) THEN 1 ELSE 0
    BY DEF InMemory, Elements
  <1>5. \A q \in Procs : h \notin Elements(mem'[q])
    <2>1. Elements(mem'[p]) = Elements(Tail(mem[p]))
      BY <1>3
    <2>2. \A q \in Procs : q # p => Elements(mem'[q]) = Elements(mem[q])
      BY <1>3
    <2> HIDE DEF h
    <2> QED
      BY <1>1, <1>2, <2>1, <2>2
  <1>6. ASSUME NEW m \in 1..MaxIngests, m # h
        PROVE  \A q \in Procs : m \in Elements(mem'[q]) <=> m \in Elements(mem[q])
    <2>1. Elements(mem'[p]) = Elements(Tail(mem[p]))
      BY <1>3
    <2>2. \A q \in Procs : q # p => Elements(mem'[q]) = Elements(mem[q])
      BY <1>3
    <2> HIDE DEF h
    <2> QED
      BY <1>2, <1>6, <2>1, <2>2
  <1>7. h \in 1..MaxIngests /\ InMemory(h) = 1
    BY <1>1, <1>2 DEF InMemory
  <1> HIDE DEF h
  <1>8. \A m \in 1..MaxIngests : m # h => InMemory(m)' = InMemory(m)
    BY <1>4, <1>6 DEF InMemory
  <1>9. \A m \in 1..MaxIngests : m = h => InMemory(m)' = 0
    BY <1>4, <1>5
  <1>10. ASSUME NEW m \in 1..MaxIngests
         PROVE  InMemory(m)' = IF m = h THEN InMemory(m) - 1 ELSE InMemory(m)
    <2>1. CASE m = h
      <3>1. InMemory(m)' = 0 /\ InMemory(m) = 1
        BY <1>7, <1>9, <2>1
      <3> HIDE DEF InMemory
      <3> QED
        BY <2>1, <3>1
    <2> QED
      BY <1>8, <2>1
  <1> QED
    BY <1>7, <1>10 DEF h

\* A worker takes the head of a queue: a copy changes place.
LEMMA CopiesTaken ==
    ASSUME IndInv, Apart, NEW p \in Procs, Pop(p) \/ MemGet(p)
    PROVE  Copies' = Copies
  <1>1. TypeOK /\ Shape /\ cur[p] = 0 /\ Accepted \subseteq 1..MaxIngests
    BY Types DEF IndInv, Pop, MemGet
  <1>2. /\ Copies = [m \in 1..MaxIngests |-> OnList(m) + InMemory(m) + InHands(m)]
        /\ Copies' = [m \in 1..MaxIngests |-> OnList(m)' + InMemory(m)' + InHands(m)']
    BY DEF Copies, OnList, InMemory, InHands, Holders
  <1>3. \A m \in 1..MaxIngests :
            OnList(m) \in {0, 1} /\ InMemory(m) \in {0, 1} /\ InHands(m) \in Nat
    BY <1>1, CopiesType
  <1>4. CASE /\ redis # <<>> /\ redis' = Tail(redis) /\ mem' = mem
             /\ cur' = [cur EXCEPT ![p] = Head(redis)]
    <2>1. /\ Head(redis) \in 1..MaxIngests
          /\ \A m \in 1..MaxIngests :
                OnList(m)' = IF m = Head(redis) THEN OnList(m) - 1 ELSE OnList(m)
      BY <1>4, ListLosesHead
    <2>2. \A m \in 1..MaxIngests :
              InHands(m)' = IF m = Head(redis) THEN InHands(m) + 1 ELSE InHands(m)
      BY <1>1, <1>4, <2>1, HandTakes
    <2>3. \A m \in 1..MaxIngests : InMemory(m)' = InMemory(m)
      BY <1>4 DEF InMemory, Elements
    <2> HIDE DEF OnList, InMemory, InHands
    <2>4. \A m \in 1..MaxIngests :
              OnList(m)' + InMemory(m)' + InHands(m)' = OnList(m) + InMemory(m) + InHands(m)
      BY <1>3, <2>1, <2>2, <2>3
    <2> QED
      BY <1>2, <2>4
  <1>5. CASE /\ mem[p] # <<>> /\ redis' = redis /\ mem' = [mem EXCEPT ![p] = Tail(mem[p])]
             /\ cur' = [cur EXCEPT ![p] = Head(mem[p])]
    <2>1. /\ Head(mem[p]) \in 1..MaxIngests
          /\ \A m \in 1..MaxIngests :
                InMemory(m)' = IF m = Head(mem[p]) THEN InMemory(m) - 1 ELSE InMemory(m)
      BY <1>5, MemoryLosesHead
    <2>2. \A m \in 1..MaxIngests :
              InHands(m)' = IF m = Head(mem[p]) THEN InHands(m) + 1 ELSE InHands(m)
      BY <1>1, <1>5, <2>1, HandTakes
    <2>3. \A m \in 1..MaxIngests : OnList(m)' = OnList(m)
      BY <1>5 DEF OnList, Elements
    <2> HIDE DEF OnList, InMemory, InHands
    <2>4. \A m \in 1..MaxIngests :
              OnList(m)' + InMemory(m)' + InHands(m)' = OnList(m) + InMemory(m) + InHands(m)
      BY <1>3, <2>1, <2>2, <2>3
    <2> QED
      BY <1>2, <2>4
  <1>6. CASE UNCHANGED <<redis, mem, cur>>
    BY <1>6, CopiesStay
  <1> QED
    BY <1>4, <1>5, <1>6 DEF Pop, MemGet, Takes, environment

\* A copy that was in a worker's hands is gone, or the one blpop had taken.
LEMMA CopiesFewer ==
    ASSUME IndInv, Apart, NEW n \in 1..MaxIngests,
           \/ /\ UNCHANGED <<redis, mem>>
              /\ \E p \in Procs : cur[p] = n /\ cur' = [cur EXCEPT ![p] = 0]
           \/ redis # <<>> /\ n = Head(redis) /\ redis' = Tail(redis) /\ UNCHANGED <<mem, cur>>
    PROVE  Copies[n] > 0 /\ Copies' = [Copies EXCEPT ![n] = Copies[n] - 1]
  <1>1. TypeOK /\ Shape
    BY DEF IndInv
  <1>2. /\ Copies = [m \in 1..MaxIngests |-> OnList(m) + InMemory(m) + InHands(m)]
        /\ Copies' = [m \in 1..MaxIngests |-> OnList(m)' + InMemory(m)' + InHands(m)']
    BY DEF Copies, OnList, InMemory, InHands, Holders
  <1>3. \A m \in 1..MaxIngests :
            OnList(m) \in {0, 1} /\ InMemory(m) \in {0, 1} /\ InHands(m) \in Nat
    BY <1>1, CopiesType
  <1>4. ASSUME UNCHANGED <<redis, mem>>, NEW p \in Procs, cur[p] = n, cur' = [cur EXCEPT ![p] = 0]
        PROVE  Copies[n] > 0 /\ Copies' = [Copies EXCEPT ![n] = Copies[n] - 1]
    <2>1. \A m \in 1..MaxIngests :
              /\ InHands(m)' = IF m = n THEN InHands(m) - 1 ELSE InHands(m)
              /\ m = n => InHands(m) > 0
      BY <1>1, <1>4, HandLetsGo
    <2>2. \A m \in 1..MaxIngests : OnList(m)' = OnList(m) /\ InMemory(m)' = InMemory(m)
      BY <1>4 DEF OnList, InMemory, Elements
    <2> DEFINE sum(m) == OnList(m) + InMemory(m) + InHands(m)
               later(m) == OnList(m)' + InMemory(m)' + InHands(m)'
    <2> HIDE DEF OnList, InMemory, InHands
    <2>3. \A m \in 1..MaxIngests : later(m) = IF m = n THEN sum(m) - 1 ELSE sum(m)
      BY <1>3, <2>1, <2>2
    <2>4. /\ Copies = [m \in 1..MaxIngests |-> sum(m)]
          /\ Copies' = [m \in 1..MaxIngests |-> later(m)]
      BY <1>2
    <2>5. sum(n) > 0
      BY <1>3, <2>1
    <2> HIDE DEF sum, later
    <2> QED
      BY <2>3, <2>4, <2>5
  <1>5. CASE redis # <<>> /\ n = Head(redis) /\ redis' = Tail(redis) /\ UNCHANGED <<mem, cur>>
    <2>1. /\ OnList(n) = 1
          /\ \A m \in 1..MaxIngests :
                OnList(m)' = IF m = n THEN OnList(m) - 1 ELSE OnList(m)
      BY <1>5, ListLosesHead
    <2>2. \A m \in 1..MaxIngests : InHands(m)' = InHands(m) /\ InMemory(m)' = InMemory(m)
      BY <1>5 DEF InHands, Holders, InMemory, Elements
    <2> DEFINE sum(m) == OnList(m) + InMemory(m) + InHands(m)
               later(m) == OnList(m)' + InMemory(m)' + InHands(m)'
    <2> HIDE DEF OnList, InMemory, InHands
    <2>3. \A m \in 1..MaxIngests : later(m) = IF m = n THEN sum(m) - 1 ELSE sum(m)
      BY <1>3, <2>1, <2>2
    <2>4. /\ Copies = [m \in 1..MaxIngests |-> sum(m)]
          /\ Copies' = [m \in 1..MaxIngests |-> later(m)]
      BY <1>2
    <2>5. sum(n) > 0
      BY <1>3, <2>1
    <2> HIDE DEF sum, later
    <2> QED
      BY <2>3, <2>4, <2>5
  <1> QED
    BY <1>4, <1>5

\* What a process had in memory and in its worker's hands goes with it.
Gone(p) == [n \in 1..MaxIngests |-> (IF n \in Elements(mem[p]) THEN 1 ELSE 0)
                                    + (IF cur[p] = n THEN 1 ELSE 0)]

\* When a process is replaced, the copies it held are gone and no others.
LEMMA CopiesGone ==
    ASSUME IndInv, Apart, NEW p \in Procs, redis' = redis, mem' = [mem EXCEPT ![p] = <<>>],
           cur' = [cur EXCEPT ![p] = 0]
    PROVE  /\ Gone(p) \in [1..MaxIngests -> 0..2]
           /\ \A n \in 1..MaxIngests : Copies[n] >= Gone(p)[n]
           /\ Copies' = [n \in 1..MaxIngests |-> Copies[n] - Gone(p)[n]]
  <1>1. /\ TypeOK /\ Shape /\ mem \in [Procs -> Seq(Accepted)]
        /\ \A q \in Procs : q # p => Elements(mem[q]) \cap Elements(mem[p]) = {}
    BY DEF IndInv, Shape, Apart
  <1>2. /\ Copies = [m \in 1..MaxIngests |-> OnList(m) + InMemory(m) + InHands(m)]
        /\ Copies' = [m \in 1..MaxIngests |-> OnList(m)' + InMemory(m)' + InHands(m)']
    BY DEF Copies, OnList, InMemory, InHands, Holders
  <1>3. \A m \in 1..MaxIngests :
            OnList(m) \in {0, 1} /\ InMemory(m) \in {0, 1} /\ InHands(m) \in Nat
    BY <1>1, CopiesType
  <1> DEFINE M(n) == IF n \in Elements(mem[p]) THEN 1 ELSE 0
             H(n) == IF cur[p] = n THEN 1 ELSE 0
  <1>4. \A n \in 1..MaxIngests : InHands(n)' = InHands(n) - H(n) /\ InHands(n) >= H(n)
    <2>1. \A m \in 1..MaxIngests :
              /\ InHands(m)' = IF m = cur[p] THEN InHands(m) - 1 ELSE InHands(m)
              /\ m = cur[p] => InHands(m) > 0
      BY <1>1, HandLetsGo
    <2> HIDE DEF InHands
    <2> QED
      BY <1>3, <2>1
  <1>5. ASSUME NEW n \in 1..MaxIngests
        PROVE  InMemory(n)' = InMemory(n) - M(n) /\ InMemory(n) >= M(n)
    <2>1. /\ Elements(mem'[p]) = {}
          /\ \A q \in Procs : q # p => Elements(mem'[q]) = Elements(mem[q])
      BY <1>1 DEF Elements
    <2>2. InMemory(n)' = IF \E q \in Procs : n \in Elements(mem'[q]) THEN 1 ELSE 0
      BY DEF InMemory, Elements
    <2>3. CASE n \in Elements(mem[p])
      <3>1. \A q \in Procs : n \notin Elements(mem'[q])
        BY <1>1, <2>1, <2>3
      <3> QED
        BY <2>2, <2>3, <3>1 DEF InMemory
    <2>4. CASE n \notin Elements(mem[p])
      <3>1. \A q \in Procs : n \in Elements(mem'[q]) <=> n \in Elements(mem[q])
        BY <2>1, <2>4
      <3> QED
        BY <2>2, <2>4, <3>1 DEF InMemory
    <2> QED
      BY <2>3, <2>4
  <1>6. \A n \in 1..MaxIngests : OnList(n)' = OnList(n)
    BY DEF OnList, Elements
  <1>7. Gone(p) = [n \in 1..MaxIngests |-> M(n) + H(n)]
    BY DEF Gone
  <1>8. \A n \in 1..MaxIngests : M(n) \in {0, 1} /\ H(n) \in {0, 1}
    OBVIOUS
  <1> HIDE DEF OnList, InMemory, InHands, M, H
  <1>9. \A n \in 1..MaxIngests :
            /\ M(n) + H(n) \in 0..2
            /\ OnList(n) + InMemory(n) + InHands(n) >= M(n) + H(n)
            /\ OnList(n)' + InMemory(n)' + InHands(n)'
                  = (OnList(n) + InMemory(n) + InHands(n)) - (M(n) + H(n))
    BY <1>3, <1>4, <1>5, <1>6, <1>8
  <1> QED
    BY <1>2, <1>7, <1>9

\* A commit writes the batch's version of every trace that it inserts or
\* changes; what it leaves alone was loaded in that version.
LEMMA CommitDelivers ==
    ASSUME IndInv, SeenWritten, NEW p \in Procs, Commit(p)
    PROVE  LET n == cur[p]
               xs == {x \in Ids(n) : Inserts(p, x) # {} \/ Replaces(p, x)}
           IN  /\ n \in Accepted /\ xs \subseteq Delivery!Ids(n)
               /\ \A x \in Delivery!Ids(n) \ xs : Delivery!Written(x, Delivery!LastVersion(n, x))
               /\ rows' = [x \in TraceIds |->
                              IF x \in xs THEN Delivery!LastVersion(n, x) ELSE rows[x]]
  <1> DEFINE n == cur[p]
             xs == {x \in Ids(n) : Inserts(p, x) # {} \/ Replaces(p, x)}
  <1>1. TypeOK /\ Shape /\ Reads /\ n \in Accepted /\ n # NoBatch /\ batches[n] \in Batches
    BY Types DEF IndInv, Commit, Done, NoBatch
  <1>2. /\ Delivery!Ids(n) = Ids(n)
        /\ \A x : Delivery!LastVersion(n, x) = LastVersion(n, x)
    BY DEF Delivery!Ids, Ids, Delivery!LastVersion, LastVersion
  <1>3. rows' = [x \in TraceIds |-> IF x \in xs THEN LastVersion(n, x) ELSE rows[x]]
    BY DEF Commit
  <1>4. ASSUME NEW x \in Ids(n), x \notin xs
        PROVE  Delivery!Written(x, LastVersion(n, x))
    <2>1. PICK i \in DOMAIN batches[n] : batches[n][i].id = x /\ Loaded(p, x) = seen[p][i]
      BY <1>1, LoadedFirst
    <2>2. seen[p][i] # 0 /\ LastVersion(n, x) = seen[p][i]
      BY <1>4, <2>1 DEF Inserts, Replaces
    <2>3. i \in DOMAIN seen[p]
      <3>1. Len(seen[p]) = Len(batches[n]) /\ seen[p] \in Seq(Versions \cup {0})
        BY <1>1 DEF Reads, Commit, Done, Shape
      <3> QED
        BY <1>1, <2>1, <3>1, BatchIsSeq
    <2>4. WrittenAs(x, LastVersion(n, x))
      BY <2>1, <2>2, <2>3 DEF SeenWritten
    <2> QED
      BY <2>4 DEF WrittenAs, Committed, Has, Delivery!Written, Delivery!Accepted, Accepted
  <1> HIDE DEF n, xs
  <1>5. \A x \in Delivery!Ids(n) \ xs : Delivery!Written(x, Delivery!LastVersion(n, x))
    BY <1>2, <1>4
  <1>6. xs \subseteq Delivery!Ids(n)
    BY <1>2 DEF xs
  <1>7. rows' = [x \in TraceIds |-> IF x \in xs THEN Delivery!LastVersion(n, x) ELSE rows[x]]
    BY <1>2, <1>3
  <1> QED
    BY <1>1, <1>5, <1>6, <1>7 DEF n, xs

\* A request that is answered is an Accept, of as many copies as queues took
\* the batch.
LEMMA IngestAccepts ==
    ASSUME IndInv, [Next]_vars, NEW p \in ApiProcs, NEW b \in Batches, Ingest(p, b)
    PROVE  \E k \in 0..2 : Delivery!Accept(b, k)
  <1> DEFINE n == Len(batches) + 1
             put(i, j) == /\ redis' = IF i = 1 THEN Append(redis, n) ELSE redis
                          /\ mem' = IF j = 1 THEN [mem EXCEPT ![p] = Append(mem[p], n)] ELSE mem
             full == fates' = [fates EXCEPT ![n] = {"queueFull"}]
  <1>1. /\ p \in Procs /\ n \in 1..MaxIngests /\ n \in Accepted' /\ cur' = cur
        /\ batches' = Append(batches, b) /\ Len(batches) < MaxIngests /\ rows' = rows
        /\ \A s \in Seq(Accepted) : s \in Seq(Accepted')
    <2>1. TypeOK /\ Shape
      BY DEF IndInv
    <2> QED
      BY <2>1, Types, SeqKept DEF Ingest, control, Accepted
  <1>2. fates[n] = {} /\ fates \in [1..MaxIngests -> SUBSET Fates]
    BY <1>1, Types DEF IndInv, FatesAwait, Shape
  <1>3. \/ UNCHANGED fates /\ mem' = [mem EXCEPT ![p] = Append(mem[p], n)]
        \/ full /\ mem' = mem
        \/ ~PutMemory(p, n)
    BY <1>2 DEF PutMemory, MeetsFate
  <1>4. \/ put(1, 0) /\ UNCHANGED fates
        \/ put(1, 1) /\ UNCHANGED fates
        \/ put(0, 1) /\ UNCHANGED fates
        \/ put(1, 0) /\ full
        \/ put(0, 0) /\ full
    <2>1. \/ PushRedis(n) \/ PushFails(p, n)
          \/ PutMemory(p, n) /\ UNCHANGED redis
      BY DEF Ingest
    <2>2. CASE PushRedis(n)
      BY <2>2 DEF PushRedis
    <2>3. CASE PutMemory(p, n) /\ redis' \in {redis, Append(redis, n)}
      <3> HIDE DEF full
      <3> QED
        BY <1>3, <2>3
    <2>4. CASE PushFails(p, n)
      BY <2>3, <2>4 DEF PushFails
    <2> HIDE DEF put, full, n
    <2> QED
      BY <2>1, <2>2, <2>3, <2>4
  <1>5. ASSUME NEW i \in {0, 1}, NEW j \in {0, 1}, put(i, j)
        PROVE  Copies' = [Copies EXCEPT ![n] = i + j]
    BY <1>1, <1>5, CopiesPut
  <1>6. ASSUME NEW k \in 0..2, Copies' = [Copies EXCEPT ![n] = k],
               (k \in {1, 2} /\ UNCHANGED fates) \/ (k \in {0, 1} /\ full)
        PROVE  Delivery!Accept(b, k)
    BY <1>1, <1>6 DEF Delivery!Accept
  <1> HIDE DEF put, full, n
  <1>7. CASE put(1, 0)
    <2>1. Copies' = [Copies EXCEPT ![n] = 1 + 0]
      BY <1>5, <1>7
    <2>2. UNCHANGED fates \/ full
      BY <1>4
    <2> QED
      BY <1>6, <2>1, <2>2
  <1>8. CASE put(1, 1) /\ UNCHANGED fates
    <2>1. Copies' = [Copies EXCEPT ![n] = 1 + 1]
      BY <1>5, <1>8
    <2> QED
      BY <1>6, <1>8, <2>1
  <1>9. CASE put(0, 1) /\ UNCHANGED fates
    <2>1. Copies' = [Copies EXCEPT ![n] = 0 + 1]
      BY <1>5, <1>9
    <2> QED
      BY <1>6, <1>9, <2>1
  <1>10. CASE put(0, 0) /\ full
    <2>1. Copies' = [Copies EXCEPT ![n] = 0 + 0]
      BY <1>5, <1>10
    <2> QED
      BY <1>6, <1>10, <2>1
  <1> QED
    BY <1>4, <1>7, <1>8, <1>9, <1>10

\* A worker that ends a batch, or a blpop whose answer is lost, ends one copy.
LEMMA WorkerArrives ==
    ASSUME IndInv, Apart, SeenWritten, NEW p \in Procs, Commit(p) \/ RollBack(p) \/ PopFails(p)
    PROVE  [Delivery!DeliveryNext]_(Delivery!deliveryVars)
  <1>1. TypeOK /\ Shape /\ Delivery!Accepted = Accepted /\ Accepted \subseteq 1..MaxIngests
    BY Types DEF IndInv, Delivery!Accepted, Accepted
  <1>2. CASE Commit(p)
    <2> DEFINE n == cur[p]
               xs == {x \in Ids(n) : Inserts(p, x) # {} \/ Replaces(p, x)}
    <2>1. n \in Accepted /\ UNCHANGED <<redis, mem, batches>> /\ cur' = [cur EXCEPT ![p] = 0]
          /\ fates' = [fates EXCEPT ![n] = @ \cup {"committed"}]
      BY <1>2, CommitDelivers DEF Commit, Done, environment, NoBatch, MeetsFate
    <2>2. Copies[n] > 0 /\ Copies' = [Copies EXCEPT ![n] = Copies[n] - 1]
      BY <1>1, <2>1, CopiesFewer
    <2>3. Delivery!Deliver(n, xs) /\ xs \in SUBSET Delivery!Ids(n)
      BY <1>2, <2>1, <2>2, CommitDelivers DEF Delivery!Deliver, Delivery!Arrives
    <2> HIDE DEF xs, n
    <2> QED
      BY <1>1, <2>1, <2>3 DEF Delivery!DeliveryNext
  <1>3. CASE RollBack(p)
    <2> DEFINE n == cur[p]
    <2>1. n \in Accepted /\ UNCHANGED <<redis, mem, batches, rows>> /\ cur' = [cur EXCEPT ![p] = 0]
          /\ \E fate \in {"conflict", "dbError"} : fates' = [fates EXCEPT ![n] = @ \cup {fate}]
      BY <1>1, <1>3, Types DEF RollBack, Done, environment, NoBatch, MeetsFate
    <2>2. Copies[n] > 0 /\ Copies' = [Copies EXCEPT ![n] = Copies[n] - 1]
      BY <1>1, <2>1, CopiesFewer
    <2>3. Delivery!Refuse(n)
      BY <2>1, <2>2 DEF Delivery!Refuse, Delivery!Arrives
    <2> QED
      BY <1>1, <2>1, <2>3 DEF Delivery!DeliveryNext
  <1>4. CASE PopFails(p)
    <2>1. UNCHANGED <<batches, mem, cur, rows>>
      BY <1>4 DEF PopFails
    <2>2. CASE UNCHANGED <<redis, fates>>
      BY <2>1, <2>2, CopiesStay DEF Delivery!deliveryVars
    <2>3. CASE redis # <<>> /\ redis' = Tail(redis) /\ MeetsFate(Head(redis), "lostInPop")
      <3>1. Head(redis) \in Accepted
        BY <1>1, <2>3, Types, HeadTailProperties
      <3>2. /\ Copies[Head(redis)] > 0
            /\ Copies' = [Copies EXCEPT ![Head(redis)] = Copies[Head(redis)] - 1]
        BY <1>1, <2>1, <2>3, <3>1, CopiesFewer
      <3>3. Delivery!Refuse(Head(redis))
        BY <2>1, <2>3, <3>2 DEF Delivery!Refuse, Delivery!Arrives, MeetsFate
      <3> QED
        BY <1>1, <3>1, <3>3 DEF Delivery!DeliveryNext
    <2> QED
      BY <1>4, <2>2, <2>3 DEF PopFails
  <1> QED
    BY <1>2, <1>3, <1>4

\* A process that is replaced loses the copies it held.
LEMMA ReplacedLoses ==
    ASSUME IndInv, Apart, NEW p \in Procs, Replaced(p)
    PROVE  \E fate \in {"crash", "exit"} : Delivery!Lose(Gone(p), fate)
  <1>1. /\ redis' = redis /\ mem' = [mem EXCEPT ![p] = <<>>] /\ cur' = [cur EXCEPT ![p] = 0]
        /\ UNCHANGED <<batches, rows>>
    BY DEF Replaced, Crash, Redeploy, NewProcess, environment, NoBatch
  <1>2. PICK fate \in {"crash", "exit"} : fates' = [n \in 1..MaxIngests |->
                   IF n = cur[p] \/ \E i \in DOMAIN mem[p] : mem[p][i] = n
                     THEN fates[n] \cup {fate} ELSE fates[n]]
    BY DEF Replaced, Crash, Redeploy, NewProcess
  <1>3. TypeOK /\ Shape /\ DOMAIN Copies = 1..MaxIngests /\ DOMAIN fates = 1..MaxIngests
    BY CopiesType DEF IndInv, Shape
  <1>4. ASSUME NEW n \in 1..MaxIngests
        PROVE  (n = cur[p] \/ \E i \in DOMAIN mem[p] : mem[p][i] = n) <=> Gone(p)[n] > 0
    BY DEF Gone, Elements
  <1>5. /\ \A n \in 1..MaxIngests : Copies[n] >= Gone(p)[n]
        /\ Copies' = [n \in 1..MaxIngests |-> Copies[n] - Gone(p)[n]]
    BY <1>1, CopiesGone
  <1>6. fates' = [n \in DOMAIN fates |-> IF Gone(p)[n] > 0 THEN fates[n] \cup {fate} ELSE fates[n]]
    BY <1>2, <1>3, <1>4
  <1>7. Delivery!Lose(Gone(p), fate)
    BY <1>1, <1>3, <1>5, <1>6 DEF Delivery!Lose
  <1> QED
    BY <1>7

\* The rest of the steps delete traces, move a copy from a queue into a
\* worker's hands, or change nothing the abstract state shows.
LEMMA OthersDelete ==
    ASSUME IndInv, Apart, NEW p,
           \/ p \in ApiProcs /\ (PurgeDelete(p) \/ \E ids \in SUBSET TraceIds : DeleteTraces(p, ids))
           \/ p \in ApiProcs /\ (PurgeFind(p) \/ Stop(p) \/ StartAgain(p))
           \/ p \in Procs /\ (Loop(p) \/ Pop(p) \/ MemGet(p) \/ ReadTrace(p))
           \/ RedisFails \/ RedisReturns \/ UNCHANGED vars
    PROVE  [Delivery!DeliveryNext]_(Delivery!deliveryVars)
  <1>1. ASSUME NEW ids \in SUBSET TraceIds, rows' = [x \in TraceIds |-> IF x \in ids THEN 0 ELSE rows[x]],
               UNCHANGED <<batches, fates, redis, mem, cur>>
        PROVE  Delivery!DeliveryNext
    <2>1. Delivery!Delete(ids)
      BY <1>1, CopiesStay DEF Delivery!Delete
    <2> QED
      BY <2>1 DEF Delivery!DeliveryNext
  <1>2. CASE p \in ApiProcs /\ PurgeDelete(p)
    <2>1. purging[p].ids \in SUBSET TraceIds
      BY <1>2 DEF IndInv, TypeOK
    <2>2. /\ rows' = [x \in TraceIds |-> IF x \in purging[p].ids THEN 0 ELSE rows[x]]
          /\ UNCHANGED <<batches, fates, redis, mem, cur>>
      BY <1>2 DEF PurgeDelete, environment, control
    <2> QED
      BY <1>1, <2>1, <2>2
  <1>3. ASSUME NEW ids \in SUBSET TraceIds, DeleteTraces(p, ids)
        PROVE  Delivery!DeliveryNext
    BY <1>1, <1>3 DEF DeleteTraces, environment, control
  <1>4. ASSUME UNCHANGED <<batches, fates, rows>>, Copies' = Copies
        PROVE  UNCHANGED Delivery!deliveryVars
    BY <1>4 DEF Delivery!deliveryVars
  <1>5. CASE p \in ApiProcs /\ (PurgeFind(p) \/ Stop(p) \/ StartAgain(p))
    <2>1. UNCHANGED <<batches, fates, rows, redis, mem, cur>>
      BY <1>5 DEF PurgeFind, Stop, StartAgain, environment, control
    <2> QED
      BY <1>4, <2>1, CopiesStay
  <1>6. CASE p \in Procs /\ (Loop(p) \/ ReadTrace(p))
    <2>1. UNCHANGED <<batches, fates, rows, redis, mem, cur>>
      BY <1>6 DEF Loop, ReadTrace, environment
    <2> QED
      BY <1>4, <2>1, CopiesStay
  <1>7. CASE p \in Procs /\ (Pop(p) \/ MemGet(p))
    <2>1. UNCHANGED <<batches, fates, rows>>
      BY <1>7 DEF Pop, MemGet
    <2> QED
      BY <1>4, <1>7, <2>1, CopiesTaken
  <1>8. CASE RedisFails \/ RedisReturns \/ UNCHANGED vars
    <2>1. UNCHANGED <<batches, fates, rows, redis, mem, cur>>
      BY <1>8 DEF RedisFails, RedisReturns, vars, control
    <2> QED
      BY <1>4, <2>1, CopiesStay
  <1> QED
    BY <1>2, <1>3, <1>5, <1>6, <1>7, <1>8

\* Every step of the server is a step of the abstract delivery, or none.
LEMMA DeliveryStep ==
    ASSUME IndInv, DeliveryInv, [Next]_vars
    PROVE  [Delivery!DeliveryNext]_(Delivery!deliveryVars)
  <1>1. Apart /\ SeenWritten
    BY DEF DeliveryInv
  <1>2. ASSUME NEW p \in ApiProcs, NEW b \in Batches, Ingest(p, b)
        PROVE  Delivery!DeliveryNext
    <2>1. \E k \in 0..2 : Delivery!Accept(b, k)
      BY <1>2, IngestAccepts
    <2> QED
      BY <2>1 DEF Delivery!DeliveryNext
  <1>3. ASSUME NEW p \in Procs, Replaced(p)
        PROVE  Delivery!DeliveryNext
    <2>1. \E fate \in {"crash", "exit"} : Delivery!Lose(Gone(p), fate)
      BY <1>1, <1>3, ReplacedLoses
    <2>2. Gone(p) \in [1..MaxIngests -> 0..2]
      BY DEF Gone
    <2> QED
      BY <2>1, <2>2 DEF Delivery!DeliveryNext
  <1>4. CASE \E p \in ApiProcs : \E b \in Batches : Ingest(p, b)
    BY <1>2, <1>4
  <1>5. CASE \E p \in Procs : Replaced(p)
    BY <1>3, <1>5
  <1>6. CASE \E p \in Procs : Commit(p) \/ RollBack(p) \/ PopFails(p)
    BY <1>1, <1>6, WorkerArrives
  <1>7. CASE \/ \E p \in ApiProcs : \/ PurgeDelete(p) \/ PurgeFind(p) \/ Stop(p) \/ StartAgain(p)
                                    \/ \E ids \in SUBSET TraceIds : DeleteTraces(p, ids)
             \/ \E p \in Procs : Loop(p) \/ Pop(p) \/ MemGet(p) \/ ReadTrace(p)
             \/ RedisFails \/ RedisReturns \/ UNCHANGED vars
    BY <1>1, <1>7, OthersDelete
  <1> QED
    BY <1>4, <1>5, <1>6, <1>7, StepKinds

\* Nothing is under way at first.
LEMMA DeliveryStart == Init => Delivery!DeliveryInit /\ DeliveryInv
  <1> SUFFICES ASSUME Init
               PROVE  Delivery!DeliveryInit /\ DeliveryInv
    OBVIOUS
  <1>1. IndInv
    BY InitIndInv
  <1>2. \A n \in 1..MaxIngests : ~InSystem(n)
    BY DEF Init, InSystem, Queued, InHand, Elements, NoBatch
  <1>3. Copies = [n \in 1..MaxIngests |-> 0]
    <2>1. Copies \in [1..MaxIngests -> Nat] /\ \A n \in 1..MaxIngests : Copies[n] = 0
      BY <1>1, <1>2, CopiesType DEF IndInv
    <2> QED
      BY <2>1
  <1>4. Delivery!DeliveryInit
    BY <1>3 DEF Init, NoTraces, Delivery!DeliveryInit
  <1>5. Apart /\ SeenWritten
    BY DEF Init, Apart, Once, Elements, SeenWritten
  <1> QED
    BY <1>4, <1>5 DEF DeliveryInv

\* In every reachable state no batch is queued twice in one place, and what a
\* worker loaded had been committed.
THEOREM DeliveryInvariance == Spec => []DeliveryInv
  <1>1. IndInv /\ DeliveryInv /\ [Next]_vars => DeliveryInv'
    BY ApartStep, SeenWrittenStep DEF DeliveryInv
  <1> QED
    BY Invariance, DeliveryStart, <1>1, PTL DEF Spec

\* Before the first fault a batch has one copy at most, and none once it has
\* met its fate; ...
OneCopy ==
    faults = 0 => \A n \in 1..MaxIngests :
        Copies[n] <= 1 /\ (fates[n] # {} => Copies[n] = 0)

\* ... it is committed, rolled back, or dropped at a full memory queue, ...
QuietFates ==
    faults = 0 => \A n \in 1..MaxIngests :
        /\ fates[n] \subseteq {"committed", "conflict", "queueFull"}
        /\ "queueFull" \in fates[n] => ~redisUp

\* ... and it is rolled back for a reason.
Grounds(n) == Repeats(n) \/ Ids(n) \cap deleted # {} \/ Contested(n)
ConflictsGrounded == faults = 0 => \A n \in Accepted : "conflict" \in fates[n] => Grounds(n)

QuietInv == OneCopy /\ QuietFates /\ ConflictsGrounded

\* A worker that ends its batch without a fault ends the one copy there is.
LEMMA QuietEnds ==
    ASSUME IndInv, Apart, OneCopy, faults = 0, faults' = 0, NEW p \in Procs,
           Commit(p) \/ RollBack(p)
    PROVE  /\ cur[p] \in Accepted /\ fates[cur[p]] = {} /\ Copies'[cur[p]] = 0
           /\ \E fate \in {"committed", "conflict"} : fates'[cur[p]] = {fate}
           /\ \A n \in 1..MaxIngests : n # cur[p] =>
                 Copies'[n] = Copies[n] /\ fates'[n] = fates[n]
  <1>1. /\ TypeOK /\ Shape /\ fates \in [1..MaxIngests -> SUBSET Fates] /\ ~Fault
        /\ Accepted \subseteq 1..MaxIngests /\ Copies \in [1..MaxIngests -> Nat]
    BY Types, CopiesType DEF IndInv, Shape, Fault
  <1>2. cur[p] \in Accepted
    BY <1>1, Types DEF Commit, RollBack, Done
  <1>3. UNCHANGED <<redis, mem>> /\ cur' = [cur EXCEPT ![p] = 0]
    BY DEF Commit, RollBack, Done, environment, NoBatch
  <1>4. Copies[cur[p]] > 0 /\ Copies' = [Copies EXCEPT ![cur[p]] = Copies[cur[p]] - 1]
    BY <1>1, <1>2, <1>3, CopiesFewer
  <1>5. Copies[cur[p]] <= 1 /\ (fates[cur[p]] # {} => Copies[cur[p]] = 0)
    BY <1>1, <1>2 DEF OneCopy
  <1>6. Copies[cur[p]] = 1 /\ fates[cur[p]] = {}
    <2>1. \A c \in Nat : c > 0 /\ c <= 1 => c = 1
      OBVIOUS
    <2>2. \A c \in Nat : c > 0 => c # 0
      OBVIOUS
    <2>3. Copies[cur[p]] \in Nat
      BY <1>1, <1>2
    <2> QED
      BY <1>4, <1>5, <2>1, <2>2, <2>3
  <1>7. PICK fate \in {"committed", "conflict"} : fates' = [fates EXCEPT ![cur[p]] = @ \cup {fate}]
    BY <1>1 DEF Commit, RollBack, MeetsFate
  <1>8. fates'[cur[p]] = {fate} /\ \A n \in 1..MaxIngests : n # cur[p] => fates'[n] = fates[n]
    BY <1>1, <1>2, <1>6, <1>7
  <1>9. Copies' = [Copies EXCEPT ![cur[p]] = 0]
    BY <1>4, <1>6
  <1>10. Copies'[cur[p]] = 0 /\ \A n \in 1..MaxIngests : n # cur[p] => Copies'[n] = Copies[n]
    BY <1>1, <1>2, <1>9
  <1> QED
    BY <1>2, <1>6, <1>8, <1>10

\* A batch that is accepted without a fault goes on one queue, or none.
LEMMA QuietAccepts ==
    ASSUME IndInv, OneQueue, [Next]_vars, faults' = 0, NEW p \in ApiProcs, NEW b \in Batches,
           Ingest(p, b)
    PROVE  LET n == Len(batches) + 1 IN
           /\ n \in 1..MaxIngests /\ fates[n] = {}
           /\ \/ Copies' = [Copies EXCEPT ![n] = 1] /\ fates' = fates
              \/ /\ Copies' = [Copies EXCEPT ![n] = 0] /\ ~redisUp
                 /\ fates' = [fates EXCEPT ![n] = {"queueFull"}]
  <1> DEFINE n == Len(batches) + 1
  <1>1. /\ p \in Procs /\ n \in 1..MaxIngests /\ n \in Accepted' /\ cur' = cur
        /\ Len(batches) \in Nat
        /\ \A s \in Seq(Accepted) : s \in Seq(Accepted')
    <2>1. TypeOK /\ Shape
      BY DEF IndInv
    <2> QED
      BY <2>1, Types, SeqKept DEF Ingest, control, Accepted
  <1>2. fates[n] = {} /\ fates \in [1..MaxIngests -> SUBSET Fates]
    <2>1. n > Len(batches)
      BY <1>1
    <2> HIDE DEF n
    <2> QED
      BY <1>1, <2>1 DEF IndInv, FatesAwait, Shape
  <1>3. useRedis[p] = redisUp /\ ~Fault
    BY <1>1, QuietStep DEF OneQueue, Fault, IndInv, Shape
  <1>4. \/ /\ redis' = Append(redis, n) /\ mem' = mem /\ fates' = fates
        \/ /\ ~redisUp /\ redis' = redis /\ PutMemory(p, n)
    BY <1>3 DEF Ingest, PushRedis
  <1>8. ASSUME NEW i \in {0, 1}, NEW j \in {0, 1},
               redis' = IF i = 1 THEN Append(redis, n) ELSE redis,
               mem' = IF j = 1 THEN [mem EXCEPT ![p] = Append(mem[p], n)] ELSE mem
        PROVE  Copies' = [Copies EXCEPT ![n] = i + j]
    BY <1>1, <1>8, CopiesPut
  <1> HIDE DEF n
  <1>5. CASE redis' = Append(redis, n) /\ mem' = mem /\ fates' = fates
    <2>1. Copies' = [Copies EXCEPT ![n] = 1 + 0]
      BY <1>5, <1>8
    <2> QED
      BY <1>1, <1>2, <1>5, <2>1 DEF n
  <1>6. CASE ~redisUp /\ redis' = redis /\ mem' = [mem EXCEPT ![p] = Append(@, n)] /\ fates' = fates
    <2>1. Copies' = [Copies EXCEPT ![n] = 0 + 1]
      BY <1>6, <1>8
    <2> QED
      BY <1>1, <1>2, <1>6, <2>1 DEF n
  <1>7. CASE ~redisUp /\ redis' = redis /\ mem' = mem /\ MeetsFate(n, "queueFull")
    <2>1. Copies' = [Copies EXCEPT ![n] = 0 + 0]
      BY <1>7, <1>8
    <2>2. fates' = [fates EXCEPT ![n] = {"queueFull"}]
      BY <1>2, <1>7 DEF MeetsFate
    <2> QED
      BY <1>1, <1>2, <1>7, <2>1, <2>2 DEF n
  <1> QED
    BY <1>4, <1>5, <1>6, <1>7 DEF PutMemory

\* Until a fault happens no step makes a second copy of a batch.
LEMMA OneCopyStep ==
    IndInv /\ Apart /\ OneQueue /\ OneCopy /\ QuietFates /\ [Next]_vars
        => OneCopy' /\ QuietFates'
  <1> SUFFICES ASSUME IndInv, Apart, OneQueue, OneCopy, QuietFates, [Next]_vars, faults' = 0,
                      NEW n \in 1..MaxIngests
               PROVE  /\ Copies'[n] <= 1 /\ (fates'[n] # {} => Copies'[n] = 0)
                      /\ fates'[n] \subseteq {"committed", "conflict", "queueFull"}
                      /\ "queueFull" \in fates'[n] => ~redisUp'
    BY DEF OneCopy, QuietFates
  <1>1. /\ faults = 0 /\ redisUp' = redisUp
        /\ Copies \in [1..MaxIngests -> Nat] /\ fates \in [1..MaxIngests -> SUBSET Fates]
    BY QuietStep, CopiesType DEF IndInv, Shape
  <1>2. /\ Copies[n] <= 1 /\ (fates[n] # {} => Copies[n] = 0)
        /\ fates[n] \subseteq {"committed", "conflict", "queueFull"}
        /\ "queueFull" \in fates[n] => ~redisUp
    BY <1>1 DEF OneCopy, QuietFates
  <1>3. CASE Copies'[n] = Copies[n] /\ fates'[n] = fates[n]
    BY <1>1, <1>2, <1>3
  <1>4. ASSUME NEW p \in ApiProcs, NEW b \in Batches, Ingest(p, b)
        PROVE  /\ Copies'[n] <= 1 /\ (fates'[n] # {} => Copies'[n] = 0)
               /\ fates'[n] \subseteq {"committed", "conflict", "queueFull"}
               /\ "queueFull" \in fates'[n] => ~redisUp'
    <2> DEFINE k == Len(batches) + 1
    <2>1. /\ k \in 1..MaxIngests /\ fates[k] = {}
          /\ \/ Copies' = [Copies EXCEPT ![k] = 1] /\ fates' = fates
             \/ /\ Copies' = [Copies EXCEPT ![k] = 0] /\ ~redisUp
                /\ fates' = [fates EXCEPT ![k] = {"queueFull"}]
      BY <1>4, QuietAccepts
    <2> HIDE DEF k
    <2>2. CASE n # k
      <3>1. Copies'[n] = Copies[n] /\ fates'[n] = fates[n]
        BY <1>1, <2>1, <2>2
      <3> QED
        BY <1>1, <1>2, <3>1
    <2>3. CASE n = k
      <3>1. \/ Copies'[n] = 1 /\ fates'[n] = {}
            \/ Copies'[n] = 0 /\ fates'[n] = {"queueFull"} /\ ~redisUp
        BY <1>1, <2>1, <2>3
      <3> QED
        BY <1>1, <3>1
    <2> QED
      BY <2>2, <2>3
  <1>5. CASE UNCHANGED <<batches, redis, mem, cur, wpc, fates>>
    BY <1>3, <1>5, CopiesStay
  <1>6. ASSUME NEW p \in Procs, Loop(p) \/ ReadTrace(p) \/ Pop(p) \/ MemGet(p)
        PROVE  Copies' = Copies /\ fates' = fates
    <2>1. CASE Loop(p) \/ ReadTrace(p)
      BY <2>1, CopiesStay DEF Loop, ReadTrace, environment
    <2>2. CASE Pop(p) \/ MemGet(p)
      BY <2>2, CopiesTaken DEF Pop, MemGet
    <2> QED
      BY <1>6, <2>1, <2>2
  <1>7. ASSUME NEW p \in Procs, Commit(p) \/ RollBack(p)
        PROVE  /\ Copies'[n] <= 1 /\ (fates'[n] # {} => Copies'[n] = 0)
               /\ fates'[n] \subseteq {"committed", "conflict", "queueFull"}
               /\ "queueFull" \in fates'[n] => ~redisUp'
    <2>1. CASE n = cur[p]
      <3>1. /\ Copies'[n] = 0
            /\ \E fate \in {"committed", "conflict"} : fates'[n] = {fate}
        BY <1>1, <1>7, <2>1, QuietEnds
      <3> QED
        BY <3>1
    <2>2. CASE n # cur[p]
      <3>1. Copies'[n] = Copies[n] /\ fates'[n] = fates[n]
        BY <1>1, <1>7, <2>2, QuietEnds
      <3> QED
        BY <1>1, <1>2, <3>1
    <2> QED
      BY <2>1, <2>2
  <1> QED
    BY <1>3, <1>4, <1>5, <1>6, <1>7, QuietStep

\* Without faults a conflict has a reason: nobody but another batch writes a
\* row that was not there when it was looked up.
LEMMA ConflictGrounded ==
    ASSUME IndInv, Apart, OneCopy, SeenCurrent, faults = 0, faults' = 0,
           NEW p \in Procs, RollBack(p), NEW x \in Ids(cur[p]), Conflict(p, x)
    PROVE  Grounds(cur[p])
  <1> DEFINE b == batches[cur[p]]
  <1>1. /\ TypeOK /\ Shape /\ cur[p] # NoBatch /\ cur[p] \in Accepted /\ b \in Batches
        /\ seen[p] \in Seq(Versions \cup {0}) /\ Len(seen[p]) = Len(b) /\ SeenStays
    BY Types DEF IndInv, Shape, Reads, RollBack, Done, NoBatch
  <1>2. DOMAIN b = 1..Len(b) /\ DOMAIN seen[p] = DOMAIN b /\ Len(b) \in Nat
    BY <1>1, BatchIsSeq
  <1>3. CASE Alone
    BY <1>3, ConflictExplained DEF Grounds
  <1>4. CASE ~Alone /\ rows[x] # 0
    <2>0. x \in TraceIds
      BY <1>1, LastVersionType
    <2>1. PICK m \in Accepted : "committed" \in fates[m] /\ x \in Ids(m)
      BY <1>4, <2>0 DEF IndInv, AllOrNothing, Ids
    <2>2. m # cur[p]
      BY <2>1, QuietEnds
    <2> QED
      BY <1>4, <2>1, <2>2 DEF Grounds, Contested
  <1>5. CASE rows[x] = 0
    <2>1. PICK i \in DOMAIN b : b[i].id = x /\ Loaded(p, x) = seen[p][i]
      BY <1>1, LoadedFirst
    <2>2. \A j \in DOMAIN b : b[j].id = x /\ j # i => Repeats(cur[p])
      BY <1>1, <2>1, TwoRepeat
    <2>3. Inserts(p, x) = {j \in DOMAIN b : b[j].id = x /\ seen[p][j] = 0}
      BY DEF Inserts
    <2>4. CASE Loaded(p, x) # 0
      BY <1>1, <1>2, <1>5, <2>1, <2>4 DEF SeenStays, Grounds
    <2>5. CASE Cardinality(Inserts(p, x)) > 1
      <3>1. ASSUME Inserts(p, x) \subseteq {i}
            PROVE  FALSE
        <4>1. IsFiniteSet({i}) /\ Cardinality({i}) = 1
          BY FS_Singleton
        <4>2. Cardinality(Inserts(p, x)) <= 1 /\ Cardinality(Inserts(p, x)) \in Nat
          BY <3>1, <4>1, FS_Subset, FS_CardinalityType
        <4> QED
          BY <2>5, <4>2
      <3>2. PICK j \in Inserts(p, x) : j # i
        BY <3>1
      <3> QED
        BY <2>2, <2>3, <3>2 DEF Grounds
    <2> QED
      BY <1>5, <2>4, <2>5 DEF Conflict, Replaces, EndsAnew
  <1> QED
    BY <1>3, <1>4, <1>5

\* What is a reason stays one.
LEMMA GroundsStay ==
    ASSUME IndInv, [Next]_vars, NEW n \in Accepted, Grounds(n)
    PROVE  n \in Accepted' /\ Grounds(n)'
  <1>1. TypeOK /\ Shape /\ deleted \subseteq deleted'
    BY RowsChange DEF IndInv
  <1>2. \A m \in Accepted : m \in Accepted' /\ Ids(m)' = Ids(m) /\ batches'[m] = batches[m]
    BY <1>1, BatchesKept
  <1>3. Repeats(n) => Repeats(n)'
    BY <1>2 DEF Repeats
  <1>4. Contested(n) => Contested(n)'
    BY <1>2 DEF Contested, Alone
  <1> QED
    BY <1>1, <1>2, <1>3, <1>4 DEF Grounds

\* Every step keeps it true that a rollback for a conflict has a reason.
LEMMA ConflictsGroundedStep ==
    IndInv /\ Apart /\ OneQueue /\ OneCopy /\ SeenCurrent /\ ConflictsGrounded /\ [Next]_vars
        => ConflictsGrounded'
  <1> SUFFICES ASSUME IndInv, Apart, OneQueue, OneCopy, SeenCurrent, ConflictsGrounded,
                      [Next]_vars, faults' = 0, NEW n \in Accepted', "conflict" \in fates'[n]
               PROVE  Grounds(n)'
    BY DEF ConflictsGrounded
  <1>0. TypeOK /\ Shape
    BY DEF IndInv
  <1>1. TypeOK /\ Shape /\ Accepted' \subseteq 1..MaxIngests /\ faults = 0
    <2>1. faults = 0
      BY QuietStep
    <2>2. batches' \in Seq(Batches) /\ Len(batches') <= MaxIngests /\ MaxIngests \in Nat
      BY <1>0, BatchesKept, Types
    <2> QED
      BY <1>0, <2>1, <2>2 DEF Accepted
  <1>2. CASE "conflict" \in fates[n]
    <2>1. n \in Accepted
      BY <1>1, <1>2, Types DEF IndInv, FatesAwait, Accepted
    <2> QED
      BY <1>1, <1>2, <2>1, GroundsStay DEF ConflictsGrounded
  <1>3. ASSUME NEW p \in Procs, RollBack(p), cur[p] = n, NEW x \in Ids(n), Conflict(p, x)
        PROVE  Grounds(n)'
    <2>1. n \in Accepted
      BY <1>1, <1>3, Types DEF RollBack, Done
    <2>2. Grounds(n)
      BY <1>1, <1>3, ConflictGrounded
    <2> QED
      BY <2>1, <2>2, GroundsStay
  <1> QED
    BY <1>1, <1>2, <1>3, FatesGrow

\* No batch the API accepted disappears unprovoked: without a fault it is
\* written, but for a full memory queue, a trace it repeats, one that was
\* deleted, or one that another worker wrote meanwhile; and whatever fails, it
\* does not go without one of the fates the code has for it.
\* (enqueue_batch, dequeue_batch and _run, worker.py.)
THEOREM NothingLost == Spec => []NothingLostUnprovoked
  <1>1. Init => QuietInv
    <2>1. ASSUME Init
          PROVE  QuietInv
      <3>1. \A n \in 1..MaxIngests : Copies[n] = 0 /\ fates[n] = {}
        BY <2>1, DeliveryStart DEF Init, Delivery!DeliveryInit
      <3>2. Accepted = {}
        BY <2>1 DEF Init, Accepted
      <3> QED
        BY <3>1, <3>2 DEF QuietInv, OneCopy, QuietFates, ConflictsGrounded
    <2> QED
      BY <2>1
  <1>2. IndInv /\ DeliveryInv /\ AloneInv /\ QuietInv /\ [Next]_vars => QuietInv'
    BY OneCopyStep, ConflictsGroundedStep DEF DeliveryInv, AloneInv, QuietInv
  <1>3. ASSUME IndInv, QuietInv, NEW n \in Accepted
        PROVE  \/ InSystem(n) \/ "committed" \in fates[n]
               \/ "queueFull" \in fates[n] /\ ~redisUp
               \/ "conflict" \in fates[n] /\ Grounds(n)
               \/ faults > 0 /\ fates[n] # {}
    <2>1. faults \in Nat /\ (InSystem(n) \/ fates[n] # {})
      BY <1>3 DEF IndInv, Shape, NotForgotten
    <2>2. CASE faults = 0 /\ fates[n] # {}
      <3>1. n \in 1..MaxIngests
        BY <1>3, Types DEF IndInv
      <3>2. /\ fates[n] \subseteq {"committed", "conflict", "queueFull"}
            /\ "queueFull" \in fates[n] => ~redisUp
            /\ "conflict" \in fates[n] => Grounds(n)
        BY <1>3, <2>2, <3>1 DEF QuietInv, QuietFates, ConflictsGrounded
      <3> QED
        BY <2>2, <3>2
    <2> QED
      BY <2>1, <2>2
  <1>4. IndInv /\ QuietInv => NothingLostUnprovoked
    BY <1>3 DEF NothingLostUnprovoked, Grounds
  <1> QED
    BY Invariance, DeliveryInvariance, AloneInvariance, <1>1, <1>2, <1>4, PTL DEF Spec

\* The server implements BatchDelivery, for any number of processes, any
\* batches and any faults: a batch is under way in two copies at most, each
\* is written whole or ends otherwise, and nothing is made up, written in part
\* or brought back.
THEOREM ImplementsDelivery == Spec => DeliverySpec
  <1>1. IndInv /\ DeliveryInv /\ [Next]_vars => [Delivery!DeliveryNext]_(Delivery!deliveryVars)
    BY DeliveryStep
  <1> QED
    BY Invariance, DeliveryInvariance, DeliveryStart, <1>1, PTL
       DEF Spec, DeliverySpec, Delivery!DeliverySpec

\* A batch that is in no queue and in no worker's hands is settled: no step
\* brings it back, processes it again or adds to its fates.
SettledStays ==
    [][\A n \in Accepted : ~InSystem(n) => ~InSystem(n)' /\ fates'[n] = fates[n]]_vars

\* A settled batch stays settled (queue.py:29-57, worker.py:41-56), whichever
\* process takes it and whatever fails.
THEOREM SettledForGood == Spec => SettledStays
  <1>1. ASSUME IndInv, IndInv', DeliveryInv, [Next]_vars, NEW n \in Accepted, ~InSystem(n)
        PROVE  ~InSystem(n)' /\ fates'[n] = fates[n]
    <2>0. TypeOK /\ Shape /\ TypeOK' /\ Shape'
      BY <1>1 DEF IndInv
    <2>1. /\ n \in 1..MaxIngests /\ n # Len(batches) + 1 /\ Len(batches) \in Nat
          /\ fates \in [1..MaxIngests -> SUBSET Fates]
          /\ Copies \in [1..MaxIngests -> Nat] /\ Copies[n] = 0
      <3>1. /\ n \in 1..MaxIngests /\ n # Len(batches) + 1 /\ Len(batches) \in Nat
            /\ fates \in [1..MaxIngests -> SUBSET Fates]
        BY <2>0, Types DEF Shape, Accepted
      <3> QED
        BY <1>1, <2>0, <3>1, CopiesType
    <2>2. Copies'[n] = 0 => ~InSystem(n)'
      <3>1. (TypeOK /\ Shape => \A m \in 1..MaxIngests : Copies[m] = 0 <=> ~InSystem(m))'
        BY CountedInSystem, PTL
      <3> QED
        BY <2>0, <2>1, <3>1 DEF InSystem, Queued, InHand, Elements
    <2>3. [Delivery!DeliveryNext]_(Delivery!deliveryVars)
      BY <1>1, DeliveryStep
    <2>4. Copies'[n] = 0 /\ fates'[n] = fates[n]
      <3>1. ASSUME NEW b, NEW k \in 0..2, Delivery!Accept(b, k)
            PROVE  Copies'[n] = 0 /\ fates'[n] = fates[n]
        BY <2>1, <3>1 DEF Delivery!Accept
      <3>2. ASSUME NEW m, NEW fate, Delivery!Arrives(m, fate)
            PROVE  Copies'[n] = 0 /\ fates'[n] = fates[n]
        BY <2>1, <3>2 DEF Delivery!Arrives
      <3>3. ASSUME NEW lost \in [1..MaxIngests -> 0..2], NEW fate, Delivery!Lose(lost, fate)
            PROVE  Copies'[n] = 0 /\ fates'[n] = fates[n]
        BY <2>1, <3>3 DEF Delivery!Lose
      <3>4. ASSUME NEW ids, Delivery!Delete(ids)
            PROVE  Copies'[n] = 0 /\ fates'[n] = fates[n]
        BY <2>1, <3>4 DEF Delivery!Delete
      <3>5. CASE UNCHANGED Delivery!deliveryVars
        BY <2>1, <3>5 DEF Delivery!deliveryVars
      <3> QED
        BY <2>3, <3>1, <3>2, <3>3, <3>4, <3>5
           DEF Delivery!DeliveryNext, Delivery!Refuse, Delivery!Deliver
    <2> QED
      BY <2>2, <2>4
  <1>2. IndInv /\ IndInv' /\ DeliveryInv /\ [Next]_vars
        => [\A n \in Accepted : ~InSystem(n) => ~InSystem(n)' /\ fates'[n] = fates[n]]_vars
    BY <1>1
  <1> QED
    BY Invariance, DeliveryInvariance, <1>2, PTL DEF Spec, SettledStays

\* However many processes there are and however often Redis fails, a batch is
\* in two places at most: the Redis list or the hands that took it from there,
\* and the memory queue of the process whose push had raised.
AtMostTwo == \A n \in 1..MaxIngests : Copies[n] <= 2

\* The fallback (queue.py:29-41) doubles a batch and never does more.
THEOREM TwoCopiesAtMost == Spec => []AtMostTwo
  <1>1. ASSUME IndInv, IndInv', DeliveryInv, [Next]_vars, AtMostTwo
        PROVE  AtMostTwo'
    <2> SUFFICES ASSUME NEW n \in 1..MaxIngests
                 PROVE  Copies'[n] <= 2
      BY DEF AtMostTwo
    <2>1. Copies \in [1..MaxIngests -> Nat] /\ Copies[n] <= 2
      BY <1>1, CopiesType DEF IndInv, AtMostTwo
    <2>2. ASSUME NEW b, NEW k \in 0..2, Delivery!Accept(b, k)
          PROVE  Copies'[n] <= 2
      BY <2>1, <2>2 DEF Delivery!Accept
    <2>3. ASSUME NEW m, NEW fate, Delivery!Arrives(m, fate)
          PROVE  Copies'[n] <= 2
      BY <2>1, <2>3 DEF Delivery!Arrives
    <2>4. ASSUME NEW lost \in [1..MaxIngests -> 0..2], NEW fate, Delivery!Lose(lost, fate)
          PROVE  Copies'[n] <= 2
      BY <2>1, <2>4 DEF Delivery!Lose
    <2>5. ASSUME NEW ids, Delivery!Delete(ids)
          PROVE  Copies'[n] <= 2
      BY <2>1, <2>5 DEF Delivery!Delete
    <2>6. CASE UNCHANGED Delivery!deliveryVars
      BY <2>1, <2>6 DEF Delivery!deliveryVars
    <2> QED
      BY <1>1, <2>2, <2>3, <2>4, <2>5, <2>6, DeliveryStep
         DEF Delivery!DeliveryNext, Delivery!Refuse, Delivery!Deliver
  <1>2. Init => AtMostTwo
    BY DeliveryStart DEF AtMostTwo, Delivery!DeliveryInit
  <1>3. IndInv /\ IndInv' /\ DeliveryInv /\ AtMostTwo /\ [Next]_vars => AtMostTwo'
    BY <1>1
  <1> QED
    BY Invariance, DeliveryInvariance, <1>2, <1>3, PTL DEF Spec
=============================================================================
