------------------------ MODULE AsyncExporterProofs -------------------------
(***************************************************************************)
(* Proofs about AsyncExporter, for every number of threads, queue size and *)
(* batch size.                                                             *)
(***************************************************************************)
EXTENDS AsyncExporter, FiniteSetTheorems, TLAPS

-----------------------------------------------------------------------------
(* Sequences: what the queue operations do, element by element.            *)

\* get() and get_nowait() leave the rest of the queue, shifted by one.
LEMMA TailFacts ==
    ASSUME NEW s \in Seq(Nat), s # <<>>
    PROVE  /\ Tail(s) \in Seq(Nat)
           /\ Len(s) \in Nat /\ Len(s) >= 1
           /\ Len(Tail(s)) = Len(s) - 1
           /\ Head(s) = s[1] /\ Head(s) \in Nat
           /\ \A i \in 1..(Len(s) - 1) : Tail(s)[i] = s[i + 1]
  OBVIOUS

\* put_nowait() adds one element at the end.
LEMMA AppendFacts ==
    ASSUME NEW s \in Seq(Nat), NEW e \in Nat
    PROVE  /\ Append(s, e) \in Seq(Nat)
           /\ Len(s) \in Nat
           /\ Len(Append(s, e)) = Len(s) + 1
           /\ \A i \in 1..Len(s) : Append(s, e)[i] = s[i]
           /\ Append(s, e)[Len(s) + 1] = e
  OBVIOUS

\* A batch handed over is added at the end of what was handed over before.
LEMMA ConcatFacts ==
    ASSUME NEW s \in Seq(Nat), NEW t \in Seq(Nat)
    PROVE  /\ s \o t \in Seq(Nat)
           /\ Len(s) \in Nat /\ Len(t) \in Nat
           /\ Len(s \o t) = Len(s) + Len(t)
           /\ \A i \in 1..Len(s) : (s \o t)[i] = s[i]
           /\ \A i \in 1..Len(t) : (s \o t)[Len(s) + i] = t[i]
  OBVIOUS

-----------------------------------------------------------------------------
(* What the queue holds.                                                   *)

\* Apart from pills, q holds exactly the traces t+1..a, in order.
QueueHolds(q, t, a) ==
    /\ t <= a
    /\ \A i \in 1..Len(q) : q[i] # None => q[i] > t /\ q[i] <= a
    /\ \A i, j \in 1..Len(q) :
          i < j /\ q[i] # None /\ q[j] # None => q[i] < q[j]
    /\ \A k \in (t + 1)..a : \E i \in 1..Len(q) : q[i] = k

\* Every trace that stands behind a pill in q came after the first s.
PillsBehind(q, s) ==
    \A i, j \in 1..Len(q) : i < j /\ q[i] = None /\ q[j] # None => q[j] > s

\* export() of the next trace.
LEMMA HoldsAppend ==
    ASSUME NEW q \in Seq(Nat), NEW t \in Nat, NEW a \in Nat, QueueHolds(q, t, a)
    PROVE  QueueHolds(Append(q, a + 1), t, a + 1)
  <1> DEFINE r == Append(q, a + 1)
  <1>1. /\ r \in Seq(Nat) /\ Len(q) \in Nat /\ Len(r) = Len(q) + 1
        /\ \A i \in 1..Len(q) : r[i] = q[i] /\ q[i] \in Nat
        /\ r[Len(q) + 1] = a + 1
    BY AppendFacts
  <1> HIDE DEF r
  <1>2. \A i \in 1..Len(r) : i \in 1..Len(q) \/ i = Len(q) + 1
    BY <1>1
  <1>3. \A i \in 1..Len(r) : r[i] # None => r[i] > t /\ r[i] <= a + 1
    BY <1>1, <1>2 DEF QueueHolds
  <1>4. ASSUME NEW i \in 1..Len(r), NEW j \in 1..Len(r), i < j, r[i] # None, r[j] # None
        PROVE  r[i] < r[j]
    <2>1. i \in 1..Len(q)
      BY <1>1, <1>2, <1>4
    <2>2. q[i] <= a
      BY <2>1, <1>1, <1>4 DEF QueueHolds
    <2>3. CASE j \in 1..Len(q)
      BY <2>1, <2>3, <1>1, <1>4 DEF QueueHolds
    <2>4. CASE j = Len(q) + 1
      BY <2>1, <2>2, <2>4, <1>1
    <2> QED
      BY <2>3, <2>4, <1>2
  <1>5. ASSUME NEW k \in (t + 1)..(a + 1)
        PROVE  \E i \in 1..Len(r) : r[i] = k
    <2>1. CASE k = a + 1
      BY <2>1, <1>1
    <2>2. CASE k # a + 1
      <3>1. PICK i \in 1..Len(q) : q[i] = k
        BY <2>2 DEF QueueHolds
      <3> QED
        BY <3>1, <1>1
    <2> QED
      BY <2>1, <2>2
  <1>6. t <= a + 1
    BY DEF QueueHolds
  <1> QED
    BY <1>3, <1>4, <1>5, <1>6 DEF QueueHolds, r

\* put_nowait(None).
LEMMA HoldsAppendPill ==
    ASSUME NEW q \in Seq(Nat), NEW t \in Nat, NEW a \in Nat, QueueHolds(q, t, a)
    PROVE  QueueHolds(Append(q, None), t, a)
  <1> DEFINE r == Append(q, None)
  <1>1. /\ r \in Seq(Nat) /\ Len(q) \in Nat /\ Len(r) = Len(q) + 1
        /\ \A i \in 1..Len(q) : r[i] = q[i]
        /\ r[Len(q) + 1] = None
    BY AppendFacts DEF None
  <1> HIDE DEF r
  <1>2. \A i \in 1..Len(r) : r[i] # None => i \in 1..Len(q)
    BY <1>1
  <1>3. \A i \in 1..Len(r) : r[i] # None => r[i] > t /\ r[i] <= a
    BY <1>1, <1>2 DEF QueueHolds
  <1>4. \A i, j \in 1..Len(r) : i < j /\ r[i] # None /\ r[j] # None => r[i] < r[j]
    BY <1>1, <1>2 DEF QueueHolds
  <1>5. ASSUME NEW k \in (t + 1)..a
        PROVE  \E i \in 1..Len(r) : r[i] = k
    <2>1. PICK i \in 1..Len(q) : q[i] = k
      BY DEF QueueHolds
    <2> QED
      BY <2>1, <1>1
  <1> QED
    BY <1>3, <1>4, <1>5 DEF QueueHolds, r

\* A trace taken from the front is the next one, and the rest follow it.
LEMMA HoldsTail ==
    ASSUME NEW q \in Seq(Nat), NEW t \in Nat, NEW a \in Nat, QueueHolds(q, t, a),
           q # <<>>, Head(q) # None
    PROVE  Head(q) = t + 1 /\ QueueHolds(Tail(q), t + 1, a)
  <1> DEFINE r == Tail(q)
  <1>1. /\ Len(q) \in Nat /\ Len(q) >= 1 /\ Len(r) = Len(q) - 1
        /\ Head(q) = q[1]
        /\ \A i \in 1..Len(q) : q[i] \in Nat
        /\ \A i \in 1..Len(r) : r[i] = q[i + 1] /\ i + 1 \in 1..Len(q)
    BY TailFacts
  <1> HIDE DEF r
  <1>2. q[1] > t /\ q[1] <= a /\ q[1] # None
    BY <1>1 DEF QueueHolds
  <1>3. q[1] = t + 1
    <2>1. PICK i \in 1..Len(q) : q[i] = t + 1
      BY <1>1, <1>2 DEF QueueHolds
    <2>2. i # 1 => q[1] < q[i]
      BY <2>1, <1>1, <1>2 DEF QueueHolds, None
    <2> QED
      BY <2>1, <2>2, <1>1, <1>2
  <1>4. t + 1 <= a
    BY <1>1, <1>2, <1>3
  <1>5. ASSUME NEW i \in 1..Len(r), r[i] # None
        PROVE  r[i] > t + 1 /\ r[i] <= a
    <2>1. /\ 1 \in 1..Len(q) /\ i + 1 \in 1..Len(q) /\ 1 < i + 1
          /\ r[i] = q[i + 1] /\ q[i + 1] # None
      BY <1>1, <1>5
    <2>2. q[1] < q[i + 1] /\ q[i + 1] <= a
      BY <2>1, <1>2 DEF QueueHolds
    <2> QED
      BY <2>1, <2>2, <1>1, <1>3
  <1>6. ASSUME NEW i \in 1..Len(r), NEW j \in 1..Len(r), i < j, r[i] # None, r[j] # None
        PROVE  r[i] < r[j]
    <2>1. /\ i + 1 \in 1..Len(q) /\ j + 1 \in 1..Len(q) /\ i + 1 < j + 1
          /\ r[i] = q[i + 1] /\ r[j] = q[j + 1]
      BY <1>1, <1>6, SMTT(30)
    <2> QED
      BY <2>1, <1>6 DEF QueueHolds
  <1>7. ASSUME NEW k \in (t + 2)..a
        PROVE  \E i \in 1..Len(r) : r[i] = k
    <2>1. PICK i \in 1..Len(q) : q[i] = k
      BY DEF QueueHolds
    <2>2. i # 1 /\ i - 1 \in 1..Len(r)
      BY <2>1, <1>1, <1>3
    <2>3. r[i - 1] = k
      BY <2>1, <2>2, <1>1
    <2> QED
      BY <2>2, <2>3
  <1> QED
    BY <1>1, <1>3, <1>4, <1>5, <1>6, <1>7 DEF QueueHolds, r

\* Taking a pill from the front leaves the traces as they were.
LEMMA HoldsTailPill ==
    ASSUME NEW q \in Seq(Nat), NEW t \in Nat, NEW a \in Nat, QueueHolds(q, t, a),
           q # <<>>, Head(q) = None
    PROVE  QueueHolds(Tail(q), t, a)
  <1> DEFINE r == Tail(q)
  <1>1. /\ Len(q) \in Nat /\ Len(q) >= 1 /\ Len(r) = Len(q) - 1
        /\ q[1] = None
        /\ \A i \in 1..Len(r) : r[i] = q[i + 1] /\ i + 1 \in 1..Len(q)
    BY TailFacts
  <1> HIDE DEF r
  <1>2. \A i \in 1..Len(r) : r[i] # None => r[i] > t /\ r[i] <= a
    BY <1>1 DEF QueueHolds
  <1>3. ASSUME NEW i \in 1..Len(r), NEW j \in 1..Len(r), i < j, r[i] # None, r[j] # None
        PROVE  r[i] < r[j]
    <2>1. /\ i + 1 \in 1..Len(q) /\ j + 1 \in 1..Len(q) /\ i + 1 < j + 1
          /\ r[i] = q[i + 1] /\ r[j] = q[j + 1]
      BY <1>1, <1>3
    <2> QED
      BY <2>1, <1>3 DEF QueueHolds
  <1>4. ASSUME NEW k \in (t + 1)..a
        PROVE  \E i \in 1..Len(r) : r[i] = k
    <2>1. PICK i \in 1..Len(q) : q[i] = k
      BY DEF QueueHolds
    <2>2. i # 1 /\ i - 1 \in 1..Len(r)
      BY <2>1, <1>1 DEF None
    <2>3. r[i - 1] = k
      BY <2>1, <2>2, <1>1
    <2> QED
      BY <2>2, <2>3
  <1> QED
    BY <1>2, <1>3, <1>4 DEF QueueHolds, r

\* An empty queue means that every accepted trace was taken.
LEMMA HoldsEmpty ==
    ASSUME NEW t \in Nat, NEW a \in Nat, QueueHolds(<<>>, t, a)
    PROVE  t = a
  <1>1. t # a => t + 1 \in (t + 1)..a
    BY DEF QueueHolds
  <1> QED
    BY <1>1 DEF QueueHolds

\* Behind a pill at the front stand only late traces: the first s were taken.
LEMMA PillAtFront ==
    ASSUME NEW q \in Seq(Nat), NEW t \in Nat, NEW a \in Nat, NEW s \in Nat,
           QueueHolds(q, t, a), PillsBehind(q, s), s <= a,
           q # <<>>, Head(q) = None
    PROVE  t >= s
  <1> SUFFICES ASSUME t < s PROVE FALSE
    OBVIOUS
  <1>1. PICK i \in 1..Len(q) : q[i] = t + 1
    BY DEF QueueHolds
  <1>2. q[1] = None /\ Len(q) >= 1 /\ Len(q) \in Nat
    BY TailFacts
  <1>3. i > 1 /\ q[i] # None
    BY <1>1, <1>2 DEF None
  <1>4. q[i] > s
    BY <1>2, <1>3 DEF PillsBehind
  <1> QED
    BY <1>1, <1>4

\* The queue operations and the traces behind a pill.
LEMMA PillsBehindAppend ==
    ASSUME NEW q \in Seq(Nat), NEW e \in Nat, NEW s \in Nat, PillsBehind(q, s),
           e = None \/ e > s
    PROVE  PillsBehind(Append(q, e), s)
  BY AppendFacts DEF PillsBehind

\* Taking the head of a queue leaves no put behind a pill that was in front of
\* one.
LEMMA PillsBehindTail ==
    ASSUME NEW q \in Seq(Nat), NEW s \in Nat, PillsBehind(q, s), q # <<>>
    PROVE  PillsBehind(Tail(q), s)
  <1>1. /\ Len(q) \in Nat /\ Len(Tail(q)) = Len(q) - 1
        /\ \A i \in 1..(Len(q) - 1) : Tail(q)[i] = q[i + 1] /\ i + 1 \in 1..Len(q)
    BY TailFacts
  <1> QED
    BY <1>1 DEF PillsBehind

-----------------------------------------------------------------------------
(* The inductive invariant.                                                *)

\* The worker has taken traces off the queue that the inner exporter has not
\* been called with yet.
Gathering == wpc \in {"fill", "pillFill", "export"}
Taken == Len(called) + (IF Gathering THEN Len(batch) ELSE 0)

\* A batch is in the worker's hands exactly from its first trace to its last
\* task_done(), and holds at most BatchSize traces, or its first alone.
Empty == {"loop", "get", "pillFirst", "dead"}
BatchShape ==
    /\ wpc \in Empty => batch = <<>>
    /\ wpc \notin Empty => Len(batch) >= 1
    /\ Len(batch) <= BatchSize \/ Len(batch) <= 1

\* put_nowait() never lets the queue grow past its size.
QueueBound == MaxQueueSize > 0 => Len(queue) <= MaxQueueSize

\* The batch being gathered continues what was handed over.
BatchOrder == Gathering => \A i \in 1..Len(batch) : batch[i] = Len(called) + i

\* The queue holds, in order and apart from pills, the accepted traces that
\* were not taken.
QueueOrder == QueueHolds(queue, Taken, accepted)

\* Pills exist only after the shutdown; what follows one was accepted after
\* it; the worker that got one first has nothing older left to take.
PillOrder ==
    /\ sealed <= accepted
    /\ \A c \in Callers : cpc[c] \in {"pill", "wait", "innerShutdown"} => shutdown
    /\ \A i \in 1..Len(queue) : queue[i] = None => shutdown
    /\ wpc \in {"pillFirst", "pillFill", "dead"} => shutdown
    /\ PillsBehind(queue, sealed)
    /\ wpc \in {"pillFirst", "dead"} => Len(called) >= sealed

Marks == \A c \in Callers : mark[c] <= accepted

IndInv ==
    /\ TypeOK
    /\ UnfinishedExact /\ BatchShape /\ QueueBound
    /\ InOrderExactlyOnce /\ BatchOrder /\ QueueOrder
    /\ PillOrder
    /\ Marks /\ FlushWaits

\* The queue, the batch and the hand-over are empty at the start.
LEMMA InitIndInv == Init => IndInv
  <1> SUFFICES ASSUME Init PROVE IndInv
    OBVIOUS
  <1> USE DEF Init
  <1>1. TypeOK
    <2>1. queue \in Seq(Nat) /\ batch \in Seq(Nat) /\ called \in Seq(Nat)
      OBVIOUS
    <2>2. shutdown \in BOOLEAN /\ wpc \in WorkerPC
      BY DEF WorkerPC
    <2>3. /\ apc \in [AppThreads -> {"idle", "load", "store"}]
          /\ aload \in [AppThreads -> Nat]
      OBVIOUS
    <2>4. /\ cpc \in [Callers -> CallerPC] /\ op \in [Callers -> {"flush", "shutdown"}]
          /\ calls \in [Callers -> Nat] /\ mark \in [Callers -> Nat]
      BY DEF CallerPC
    <2> QED
      BY <2>1, <2>2, <2>3, <2>4 DEF TypeOK
  <1>2. UnfinishedExact /\ BatchShape /\ QueueBound
    BY ConstantsAssumption DEF UnfinishedExact, PillInHand, BatchShape, Empty, QueueBound
  <1>3. InOrderExactlyOnce /\ BatchOrder /\ QueueOrder
    BY DEF BatchOrder, InOrderExactlyOnce, QueueOrder, QueueHolds, Taken, Gathering
  <1>4. PillOrder
    BY DEF PillOrder, PillsBehind
  <1>5. Marks /\ FlushWaits
    BY DEF Marks, FlushWaits, PastJoin, CallerPC
  <1> QED
    BY <1>1, <1>2, <1>3, <1>4, <1>5 DEF IndInv

-----------------------------------------------------------------------------
(* Types.                                                                  *)

\* No step leaves the types; task_done() never takes the count below zero.
LEMMA TypeStep ==
    ASSUME TypeOK, UnfinishedExact, BatchShape, [Next]_vars
    PROVE  TypeOK'
  <1> USE DEF fields, worker, app, caller, history
  <1>0. Len(queue) \in Nat /\ Len(batch) \in Nat
    BY DEF TypeOK
  <1>b. BatchTraces \subseteq Nat
    BY DEF TypeOK, BatchTraces
  <1>1. ASSUME NEW a \in AppThreads, ExportPut(a) PROVE TypeOK'
    BY <1>1 DEF TypeOK, ExportPut
  <1>2. ASSUME NEW a \in AppThreads, ExportFull(a) PROVE TypeOK'
    BY <1>2 DEF TypeOK, ExportFull
  <1>3. ASSUME NEW a \in AppThreads, ExportLoad(a) PROVE TypeOK'
    BY <1>3 DEF TypeOK, ExportLoad
  <1>4. ASSUME NEW a \in AppThreads, ExportStore(a) PROVE TypeOK'
    BY <1>4 DEF TypeOK, ExportStore
  <1>5. CASE LoopCheck
    BY <1>5 DEF TypeOK, LoopCheck, WorkerPC
  <1>6. CASE GetTimeout
    BY <1>6 DEF TypeOK, GetTimeout, WorkerPC
  <1>7. CASE GetFirst
    <2>1. queue' \in Seq(Nat) /\ Head(queue) \in Nat
      BY <1>7, TailFacts DEF TypeOK, GetFirst
    <2>2. batch' \in Seq(Nat) /\ wpc' \in WorkerPC
      <3>1. <<Head(queue)>> \in Seq(Nat)
        BY <2>1 DEF TypeOK
      <3>2. CASE Head(queue) = None
        BY <1>7, <3>2 DEF TypeOK, GetFirst, WorkerPC
      <3>3. CASE Head(queue) # None
        BY <1>7, <3>1, <3>3 DEF GetFirst, WorkerPC
      <3> QED
        BY <3>2, <3>3
    <2> QED
      BY <1>7, <2>1, <2>2 DEF TypeOK, GetFirst
  <1>8. CASE FillNext
    <2>1. queue' \in Seq(Nat) /\ Head(queue) \in Nat
      BY <1>8, TailFacts DEF TypeOK, FillNext
    <2>2. batch' \in Seq(Nat) /\ wpc' \in WorkerPC
      <3>1. Append(batch, Head(queue)) \in Seq(Nat)
        BY <2>1 DEF TypeOK
      <3>2. CASE Head(queue) = None
        BY <1>8, <3>2 DEF TypeOK, FillNext, WorkerPC
      <3>3. CASE Head(queue) # None
        BY <1>8, <3>1, <3>3 DEF FillNext, WorkerPC
      <3> QED
        BY <3>2, <3>3
    <2> QED
      BY <1>8, <2>1, <2>2 DEF TypeOK, FillNext
  <1>9. CASE FillEnd
    BY <1>9 DEF TypeOK, FillEnd, WorkerPC
  <1>10. CASE PillDone
    BY <1>10, <1>0 DEF TypeOK, PillDone, WorkerPC, UnfinishedExact, PillInHand
  <1>11. CASE ExportReturns
    <2>1. called' \in Seq(Nat)
      BY <1>11, ConcatFacts DEF TypeOK, ExportReturns
    <2>2. returned' \subseteq Nat
      BY <1>11, <1>b DEF TypeOK, ExportReturns
    <2>3. wpc' \in WorkerPC
      BY <1>11 DEF ExportReturns, WorkerPC
    <2> QED
      BY <1>11, <2>1, <2>2, <2>3 DEF TypeOK, ExportReturns
  <1>12. CASE ExportRaises
    <2>1. called' \in Seq(Nat)
      BY <1>12, ConcatFacts DEF TypeOK, ExportRaises
    <2>2. returned' \subseteq Nat
      BY <1>12, <1>b DEF TypeOK, ExportRaises
    <2>3. wpc' \in WorkerPC
      BY <1>12 DEF ExportRaises, WorkerPC
    <2> QED
      BY <1>12, <2>1, <2>2, <2>3 DEF TypeOK, ExportRaises
  <1>13. CASE CountExported
    BY <1>13, <1>0 DEF TypeOK, CountExported, WorkerPC
  <1>14. CASE LoadDropped
    BY <1>14 DEF TypeOK, LoadDropped, WorkerPC
  <1>15. CASE StoreDropped
    BY <1>15, <1>0 DEF TypeOK, StoreDropped, WorkerPC
  <1>16. CASE TaskDone
    BY <1>16, <1>0 DEF TypeOK, TaskDone, WorkerPC, UnfinishedExact, PillInHand,
                       BatchShape, Empty
  <1>17. ASSUME NEW c \in Callers, Call(c) PROVE TypeOK'
    BY <1>17 DEF TypeOK, Call, CallerPC
  <1>18. ASSUME NEW c \in Callers, Join(c) PROVE TypeOK'
    BY <1>18 DEF TypeOK, Join, CallerPC
  <1>19. ASSUME NEW c \in Callers, InnerFlush(c) PROVE TypeOK'
    BY <1>19 DEF TypeOK, InnerFlush, CallerPC
  <1>20. ASSUME NEW c \in Callers, SetShutdown(c) PROVE TypeOK'
    BY <1>20 DEF TypeOK, SetShutdown, CallerPC
  <1>21. ASSUME NEW c \in Callers, PutPill(c) PROVE TypeOK'
    <2>1. queue' \in Seq(Nat) /\ unfinished' \in Nat
      <3>1. Append(queue, None) \in Seq(Nat)
        BY DEF TypeOK, None
      <3>2. CASE Full
        BY <1>21, <3>2 DEF TypeOK, PutPill
      <3>3. CASE ~Full
        <4>1. queue' = Append(queue, None) /\ unfinished' = unfinished + 1
          BY <1>21, <3>3 DEF PutPill
        <4> QED
          BY <4>1, <3>1 DEF TypeOK
      <3> QED
        BY <3>2, <3>3
    <2>2. cpc' \in [Callers -> CallerPC]
      BY <1>21 DEF TypeOK, PutPill, CallerPC
    <2> QED
      BY <1>21, <2>1, <2>2 DEF TypeOK, PutPill
  <1>22. ASSUME NEW c \in Callers, AwaitWorker(c) PROVE TypeOK'
    BY <1>22 DEF TypeOK, AwaitWorker, CallerPC
  <1>23. ASSUME NEW c \in Callers, InnerShutdown(c) PROVE TypeOK'
    BY <1>23 DEF TypeOK, InnerShutdown, CallerPC
  <1>24. CASE UNCHANGED vars
    BY <1>24 DEF TypeOK, vars
  <1> QED
    BY <1>1, <1>2, <1>3, <1>4, <1>5, <1>6, <1>7, <1>8, <1>9, <1>10, <1>11, <1>12,
       <1>13, <1>14, <1>15, <1>16, <1>17, <1>18, <1>19, <1>20, <1>21, <1>22, <1>23,
       <1>24
    DEF Next, AppNext, AppStep, WorkerNext, CallerStep

-----------------------------------------------------------------------------
(* The count of unfinished tasks and the batch.                            *)

\* queue.put adds one to the count of unfinished tasks and task_done takes one
\* away, for an item that is in the queue or in the worker's hands: the count
\* stays exact, and the batch is empty where the worker holds none.
LEMMA CountStep ==
    ASSUME TypeOK, UnfinishedExact, BatchShape, [Next]_vars
    PROVE  UnfinishedExact' /\ BatchShape'
  <1> USE DEF fields, worker, app, caller
  <1>a. /\ Len(queue) \in Nat /\ Len(batch) \in Nat /\ BatchSize \in Nat
        /\ unfinished \in Nat /\ queue \in Seq(Nat) /\ batch \in Seq(Nat)
    BY ConstantsAssumption DEF TypeOK
  \* The steps that touch neither the queue nor the worker.
  <1>b. ASSUME UNCHANGED <<queue, unfinished, wpc, batch>>
        PROVE  UnfinishedExact' /\ BatchShape'
    BY <1>b DEF UnfinishedExact, PillInHand, BatchShape
  <1>1. ASSUME NEW a \in AppThreads, ExportPut(a)
        PROVE  UnfinishedExact' /\ BatchShape'
    <2>1. /\ Len(queue') = Len(queue) + 1 /\ unfinished' = unfinished + 1
          /\ wpc' = wpc /\ batch' = batch
      BY <1>1, <1>a DEF ExportPut
    <2> QED
      BY <2>1, <1>a DEF UnfinishedExact, PillInHand, BatchShape
  <1>2. ASSUME NEW a \in AppThreads, ExportFull(a) \/ AppStep(a)
        PROVE  UnfinishedExact' /\ BatchShape'
    BY <1>2, <1>b DEF ExportFull, AppStep, ExportLoad, ExportStore
  <1>3. CASE LoopCheck \/ GetTimeout
    BY <1>3, <1>a DEF LoopCheck, GetTimeout, UnfinishedExact, PillInHand, BatchShape, Empty
  <1>4. CASE GetFirst
    <2>1. /\ wpc = "get" /\ batch = <<>> /\ Len(queue') = Len(queue) - 1
          /\ unfinished' = unfinished
      BY <1>4, <1>a, TailFacts DEF GetFirst, BatchShape, Empty
    <2>2. unfinished = Len(queue)
      BY <2>1, <1>a DEF UnfinishedExact, PillInHand
    <2>3. CASE Head(queue) = None
      <3>1. wpc' = "pillFirst" /\ batch' = <<>> /\ Len(batch') = 0
        BY <1>4, <2>1, <2>3 DEF GetFirst
      <3> QED
        BY <2>1, <2>2, <3>1, <1>a DEF UnfinishedExact, PillInHand, BatchShape, Empty
    <2>4. CASE Head(queue) # None
      <3>1. wpc' = "fill" /\ Len(batch') = 1
        BY <1>4, <2>4 DEF GetFirst
      <3> QED
        BY <2>1, <2>2, <3>1, <1>a DEF UnfinishedExact, PillInHand, BatchShape, Empty
    <2> QED
      BY <2>3, <2>4
  <1>5. CASE FillNext
    <2>1. /\ wpc = "fill" /\ Len(queue') = Len(queue) - 1 /\ Head(queue) \in Nat
          /\ unfinished' = unfinished /\ Len(batch) < BatchSize
      BY <1>5, <1>a, TailFacts DEF FillNext
    <2>2. unfinished = Len(queue) + Len(batch) /\ Len(batch) >= 1
      BY <2>1, <1>a DEF UnfinishedExact, PillInHand, BatchShape, Empty
    <2>3. CASE Head(queue) = None
      <3>1. wpc' = "pillFill" /\ batch' = batch
        BY <1>5, <2>3 DEF FillNext
      <3> QED
        BY <2>1, <2>2, <3>1, <1>a DEF UnfinishedExact, PillInHand, BatchShape, Empty
    <2>4. CASE Head(queue) # None
      <3>1. wpc' = "fill" /\ Len(batch') = Len(batch) + 1
        BY <1>5, <1>a, <2>1, <2>4 DEF FillNext
      <3> QED
        BY <2>1, <2>2, <3>1, <1>a DEF UnfinishedExact, PillInHand, BatchShape, Empty
    <2> QED
      BY <2>3, <2>4
  <1>6. CASE FillEnd \/ ExportReturns \/ ExportRaises \/ CountExported
             \/ LoadDropped \/ StoreDropped
    BY <1>6, <1>a DEF FillEnd, ExportReturns, ExportRaises, CountExported, LoadDropped,
       StoreDropped, UnfinishedExact, PillInHand, BatchShape, Empty
  <1>7. CASE PillDone
    BY <1>7, <1>a DEF PillDone, UnfinishedExact, PillInHand, BatchShape, Empty
  <1>8. CASE TaskDone
    <2>1. /\ wpc = "settle" /\ Len(batch) >= 1 /\ batch # <<>> /\ batch' = Tail(batch)
          /\ unfinished' = unfinished - 1 /\ queue' = queue
          /\ wpc' = IF Len(batch) = 1 THEN "loop" ELSE "settle"
      BY <1>8 DEF TaskDone, BatchShape, Empty
    <2>2. Len(batch') = Len(batch) - 1 /\ batch' \in Seq(Nat)
      BY <2>1, <1>a, TailFacts
    <2>3. UnfinishedExact'
      BY <2>1, <2>2, <1>a DEF UnfinishedExact, PillInHand
    <2>4. Len(batch) = 1 => batch' = <<>>
      BY <2>2
    <2>5. Len(batch') <= BatchSize \/ Len(batch') <= 1
      BY <2>2, <1>a, SMTT(30) DEF BatchShape
    <2>6. CASE Len(batch) = 1
      BY <2>1, <2>3, <2>4, <2>5, <2>6 DEF BatchShape, Empty
    <2>7. CASE Len(batch) # 1
      BY <2>1, <2>2, <2>3, <2>5, <2>7, <1>a DEF BatchShape, Empty
    <2> QED
      BY <2>6, <2>7
  <1>9. ASSUME NEW c \in Callers, PutPill(c)
        PROVE  UnfinishedExact' /\ BatchShape'
    <2>1. CASE Full
      BY <1>9, <2>1, <1>b DEF PutPill
    <2>2. CASE ~Full
      <3>1. queue' = Append(queue, None) /\ unfinished' = unfinished + 1
            /\ wpc' = wpc /\ batch' = batch
        BY <1>9, <2>2 DEF PutPill
      <3>2. Len(queue') = Len(queue) + 1
        BY <3>1, <1>a DEF None
      <3> QED
        BY <3>1, <3>2, <1>a DEF UnfinishedExact, PillInHand, BatchShape
    <2> QED
      BY <2>1, <2>2
  <1>10. ASSUME NEW c \in Callers,
                \/ Call(c) \/ Join(c) \/ InnerFlush(c) \/ SetShutdown(c)
                \/ AwaitWorker(c) \/ InnerShutdown(c)
         PROVE  UnfinishedExact' /\ BatchShape'
    BY <1>10, <1>b DEF Call, Join, InnerFlush, SetShutdown, AwaitWorker, InnerShutdown
  <1>11. CASE UNCHANGED vars
    BY <1>11, <1>b DEF vars
  <1> QED
    BY <1>1, <1>2, <1>3, <1>4, <1>5, <1>6, <1>7, <1>8, <1>9, <1>10, <1>11
    DEF Next, AppNext, WorkerNext, CallerStep

-----------------------------------------------------------------------------
(* The order of the queue, the batch and the hand-over.                    *)

Order == InOrderExactlyOnce /\ BatchOrder /\ QueueOrder

\* The worker takes from the head of the queue and hands its batch over as it
\* is: what was handed over, the batch and the queue stay the accepted puts, in
\* order.
LEMMA OrderStep ==
    ASSUME TypeOK, BatchShape, Order, [Next]_vars
    PROVE  Order'
  <1> USE DEF fields, worker, app, caller, history
  <1>a. /\ queue \in Seq(Nat) /\ batch \in Seq(Nat) /\ called \in Seq(Nat)
        /\ Len(batch) \in Nat /\ Len(called) \in Nat /\ accepted \in Nat
        /\ Taken \in Nat
    BY DEF TypeOK, Taken, Gathering
  \* The steps that touch neither the queue, the batch nor the hand-over.
  <1>b. ASSUME UNCHANGED <<queue, batch, called, accepted>>, Gathering' = Gathering
        PROVE  Order'
    BY <1>b DEF Order, InOrderExactlyOnce, BatchOrder, QueueOrder, Taken
  <1>1. ASSUME NEW a \in AppThreads, ExportPut(a)
        PROVE  Order'
    <2>1. /\ queue' = Append(queue, accepted + 1) /\ accepted' = accepted + 1
          /\ UNCHANGED <<batch, called, wpc>>
      BY <1>1 DEF ExportPut
    <2>2. Taken' = Taken /\ InOrderExactlyOnce' /\ BatchOrder'
      BY <2>1 DEF Taken, Gathering, Order, InOrderExactlyOnce, BatchOrder
    <2>3. QueueHolds(queue', Taken, accepted + 1)
      BY <2>1, <1>a, HoldsAppend DEF Order, QueueOrder
    <2> QED
      BY <2>1, <2>2, <2>3 DEF Order, QueueOrder
  <1>2. ASSUME NEW a \in AppThreads, ExportFull(a) \/ AppStep(a)
        PROVE  Order'
    BY <1>2, <1>b DEF ExportFull, AppStep, ExportLoad, ExportStore, Gathering
  <1>3. CASE LoopCheck \/ GetTimeout \/ FillEnd \/ PillDone \/ CountExported
             \/ LoadDropped \/ StoreDropped
    BY <1>3, <1>b DEF LoopCheck, GetTimeout, FillEnd, PillDone, CountExported,
       LoadDropped, StoreDropped, Gathering
  <1>4. CASE GetFirst
    <2>1. /\ wpc = "get" /\ queue # <<>> /\ queue' = Tail(queue) /\ Taken = Len(called)
          /\ UNCHANGED <<called, accepted>>
      BY <1>4 DEF GetFirst, Taken, Gathering
    <2>2. InOrderExactlyOnce'
      BY <2>1 DEF Order, InOrderExactlyOnce
    <2>3. CASE Head(queue) = None
      <3>1. wpc' = "pillFirst" /\ Taken' = Taken
        BY <1>4, <2>1, <2>3 DEF GetFirst, Taken, Gathering
      <3>2. QueueHolds(queue', Taken, accepted)
        BY <2>1, <2>3, <1>a, HoldsTailPill DEF Order, QueueOrder
      <3> QED
        BY <2>1, <2>2, <3>1, <3>2 DEF Order, QueueOrder, BatchOrder, Gathering
    <2>4. CASE Head(queue) # None
      <3>1. Head(queue) = Taken + 1 /\ QueueHolds(queue', Taken + 1, accepted)
        BY <2>1, <2>4, <1>a, HoldsTail DEF Order, QueueOrder
      <3>2. wpc' = "fill" /\ batch' = <<Head(queue)>>
        BY <1>4, <2>4 DEF GetFirst
      <3>3. Len(batch') = 1 /\ batch'[1] = Taken + 1
        BY <3>1, <3>2
      <3>4. Taken' = Taken + 1
        BY <2>1, <3>2, <3>3, <1>a DEF Taken, Gathering
      <3>5. BatchOrder'
        BY <2>1, <3>3, <1>a DEF BatchOrder
      <3> QED
        BY <2>1, <2>2, <3>1, <3>4, <3>5 DEF Order, QueueOrder
    <2> QED
      BY <2>3, <2>4
  <1>5. CASE FillNext
    <2>1. /\ wpc = "fill" /\ queue # <<>> /\ queue' = Tail(queue)
          /\ Taken = Len(called) + Len(batch) /\ UNCHANGED <<called, accepted>>
          /\ Gathering /\ Head(queue) \in Nat
      BY <1>5, <1>a, TailFacts DEF FillNext, Taken, Gathering
    <2>2. InOrderExactlyOnce'
      BY <2>1 DEF Order, InOrderExactlyOnce
    <2>3. CASE Head(queue) = None
      <3>1. wpc' = "pillFill" /\ batch' = batch
        BY <1>5, <2>3 DEF FillNext
      <3>2. Taken' = Taken /\ BatchOrder'
        BY <2>1, <3>1 DEF Taken, Gathering, Order, BatchOrder
      <3>3. QueueHolds(queue', Taken, accepted)
        BY <2>1, <2>3, <1>a, HoldsTailPill DEF Order, QueueOrder
      <3> QED
        BY <2>1, <2>2, <3>2, <3>3 DEF Order, QueueOrder
    <2>4. CASE Head(queue) # None
      <3>1. Head(queue) = Taken + 1 /\ QueueHolds(queue', Taken + 1, accepted)
        BY <2>1, <2>4, <1>a, HoldsTail DEF Order, QueueOrder
      <3>2. wpc' = "fill" /\ batch' = Append(batch, Head(queue))
        BY <1>5, <2>4 DEF FillNext
      <3>3. /\ Len(batch') = Len(batch) + 1
            /\ \A i \in 1..Len(batch) : batch'[i] = batch[i]
            /\ batch'[Len(batch) + 1] = Taken + 1
        BY <2>1, <3>1, <3>2, <1>a, AppendFacts
      <3>4. Taken' = Taken + 1
        BY <2>1, <3>2, <3>3, <1>a DEF Taken, Gathering
      <3>5. BatchOrder'
        <4>1. ASSUME NEW i \in 1..Len(batch') PROVE batch'[i] = Len(called) + i
          <5>1. CASE i \in 1..Len(batch)
            BY <5>1, <2>1, <3>3 DEF Order, BatchOrder
          <5>2. CASE i = Len(batch) + 1
            BY <5>2, <2>1, <3>3, <1>a
          <5> QED
            BY <5>1, <5>2, <3>3, <1>a
        <4> QED
          BY <4>1, <2>1 DEF BatchOrder
      <3> QED
        BY <2>1, <2>2, <3>1, <3>4, <3>5 DEF Order, QueueOrder
    <2> QED
      BY <2>3, <2>4
  <1>6. CASE ExportReturns \/ ExportRaises
    <2>1. /\ wpc = "export" /\ called' = called \o batch /\ ~Gathering' /\ Gathering
          /\ UNCHANGED <<queue, batch, accepted>>
      BY <1>6 DEF ExportReturns, ExportRaises, Gathering
    <2>2. /\ Len(called') = Len(called) + Len(batch) /\ called' \in Seq(Nat)
          /\ \A i \in 1..Len(called) : called'[i] = called[i]
          /\ \A i \in 1..Len(batch) : called'[Len(called) + i] = batch[i]
      BY <2>1, <1>a, ConcatFacts
    <2>3. Taken' = Taken
      BY <2>1, <2>2 DEF Taken
    <2>4. ASSUME NEW i \in DOMAIN called'
          PROVE  called'[i] = i
      <3>1. i \in 1..(Len(called) + Len(batch))
        BY <2>2
      <3>2. CASE i \in 1..Len(called)
        <4>1. DOMAIN called = 1..Len(called)
          BY <1>a
        <4> QED
          BY <4>1, <3>2, <2>2 DEF Order, InOrderExactlyOnce
      <3>3. CASE i \notin 1..Len(called)
        <4>1. i - Len(called) \in 1..Len(batch)
          BY <3>1, <3>3, <1>a
        <4>2. called'[i] = batch[i - Len(called)]
          BY <4>1, <2>2, <3>1, <1>a
        <4> QED
          BY <4>1, <4>2, <2>1, <3>1, <1>a DEF Order, BatchOrder
      <3> QED
        BY <3>2, <3>3
    <2> QED
      BY <2>1, <2>3, <2>4 DEF Order, InOrderExactlyOnce, BatchOrder, QueueOrder
  <1>7. CASE TaskDone
    <2>1. /\ ~Gathering /\ ~Gathering' /\ UNCHANGED <<queue, called, accepted>>
      BY <1>7 DEF TaskDone, Gathering
    <2> QED
      BY <2>1 DEF Order, InOrderExactlyOnce, BatchOrder, QueueOrder, Taken
  <1>8. ASSUME NEW c \in Callers, PutPill(c)
        PROVE  Order'
    <2>1. CASE Full
      BY <1>8, <2>1, <1>b DEF PutPill, Gathering
    <2>2. CASE ~Full
      <3>1. queue' = Append(queue, None) /\ UNCHANGED <<batch, called, accepted, wpc>>
        BY <1>8, <2>2 DEF PutPill
      <3>2. QueueHolds(queue', Taken, accepted)
        BY <3>1, <1>a, HoldsAppendPill DEF Order, QueueOrder
      <3> QED
        BY <3>1, <3>2 DEF Order, InOrderExactlyOnce, BatchOrder, QueueOrder, Taken, Gathering
    <2> QED
      BY <2>1, <2>2
  <1>9. ASSUME NEW c \in Callers,
               \/ Call(c) \/ Join(c) \/ InnerFlush(c) \/ SetShutdown(c)
               \/ AwaitWorker(c) \/ InnerShutdown(c)
        PROVE  Order'
    BY <1>9, <1>b DEF Call, Join, InnerFlush, SetShutdown, AwaitWorker, InnerShutdown,
       Gathering
  <1>10. CASE UNCHANGED vars
    BY <1>10, <1>b DEF vars, Gathering
  <1> QED
    BY <1>1, <1>2, <1>3, <1>4, <1>5, <1>6, <1>7, <1>8, <1>9, <1>10
    DEF Next, AppNext, WorkerNext, CallerStep

-----------------------------------------------------------------------------
(* Pills and the shutdown.                                                 *)

\* A pill is put by a shutdown, behind the puts accepted so far, so no accepted
\* put comes to stand behind the sealed one.
LEMMA PillStep ==
    ASSUME TypeOK, BatchShape, QueueOrder, PillOrder, [Next]_vars
    PROVE  PillOrder'
  <1> USE DEF fields, worker, app, caller, history
  <1>a. /\ queue \in Seq(Nat) /\ called \in Seq(Nat) /\ Len(queue) \in Nat
        /\ Len(called) \in Nat /\ accepted \in Nat /\ sealed \in Nat
        /\ Taken \in Nat
    BY DEF TypeOK, Taken, Gathering
  \* The steps that leave the queue, the shutdown and the worker's end alone.
  <1>b. ASSUME UNCHANGED <<queue, shutdown, sealed, accepted>>,
               wpc' = wpc \/ wpc' \notin {"pillFirst", "pillFill", "dead"},
               called' = called,
               \A c \in Callers : cpc'[c] \in {"pill", "wait", "innerShutdown"} => shutdown
        PROVE  PillOrder'
    BY <1>b DEF PillOrder
  <1>c. \A c \in Callers : cpc[c] \in {"pill", "wait", "innerShutdown"} => shutdown
    BY DEF PillOrder
  <1>1. ASSUME NEW a \in AppThreads, ExportPut(a)
        PROVE  PillOrder'
    <2>1. /\ queue' = Append(queue, accepted + 1) /\ accepted' = accepted + 1
          /\ UNCHANGED <<shutdown, sealed, wpc, called, cpc>>
      BY <1>1 DEF ExportPut
    <2>2. PillsBehind(queue', sealed)
      BY <2>1, <1>a, PillsBehindAppend DEF PillOrder
    <2>3. \A i \in 1..Len(queue') : queue'[i] = None => i \in 1..Len(queue) /\ queue[i] = None
      BY <2>1, <1>a, AppendFacts DEF None
    <2> QED
      BY <2>1, <2>2, <2>3, <1>a DEF PillOrder
  <1>2. ASSUME NEW a \in AppThreads, ExportFull(a) \/ AppStep(a)
        PROVE  PillOrder'
    BY <1>2, <1>b, <1>c DEF ExportFull, AppStep, ExportLoad, ExportStore
  <1>3. CASE GetTimeout \/ FillEnd \/ CountExported \/ LoadDropped \/ StoreDropped
             \/ TaskDone
    BY <1>3, <1>b, <1>c DEF GetTimeout, FillEnd, CountExported, LoadDropped, StoreDropped,
       TaskDone
  <1>4. CASE LoopCheck
    <2>1. CASE wpc' = "get"
      BY <1>4, <2>1, <1>b, <1>c DEF LoopCheck
    <2>2. CASE wpc' # "get"
      <3>1. /\ queue = <<>> /\ shutdown /\ wpc = "loop" /\ Taken = Len(called)
            /\ UNCHANGED <<queue, shutdown, sealed, accepted, called, cpc>>
        BY <1>4, <2>2 DEF LoopCheck, Taken, Gathering
      <3>2. Taken = accepted
        BY <3>1, <1>a, HoldsEmpty DEF QueueOrder
      <3> QED
        BY <3>1, <3>2 DEF PillOrder
    <2> QED
      BY <2>1, <2>2
  <1>5. CASE GetFirst
    <2>1. /\ wpc = "get" /\ queue # <<>> /\ queue' = Tail(queue) /\ Taken = Len(called)
          /\ UNCHANGED <<shutdown, sealed, accepted, called, cpc>>
      BY <1>5 DEF GetFirst, Taken, Gathering
    <2>2. PillsBehind(queue', sealed)
      BY <2>1, <1>a, PillsBehindTail DEF PillOrder
    <2>3. \A i \in 1..Len(queue') : queue'[i] = queue[i + 1] /\ i + 1 \in 1..Len(queue)
      BY <2>1, <1>a, TailFacts
    <2>4. CASE Head(queue) = None
      <3>1. wpc' = "pillFirst"
        BY <1>5, <2>4 DEF GetFirst
      <3>2. queue[1] = None /\ 1 \in 1..Len(queue)
        BY <2>1, <2>4, <1>a, TailFacts
      <3>3. shutdown
        BY <3>2 DEF PillOrder
      <3>4. Len(called) >= sealed
        BY <2>1, <2>4, <1>a, PillAtFront DEF PillOrder, QueueOrder
      <3> QED
        BY <2>1, <2>2, <2>3, <3>1, <3>3, <3>4 DEF PillOrder
    <2>5. CASE Head(queue) # None
      <3>1. wpc' = "fill"
        BY <1>5, <2>5 DEF GetFirst
      <3> QED
        BY <2>1, <2>2, <2>3, <3>1 DEF PillOrder
    <2> QED
      BY <2>4, <2>5
  <1>6. CASE FillNext
    <2>1. /\ wpc = "fill" /\ queue # <<>> /\ queue' = Tail(queue)
          /\ UNCHANGED <<shutdown, sealed, accepted, called, cpc>>
      BY <1>6 DEF FillNext
    <2>2. PillsBehind(queue', sealed)
      BY <2>1, <1>a, PillsBehindTail DEF PillOrder
    <2>3. \A i \in 1..Len(queue') : queue'[i] = queue[i + 1] /\ i + 1 \in 1..Len(queue)
      BY <2>1, <1>a, TailFacts
    <2>4. CASE Head(queue) = None
      <3>1. wpc' = "pillFill"
        BY <1>6, <2>4 DEF FillNext
      <3>2. queue[1] = None /\ 1 \in 1..Len(queue)
        BY <2>1, <2>4, <1>a, TailFacts
      <3>3. shutdown
        BY <3>2 DEF PillOrder
      <3> QED
        BY <2>1, <2>2, <2>3, <3>1, <3>3 DEF PillOrder
    <2>5. CASE Head(queue) # None
      <3>1. wpc' = "fill"
        BY <1>6, <2>5 DEF FillNext
      <3> QED
        BY <2>1, <2>2, <2>3, <3>1 DEF PillOrder
    <2> QED
      BY <2>4, <2>5
  <1>7. CASE PillDone
    <2>1. UNCHANGED <<queue, shutdown, sealed, accepted, called, cpc>>
      BY <1>7 DEF PillDone
    <2>2. CASE wpc = "pillFirst"
      BY <1>7, <2>1, <2>2 DEF PillDone, PillOrder
    <2>3. CASE wpc = "pillFill"
      <3>1. wpc' = "export"
        BY <1>7, <2>3 DEF PillDone
      <3> QED
        BY <2>1, <3>1 DEF PillOrder
    <2> QED
      BY <1>7, <2>2, <2>3 DEF PillDone
  <1>8. CASE ExportReturns \/ ExportRaises
    <2>1. /\ wpc' \in {"count", "load"}
          /\ UNCHANGED <<queue, shutdown, sealed, accepted, cpc>>
      BY <1>8 DEF ExportReturns, ExportRaises
    <2> QED
      BY <2>1 DEF PillOrder
  <1>9. ASSUME NEW c \in Callers, PutPill(c)
        PROVE  PillOrder'
    <2>1. /\ UNCHANGED <<shutdown, sealed, accepted, called, wpc>> /\ shutdown
          /\ \A d \in Callers : cpc'[d] \in {"pill", "wait", "innerShutdown"} => shutdown
      BY <1>9 DEF PutPill, PillOrder
    <2>2. CASE Full
      BY <1>9, <2>1, <2>2, <1>b DEF PutPill
    <2>3. CASE ~Full
      <3>1. queue' = Append(queue, None)
        BY <1>9, <2>3 DEF PutPill
      <3>2. PillsBehind(queue', sealed)
        BY <3>1, <1>a, PillsBehindAppend DEF PillOrder, None
      <3> QED
        BY <2>1, <3>2 DEF PillOrder
    <2> QED
      BY <2>2, <2>3
  <1>10. ASSUME NEW c \in Callers, SetShutdown(c)
         PROVE  PillOrder'
    <2>1. /\ UNCHANGED <<queue, accepted, called, wpc>> /\ shutdown'
          /\ sealed' = IF shutdown THEN sealed ELSE accepted
      BY <1>10 DEF SetShutdown
    <2>2. CASE shutdown
      BY <2>1, <2>2 DEF PillOrder
    <2>3. CASE ~shutdown
      <3>1. /\ \A i \in 1..Len(queue) : queue[i] # None
            /\ wpc \notin {"pillFirst", "pillFill", "dead"}
        BY <2>3 DEF PillOrder
      <3>2. PillsBehind(queue', sealed')
        BY <3>1, <2>1 DEF PillsBehind
      <3> QED
        BY <2>1, <2>3, <3>1, <3>2, <1>a DEF PillOrder
    <2> QED
      BY <2>2, <2>3
  <1>11. ASSUME NEW c \in Callers,
                Call(c) \/ Join(c) \/ InnerFlush(c) \/ AwaitWorker(c) \/ InnerShutdown(c)
         PROVE  PillOrder'
    <2>1. \A d \in Callers : cpc'[d] \in {"pill", "wait", "innerShutdown"} => shutdown
      BY <1>11, <1>c DEF TypeOK, Call, Join, InnerFlush, AwaitWorker, InnerShutdown
    <2> QED
      BY <1>11, <2>1, <1>b DEF Call, Join, InnerFlush, AwaitWorker, InnerShutdown
  <1>12. CASE UNCHANGED vars
    BY <1>12, <1>b, <1>c DEF vars
  <1> QED
    BY <1>1, <1>2, <1>3, <1>4, <1>5, <1>6, <1>7, <1>8, <1>9, <1>10, <1>11, <1>12
    DEF Next, AppNext, WorkerNext, CallerStep

-----------------------------------------------------------------------------
(* What a caller that got past its wait may rely on.                       *)

\* Every put, of a trace or of a pill, waits for room: the queue keeps its
\* maximum.
LEMMA BoundStep ==
    ASSUME TypeOK, QueueBound, [Next]_vars
    PROVE  QueueBound'
  <1> USE DEF fields, worker, app, caller, history
  <1>a. Len(queue) \in Nat /\ MaxQueueSize \in Nat /\ queue \in Seq(Nat) /\ accepted \in Nat
    BY ConstantsAssumption DEF TypeOK
  <1>1. ASSUME NEW a \in AppThreads, ExportPut(a)
        PROVE  QueueBound'
    <2>1. ~Full /\ Len(queue') = Len(queue) + 1
      BY <1>1, <1>a, AppendFacts DEF ExportPut
    <2> QED
      BY <2>1, <1>a DEF QueueBound, Full
  <1>2. ASSUME NEW c \in Callers, PutPill(c)
        PROVE  QueueBound'
    <2>1. CASE Full
      BY <1>2, <2>1 DEF PutPill, QueueBound
    <2>2. CASE ~Full
      <3>1. queue' = Append(queue, None)
        BY <1>2, <2>2 DEF PutPill
      <3>2. Len(queue') = Len(queue) + 1
        BY <3>1, <1>a DEF None
      <3> QED
        BY <3>2, <2>2, <1>a DEF QueueBound, Full
    <2> QED
      BY <2>1, <2>2
  <1>3. CASE GetFirst \/ FillNext
    <2>1. Len(queue') = Len(queue) - 1
      BY <1>3, <1>a, TailFacts DEF GetFirst, FillNext
    <2> QED
      BY <2>1, <1>a DEF QueueBound
  <1>4. CASE UNCHANGED queue
    BY <1>4 DEF QueueBound
  <1>5. CASE WorkerNext /\ ~(GetFirst \/ FillNext)
    BY <1>5, <1>4 DEF WorkerNext, LoopCheck, GetTimeout, FillEnd, PillDone, ExportReturns,
       ExportRaises, CountExported, LoadDropped, StoreDropped, TaskDone
  <1>6. ASSUME NEW a \in AppThreads, ExportFull(a) \/ AppStep(a)
        PROVE  QueueBound'
    BY <1>6, <1>4 DEF ExportFull, AppStep, ExportLoad, ExportStore
  <1>7. ASSUME NEW c \in Callers,
               \/ Call(c) \/ Join(c) \/ InnerFlush(c) \/ SetShutdown(c)
               \/ AwaitWorker(c) \/ InnerShutdown(c)
        PROVE  QueueBound'
    BY <1>7, <1>4 DEF Call, Join, InnerFlush, SetShutdown, AwaitWorker, InnerShutdown
  <1> QED
    BY <1>1, <1>2, <1>3, <1>4, <1>5, <1>6, <1>7 DEF Next, AppNext, CallerStep, vars

\* With no unfinished task, nothing is queued or in the worker's hands, so
\* every accepted trace was handed over.
LEMMA NothingUnfinished ==
    ASSUME TypeOK, UnfinishedExact, BatchShape, QueueOrder, unfinished = 0
    PROVE  Len(called) = accepted
  <1>1. queue = <<>> /\ Len(batch) = 0 /\ batch \in Seq(Nat)
    BY DEF TypeOK, UnfinishedExact, PillInHand
  <1>2. Taken = Len(called) /\ Taken \in Nat /\ accepted \in Nat
    BY <1>1 DEF TypeOK, Taken
  <1> QED
    BY <1>1, <1>2, HoldsEmpty DEF QueueOrder

\* What a caller of flush remembers of the queue is never more than what was
\* accepted, and once its wait is over all of it was handed over.
LEMMA MarkStep ==
    ASSUME TypeOK, UnfinishedExact, BatchShape, QueueOrder, Marks, FlushWaits,
           [Next]_vars
    PROVE  Marks' /\ FlushWaits'
  <1> USE DEF fields, worker, app, caller, history
  <1>a. /\ Len(called) \in Nat /\ Len(batch) \in Nat /\ accepted \in Nat
        /\ called \in Seq(Nat) /\ batch \in Seq(Nat)
        /\ \A c \in Callers : mark[c] \in Nat
    BY DEF TypeOK
  \* The steps of the other threads: both counts may only grow.
  <1>b. ASSUME UNCHANGED <<mark, cpc>>, accepted' \in Nat, Len(called') \in Nat,
               accepted' >= accepted, Len(called') >= Len(called)
        PROVE  Marks' /\ FlushWaits'
    BY <1>a, <1>b DEF Marks, FlushWaits
  <1>1. ASSUME NEW a \in AppThreads, AppNext(a)
        PROVE  Marks' /\ FlushWaits'
    BY <1>1, <1>a, <1>b DEF AppNext, AppStep, ExportPut, ExportFull, ExportLoad, ExportStore
  <1>2. CASE ExportReturns \/ ExportRaises
    <2>1. called' = called \o batch /\ UNCHANGED <<mark, cpc, accepted>>
      BY <1>2 DEF ExportReturns, ExportRaises
    <2>2. Len(called') = Len(called) + Len(batch)
      BY <2>1, <1>a, ConcatFacts
    <2> QED
      BY <2>1, <2>2, <1>a, <1>b
  <1>3. CASE WorkerNext /\ ~(ExportReturns \/ ExportRaises)
    BY <1>3, <1>a, <1>b DEF WorkerNext, LoopCheck, GetTimeout, GetFirst, FillNext, FillEnd,
       PillDone, CountExported, LoadDropped, StoreDropped, TaskDone
  <1>4. ASSUME NEW c \in Callers, Call(c)
        PROVE  Marks' /\ FlushWaits'
    <2>1. /\ UNCHANGED <<accepted, called>>
          /\ mark' = [mark EXCEPT ![c] = accepted]
          /\ cpc' = [cpc EXCEPT ![c] = "join"]
      BY <1>4 DEF Call
    <2> QED
      BY <2>1, <1>a DEF TypeOK, Marks, FlushWaits, PastJoin, CallerPC
  <1>5. ASSUME NEW c \in Callers, Join(c)
        PROVE  Marks' /\ FlushWaits'
    <2>1. UNCHANGED <<accepted, called, mark>> /\ unfinished = 0
          /\ cpc' = [cpc EXCEPT ![c] = "innerFlush"]
      BY <1>5 DEF Join
    <2>2. Len(called) = accepted
      BY <2>1, NothingUnfinished
    <2> QED
      BY <2>1, <2>2, <1>a DEF TypeOK, Marks, FlushWaits
  <1>6. ASSUME NEW c \in Callers,
               \/ InnerFlush(c) \/ SetShutdown(c) \/ PutPill(c)
               \/ AwaitWorker(c) \/ InnerShutdown(c)
        PROVE  Marks' /\ FlushWaits'
    <2>1. UNCHANGED <<accepted, called, mark>> /\ cpc[c] \in PastJoin
      BY <1>6 DEF InnerFlush, SetShutdown, PutPill, AwaitWorker, InnerShutdown,
         PastJoin, CallerPC
    <2>2. \A d \in Callers : d # c => cpc'[d] = cpc[d]
      BY <1>6 DEF InnerFlush, SetShutdown, PutPill, AwaitWorker, InnerShutdown, TypeOK
    <2> QED
      BY <2>1, <2>2, <1>a DEF Marks, FlushWaits
  <1>7. CASE UNCHANGED vars
    BY <1>7, <1>a, <1>b DEF vars
  <1> QED
    BY <1>1, <1>2, <1>3, <1>4, <1>5, <1>6, <1>7 DEF Next, CallerStep

-----------------------------------------------------------------------------
(* The theorems.                                                           *)

\* IndInv holds in every reachable state, for any threads, queue and batch
\* size.
THEOREM Invariance == Spec => []IndInv
  <1>1. Init => IndInv
    BY InitIndInv
  <1>2. IndInv /\ [Next]_vars => IndInv'
    BY TypeStep, CountStep, BoundStep, OrderStep, PillStep, MarkStep DEF IndInv, Order
  <1> QED
    BY <1>1, <1>2, PTL DEF Spec

\* The fields and program counters hold only what the code can put in them,
\* and task_done() is never called once too often.
THEOREM TypeCorrect == Spec => []TypeOK
  BY Invariance, PTL DEF IndInv

\* unfinished_tasks is exact on every path through the worker.
THEOREM UnfinishedIsExact == Spec => []UnfinishedExact
  BY Invariance, PTL DEF IndInv

\* The hand-over to the inner exporter keeps the order of acceptance and
\* repeats nothing.
THEOREM HandOverInOrder == Spec => []InOrderExactlyOnce
  BY Invariance, PTL DEF IndInv

\* flush() and shutdown() wait for everything accepted before the call.
THEOREM FlushIsComplete == Spec => []FlushWaits
  BY Invariance, PTL DEF IndInv

\* The worker ends with everything handed over that was accepted before the
\* shutdown event was set.
THEOREM ExitIsDrained == Spec => []ExitDrains
  <1>1. IndInv => ExitDrains
    BY DEF IndInv, PillOrder, ExitDrains
  <1> QED
    BY Invariance, <1>1, PTL

-----------------------------------------------------------------------------
(* The bound on the traces held in memory.                                 *)

\* A sequence of length n has n positions.
LEMMA PositionsCount ==
    ASSUME NEW n \in Nat
    PROVE  IsFiniteSet(1..n) /\ Cardinality(1..n) = n
  <1>1. CASE n = 0
    BY <1>1, FS_Interval
  <1>2. CASE n # 0
    BY <1>2, FS_Interval
  <1> QED
    BY <1>1, <1>2

\* A queue that holds the traces t+1..a has a place for each of them.
LEMMA HoldsLength ==
    ASSUME NEW q \in Seq(Nat), NEW t \in Nat, NEW a \in Nat, QueueHolds(q, t, a)
    PROVE  a - t <= Len(q)
  <1> DEFINE K == (t + 1)..a
             P == 1..Len(q)
             f == [k \in K |-> CHOOSE i \in P : q[i] = k]
  <1>1. t <= a /\ Len(q) \in Nat
    BY DEF QueueHolds
  <1>2. \A k \in K : f[k] \in P /\ q[f[k]] = k
    BY DEF QueueHolds
  <1>3. f \in Injection(K, P)
    <2>1. f \in [K -> P]
      BY <1>2
    <2>2. \A k, l \in K : f[k] = f[l] => k = l
      BY <1>2
    <2> HIDE DEF f, K, P
    <2> QED
      BY <2>1, <2>2 DEF Injection, IsInjective
  <1>4. IsFiniteSet(K) /\ Cardinality(K) = a - t
    <2>1. CASE t = a
      BY <2>1, <1>1, FS_Interval
    <2>2. CASE t # a
      BY <2>2, <1>1, FS_Interval
    <2> QED
      BY <2>1, <2>2
  <1>5. IsFiniteSet(P) /\ Cardinality(P) = Len(q)
    BY <1>1, PositionsCount
  <1>6. Cardinality(K) <= Cardinality(P)
    <2> HIDE DEF K, P, f
    <2> QED
      BY <1>3, <1>5, FS_Injection DEF ExistsInjection
  <1> QED
    BY <1>4, <1>5, <1>6

\* Not more is held than the queue and one batch.
LEMMA InvHeldBounded == IndInv => HeldBounded
  <1> SUFFICES ASSUME IndInv, Capacity > 0 PROVE Held <= Capacity
    BY DEF HeldBounded
  <1>1. /\ queue \in Seq(Nat) /\ Len(queue) \in Nat /\ Len(batch) \in Nat
        /\ Len(called) \in Nat /\ accepted \in Nat /\ Taken \in Nat
        /\ MaxQueueSize \in Nat /\ BatchSize \in Nat
    BY ConstantsAssumption DEF IndInv, TypeOK, Taken, Gathering
  <1>2. accepted - Taken <= Len(queue)
    BY <1>1, HoldsLength DEF IndInv, QueueOrder
  <1>3. Taken <= Len(called) + Len(batch)
    BY <1>1 DEF Taken
  <1>4. Len(batch) <= (IF BatchSize = 0 THEN 1 ELSE BatchSize)
    BY <1>1 DEF IndInv, BatchShape
  <1>5. MaxQueueSize # 0 /\ Len(queue) <= MaxQueueSize
    BY <1>1 DEF IndInv, QueueBound, Capacity
  <1> QED
    BY <1>1, <1>2, <1>3, <1>4, <1>5 DEF Held, Capacity

\* Traces held in memory never exceed the queue and one batch.
THEOREM MemoryIsBounded == Spec => []HeldBounded
  BY Invariance, InvHeldBounded, PTL

-----------------------------------------------------------------------------
(* The telemetry counters.                                                 *)

\* The traces of a call that raised, which droppedCount does not speak of
\* yet, ...
Pending == IF wpc \in {"load", "store"} THEN Len(batch) ELSE 0

\* ... the threads whose refused trace is not counted yet, ...
Busy == {a \in AppThreads : apc[a] # "idle"}

\* ... and what it may say at most.
Settled == (Raised - Pending) + (rejected - Cardinality(Busy))

\* A counter that a thread loaded and will store is held to that too: what
\* other threads do in between only raises what may be said.
Counters ==
    /\ returned \subseteq 1..Len(called) /\ IsFiniteSet(Busy)
    /\ exportedCount + (IF wpc = "count" THEN Len(batch) ELSE 0) <= Cardinality(returned)
    /\ droppedCount <= Settled
    /\ \A a \in AppThreads : apc[a] = "store" => aload[a] <= Settled
    /\ wpc = "store" => wload <= Settled

\* The counts are numbers.
LEMMA CountTypes ==
    ASSUME IndInv, Counters
    PROVE  /\ Len(called) \in Nat /\ Len(batch) \in Nat /\ rejected \in Nat /\ Pending \in Nat
           /\ Cardinality(Busy) \in Nat /\ exportedCount \in Nat /\ droppedCount \in Nat
           /\ wload \in Nat /\ \A a \in AppThreads : aload[a] \in Nat
           /\ apc \in [AppThreads -> {"idle", "load", "store"}]
           /\ Settled \in Int
           /\ Raised \in Int
           /\ IsFiniteSet(returned) /\ Cardinality(returned) \in Nat
  <1>1. /\ Len(called) \in Nat /\ Len(batch) \in Nat /\ rejected \in Nat /\ Pending \in Nat
        /\ exportedCount \in Nat /\ droppedCount \in Nat
        /\ wload \in Nat /\ \A a \in AppThreads : aload[a] \in Nat
        /\ apc \in [AppThreads -> {"idle", "load", "store"}]
    BY DEF IndInv, TypeOK, Pending
  <1>2. Cardinality(Busy) \in Nat
    BY FS_CardinalityType DEF Counters
  <1>3. IsFiniteSet(returned) /\ Cardinality(returned) \in Nat
    BY <1>1, PositionsCount, FS_Subset, FS_CardinalityType DEF Counters
  <1> QED
    BY <1>1, <1>2, <1>3 DEF Settled, Raised

\* What the inner exporter's call makes of a batch: its traces are new, and
\* as many as the batch is long.
LEMMA BatchIsNew ==
    ASSUME IndInv, wpc = "export", returned \subseteq 1..Len(called)
    PROVE  /\ BatchTraces = (Len(called) + 1)..(Len(called) + Len(batch))
           /\ Cardinality(returned \cup BatchTraces) = Cardinality(returned) + Len(batch)
           /\ Len(called \o batch) = Len(called) + Len(batch)
  <1> DEFINE n == Len(called)
             m == Len(batch)
  <1>1. n \in Nat /\ m \in Nat /\ called \in Seq(Nat) /\ batch \in Seq(Nat) /\ DOMAIN batch = 1..m
    BY DEF IndInv, TypeOK
  <1>2. \A i \in 1..m : batch[i] = n + i
    BY DEF IndInv, BatchOrder, Gathering
  <1>3. Len(called \o batch) = n + m
    BY <1>1, ConcatFacts
  <1> HIDE DEF n, m
  <1>4. BatchTraces = (n + 1)..(n + m)
    <2>1. \A k \in (n + 1)..(n + m) : k - n \in 1..m /\ k = n + (k - n)
      BY <1>1
    <2>2. \A i \in 1..m : n + i \in (n + 1)..(n + m)
      BY <1>1
    <2>3. BatchTraces = {batch[i] : i \in 1..m}
      BY <1>1 DEF BatchTraces
    <2>4. BatchTraces \subseteq (n + 1)..(n + m)
      BY <1>2, <2>2, <2>3
    <2>5. ASSUME NEW k \in (n + 1)..(n + m)
          PROVE  k \in BatchTraces
      <3>1. k - n \in 1..m /\ batch[k - n] = k
        BY <1>2, <2>1
      <3> QED
        BY <2>3, <3>1
    <2> QED
      BY <2>4, <2>5
  <1>5. IsFiniteSet(BatchTraces) /\ Cardinality(BatchTraces) = m
    <2>1. CASE m = 0
      BY <1>1, <1>4, <2>1, FS_Interval
    <2>2. CASE m # 0
      BY <1>1, <1>4, <2>2, FS_Interval
    <2> QED
      BY <2>1, <2>2
  <1>6. IsFiniteSet(returned)
    BY <1>1, PositionsCount, FS_Subset DEF n
  <1>7. returned \cap BatchTraces = {}
    <2>1. returned \subseteq 1..n
      BY DEF n
    <2> QED
      BY <1>1, <1>4, <2>1
  <1>8. Cardinality({}) = 0 /\ Cardinality(returned) \in Nat
    BY <1>6, FS_EmptySet, FS_CardinalityType
  <1>9. Cardinality(returned \cup BatchTraces)
          = Cardinality(returned) + Cardinality(BatchTraces) - Cardinality(returned \cap BatchTraces)
    BY <1>5, <1>6, FS_Union
  <1>10. Cardinality(returned \cup BatchTraces) = Cardinality(returned) + m
    <2>1. Cardinality(returned \cap BatchTraces) = 0
      BY <1>7, <1>8, Zenon
    <2> QED
      BY <1>1, <1>5, <1>8, <1>9, <2>1
  <1> QED
    BY <1>3, <1>4, <1>10 DEF n, m

\* The number of busy threads when thread a goes to pc.
BusyAfter(a, pc) ==
    /\ IsFiniteSet(Busy')
    /\ apc[a] # "idle" /\ pc = "idle" => Cardinality(Busy') = Cardinality(Busy) - 1
    /\ apc[a] # "idle" /\ pc # "idle" => Cardinality(Busy') = Cardinality(Busy)
    /\ apc[a] = "idle" /\ pc # "idle" => Cardinality(Busy') = Cardinality(Busy) + 1

\* A step of an application thread that leaves its program counter idle, or
\* takes it from there, changes the number of the busy ones by one.
LEMMA BusyChanges ==
    ASSUME NEW a \in AppThreads, NEW pc, apc \in [AppThreads -> {"idle", "load", "store"}],
           apc' = [apc EXCEPT ![a] = pc], IsFiniteSet(Busy)
    PROVE  BusyAfter(a, pc)
  <1>1. /\ pc = "idle" => Busy' = Busy \ {a}
        /\ pc # "idle" => Busy' = Busy \cup {a}
        /\ apc[a] # "idle" <=> a \in Busy
    BY DEF Busy
  <1>2. /\ IsFiniteSet(Busy \cup {a})
        /\ a \notin Busy => Cardinality(Busy \cup {a}) = Cardinality(Busy) + 1
    BY FS_AddElement
  <1>3. /\ IsFiniteSet(Busy \ {a})
        /\ a \in Busy => Cardinality(Busy \ {a}) = Cardinality(Busy) - 1
    BY FS_RemoveElement
  <1>4. a \in Busy => Busy \cup {a} = Busy
    OBVIOUS
  <1>5. CASE pc = "idle"
    BY <1>1, <1>3, <1>5 DEF BusyAfter
  <1>6. CASE pc # "idle"
    BY <1>1, <1>2, <1>4, <1>6 DEF BusyAfter
  <1> QED
    BY <1>5, <1>6

\* The counters are at most what they count, after every step.
LEMMA CountersStep ==
    ASSUME IndInv, Counters, [Next]_vars
    PROVE  Counters'
  <1> USE DEF fields, worker, app, caller, history
  <1>a. /\ Len(called) \in Nat /\ Len(batch) \in Nat /\ rejected \in Nat /\ Pending \in Nat
        /\ Cardinality(Busy) \in Nat /\ exportedCount \in Nat /\ droppedCount \in Nat
        /\ wload \in Nat /\ \A a \in AppThreads : aload[a] \in Nat
        /\ apc \in [AppThreads -> {"idle", "load", "store"}]
        /\ Settled \in Int /\ Raised \in Int
        /\ IsFiniteSet(returned) /\ Cardinality(returned) \in Nat
        /\ IsFiniteSet(Busy)
    BY CountTypes DEF Counters
  \* The steps that touch no counter, and what is counted.
  <1>b. ASSUME UNCHANGED <<exportedCount, droppedCount, apc, aload, wload, rejected, called,
                           returned>>,
               Pending' = Pending, wpc' = "count" <=> wpc = "count", wpc' = "store" => wpc = "store",
               wpc = "count" => batch' = batch
        PROVE  Counters'
    BY <1>b DEF Counters, Settled, Raised, Busy
  <1>1. ASSUME NEW a \in AppThreads, ExportPut(a)
        PROVE  Counters'
    <2>1. Pending' = Pending
      BY <1>1 DEF ExportPut, Pending
    <2> QED
      BY <1>1, <1>b, <2>1 DEF ExportPut
  <1>2. ASSUME NEW a \in AppThreads, ExportFull(a)
        PROVE  Counters'
    <2>1. /\ apc[a] = "idle" /\ rejected' = rejected + 1 /\ apc' = [apc EXCEPT ![a] = "load"]
          /\ UNCHANGED <<exportedCount, droppedCount, aload, wload, called, returned, wpc, batch>>
      BY <1>2 DEF ExportFull
    <2>2. IsFiniteSet(Busy') /\ Cardinality(Busy') = Cardinality(Busy) + 1
      <3>1. apc' = [apc EXCEPT ![a] = "load"] => BusyAfter(a, "load")
        BY <1>a, BusyChanges
      <3> QED
        BY <2>1, <3>1 DEF BusyAfter
    <2>3. Settled' = Settled
      BY <1>a, <2>1, <2>2 DEF Settled, Raised, Pending
    <2>4. \A b \in AppThreads : apc'[b] = "store" => apc[b] = "store"
      BY <1>a, <2>1
    <2> QED
      BY <2>1, <2>2, <2>3, <2>4 DEF Counters
  <1>3. ASSUME NEW a \in AppThreads, ExportLoad(a)
        PROVE  Counters'
    <2>1. /\ apc[a] = "load" /\ aload' = [aload EXCEPT ![a] = droppedCount]
          /\ apc' = [apc EXCEPT ![a] = "store"]
          /\ UNCHANGED <<exportedCount, droppedCount, wload, called, returned, wpc, batch, rejected>>
      BY <1>3 DEF ExportLoad
    <2>2. IsFiniteSet(Busy') /\ Cardinality(Busy') = Cardinality(Busy)
      <3>1. apc' = [apc EXCEPT ![a] = "store"] => BusyAfter(a, "store")
        BY <1>a, BusyChanges
      <3> QED
        BY <2>1, <3>1 DEF BusyAfter
    <2>3. Settled' = Settled
      BY <1>a, <2>1, <2>2 DEF Settled, Raised, Pending
    <2>4. \A b \in AppThreads : apc'[b] = "store" => aload'[b] <= Settled
      <3>1. aload \in [AppThreads -> Nat]
        BY DEF IndInv, TypeOK
      <3>2. aload'[a] = droppedCount /\ \A b \in AppThreads \ {a} : aload'[b] = aload[b] /\ apc'[b] = apc[b]
        BY <1>a, <2>1, <3>1
      <3> QED
        BY <2>1, <3>2 DEF Counters
    <2> QED
      BY <2>1, <2>2, <2>3, <2>4 DEF Counters
  <1>4. ASSUME NEW a \in AppThreads, ExportStore(a)
        PROVE  Counters'
    <2>1. /\ apc[a] = "store" /\ droppedCount' = aload[a] + 1
          /\ apc' = [apc EXCEPT ![a] = "idle"]
          /\ UNCHANGED <<exportedCount, aload, wload, called, returned, wpc, batch, rejected>>
      BY <1>4 DEF ExportStore
    <2>2. IsFiniteSet(Busy') /\ Cardinality(Busy') = Cardinality(Busy) - 1
      <3>1. apc' = [apc EXCEPT ![a] = "idle"] => BusyAfter(a, "idle")
        BY <1>a, BusyChanges
      <3> QED
        BY <2>1, <3>1 DEF BusyAfter
    <2>3. Settled' = Settled + 1
      <3>1. Pending' = Pending /\ Raised' = Raised
        BY <2>1 DEF Pending, Raised
      <3> QED
        BY <1>a, <2>1, <2>2, <3>1 DEF Settled
    <2>4. \A b \in AppThreads : apc'[b] = "store" => apc[b] = "store"
      BY <1>a, <2>1
    <2>5. droppedCount' <= Settled'
      BY <1>a, <2>1, <2>3 DEF Counters
    <2>6. wpc' = "store" => wload' <= Settled'
      BY <1>a, <2>1, <2>3 DEF Counters
    <2>7. \A b \in AppThreads : apc'[b] = "store" => aload'[b] <= Settled'
      BY <1>a, <2>1, <2>3, <2>4 DEF Counters
    <2> QED
      BY <2>1, <2>2, <2>5, <2>6, <2>7 DEF Counters
  <1>5. CASE LoopCheck \/ GetTimeout \/ GetFirst \/ FillNext \/ FillEnd \/ PillDone
    <2>1. /\ UNCHANGED <<exportedCount, droppedCount, apc, aload, wload, rejected, called, returned>>
          /\ wpc \notin {"count", "load", "store"} /\ wpc' \notin {"count", "load", "store"}
      BY <1>5 DEF LoopCheck, GetTimeout, GetFirst, FillNext, FillEnd, PillDone
    <2>2. Pending' = Pending
      BY <2>1 DEF Pending
    <2> QED
      BY <1>b, <2>1, <2>2
  <1>6. CASE ExportReturns
    <2>1. /\ wpc = "export" /\ wpc' = "count" /\ called' = called \o batch
          /\ returned' = returned \cup BatchTraces
          /\ UNCHANGED <<exportedCount, droppedCount, apc, aload, wload, rejected, batch>>
      BY <1>6 DEF ExportReturns
    <2>2. /\ BatchTraces = (Len(called) + 1)..(Len(called) + Len(batch))
          /\ Cardinality(returned') = Cardinality(returned) + Len(batch)
          /\ Len(called') = Len(called) + Len(batch)
      BY <2>1, BatchIsNew DEF Counters
    <2>3. Busy' = Busy /\ Pending = 0 /\ Pending' = 0
      BY <2>1 DEF Busy, Pending
    <2>4. Raised' = Raised
      BY <1>a, <2>2 DEF Raised
    <2>5. Settled' = Settled
      BY <1>a, <2>1, <2>3, <2>4 DEF Settled
    <2>6. returned' \subseteq 1..Len(called')
      <3> DEFINE n == Len(called)
                 m == Len(batch)
      <3>1. returned \subseteq 1..n /\ BatchTraces = (n + 1)..(n + m) /\ n \in Nat /\ m \in Nat
            /\ Len(called') = n + m
        BY <1>a, <2>2 DEF Counters
      <3> HIDE DEF n, m
      <3> QED
        BY <2>1, <3>1
    <2>7. exportedCount' + Len(batch') <= Cardinality(returned')
      <3>1. exportedCount <= Cardinality(returned)
        BY <1>a, <2>1 DEF Counters
      <3> QED
        BY <1>a, <2>1, <2>2, <3>1
    <2> QED
      BY <2>1, <2>3, <2>5, <2>6, <2>7 DEF Counters
  <1>7. CASE ExportRaises
    <2>1. /\ wpc = "export" /\ wpc' = "load" /\ called' = called \o batch
          /\ UNCHANGED <<exportedCount, droppedCount, apc, aload, wload, rejected, batch, returned>>
      BY <1>7 DEF ExportRaises
    <2>2. Len(called') = Len(called) + Len(batch)
      BY <2>1, BatchIsNew DEF Counters
    <2>3. Busy' = Busy /\ Pending = 0 /\ Pending' = Len(batch)
      BY <2>1 DEF Busy, Pending
    <2>4. Raised' = Raised + Len(batch)
      BY <1>a, <2>1, <2>2 DEF Raised
    <2>5. Settled' = Settled
      BY <1>a, <2>1, <2>3, <2>4 DEF Settled
    <2>6. returned' \subseteq 1..Len(called')
      <3>1. returned \subseteq 1..Len(called)
        BY DEF Counters
      <3> QED
        BY <1>a, <2>1, <2>2, <3>1
    <2>7. exportedCount' <= Cardinality(returned')
      BY <1>a, <2>1 DEF Counters
    <2> QED
      BY <2>1, <2>3, <2>5, <2>6, <2>7 DEF Counters
  <1>13. CASE CountExported
    <2>1. /\ wpc = "count" /\ wpc' = "settle" /\ exportedCount' = exportedCount + Len(batch)
          /\ UNCHANGED <<droppedCount, apc, aload, wload, rejected, batch, called, returned>>
      BY <1>13 DEF CountExported
    <2>2. Busy' = Busy /\ Settled' = Settled
      BY <2>1 DEF Busy, Settled, Raised, Pending
    <2>3. exportedCount' <= Cardinality(returned')
      BY <2>1 DEF Counters
    <2> QED
      BY <2>1, <2>2, <2>3 DEF Counters
  <1>8. CASE LoadDropped
    <2>1. /\ wpc = "load" /\ wpc' = "store" /\ wload' = droppedCount
          /\ UNCHANGED <<exportedCount, droppedCount, apc, aload, rejected, batch, called, returned>>
      BY <1>8 DEF LoadDropped
    <2>2. Busy' = Busy /\ Settled' = Settled
      BY <2>1 DEF Busy, Settled, Raised, Pending
    <2> QED
      BY <2>1, <2>2 DEF Counters
  <1>9. CASE StoreDropped
    <2>1. /\ wpc = "store" /\ wpc' = "settle" /\ droppedCount' = wload + Len(batch)
          /\ UNCHANGED <<exportedCount, apc, aload, wload, rejected, batch, called, returned>>
      BY <1>9 DEF StoreDropped
    <2>2. Busy' = Busy /\ Settled' = Settled + Len(batch)
      <3>1. Busy' = Busy /\ Raised' = Raised /\ Pending = Len(batch) /\ Pending' = 0
        BY <2>1 DEF Busy, Raised, Pending
      <3> QED
        BY <1>a, <2>1, <3>1 DEF Settled
    <2>3. droppedCount' <= Settled'
      BY <1>a, <2>1, <2>2 DEF Counters
    <2>4. \A b \in AppThreads : apc'[b] = "store" => aload'[b] <= Settled'
      BY <1>a, <2>1, <2>2 DEF Counters
    <2> QED
      BY <1>a, <2>1, <2>2, <2>3, <2>4 DEF Counters
  <1>10. CASE TaskDone
    <2>1. /\ UNCHANGED <<exportedCount, droppedCount, apc, aload, wload, rejected, called, returned>>
          /\ wpc = "settle" /\ wpc' \in {"loop", "settle"}
      BY <1>10 DEF TaskDone
    <2>2. Pending' = Pending
      BY <2>1 DEF Pending
    <2> QED
      BY <1>b, <2>1, <2>2
  <1>11. ASSUME NEW c \in Callers, Call(c) \/ CallerStep(c)
         PROVE  Counters'
    <2>1. /\ UNCHANGED <<exportedCount, droppedCount, apc, aload, wload, rejected, called, returned>>
          /\ UNCHANGED <<wpc, batch>>
      BY <1>11 DEF Call, CallerStep, Join, InnerFlush, SetShutdown, PutPill, AwaitWorker, InnerShutdown
    <2>2. Pending' = Pending
      BY <2>1 DEF Pending
    <2> QED
      BY <1>b, <2>1, <2>2
  <1>12. CASE UNCHANGED vars
    <2>1. Pending' = Pending
      BY <1>12 DEF Pending, vars
    <2> QED
      BY <1>b, <1>12, <2>1 DEF vars
  <1> QED
    BY <1>1, <1>2, <1>3, <1>4, <1>5, <1>6, <1>7, <1>8, <1>9, <1>10, <1>11, <1>12, <1>13
    DEF Next, AppNext, AppStep, WorkerNext

\* The counters never report what did not happen, however the increments of
\* the worker and of the application's threads interleave.
THEOREM CountersAreHonest == Spec => []CountersNeverOverstate
  <1>1. Init => Counters
    <2> SUFFICES ASSUME Init
                 PROVE  Counters
      OBVIOUS
    <2>1. Busy = {} /\ Pending = 0 /\ Len(called) = 0 /\ returned = {}
      BY DEF Init, Busy, Pending
    <2>2. IsFiniteSet({}) /\ Cardinality({}) = 0
      BY FS_EmptySet
    <2>3. Settled = 0
      BY <2>1, <2>2 DEF Settled, Raised, Init
    <2> QED
      BY <2>1, <2>2, <2>3 DEF Counters, Init
  <1>2. IndInv /\ Counters /\ [Next]_vars => Counters'
    BY CountersStep
  <1>3. IndInv /\ Counters => CountersNeverOverstate
    <2> SUFFICES ASSUME IndInv, Counters
                 PROVE  CountersNeverOverstate
      OBVIOUS
    <2>1. /\ Len(called) \in Nat /\ Pending \in Nat /\ rejected \in Nat
          /\ Cardinality(Busy) \in Nat /\ exportedCount \in Nat /\ droppedCount \in Nat
          /\ Len(batch) \in Nat /\ Cardinality(returned) \in Nat /\ Settled \in Int
          /\ Raised \in Int
      BY CountTypes
    <2>2. Settled <= rejected + Raised
      BY <2>1 DEF Settled
    <2> QED
      BY <2>1, <2>2 DEF Counters, CountersNeverOverstate
  <1> QED
    BY Invariance, <1>1, <1>2, <1>3, PTL DEF Spec

-----------------------------------------------------------------------------
(* The exporter implements the abstract channel.                           *)

Promise == [c \in Callers |-> IF cpc[c] = "join" THEN mark[c] ELSE -1]
Open == wpc # "dead"

\* A step that leaves the five abstract variables as they are is a stutter.
LEMMA ChanStutter ==
    ASSUME UNCHANGED <<accepted, called, shutdown, sealed>>, Open' = Open,
           Promise' = Promise
    PROVE  [Channel!ChanNext]_(Channel!chanVars)
  BY DEF Channel!chanVars, Promise, Open

\* Every step of the exporter is a step of the channel or a stutter.
LEMMA ChanStep ==
    ASSUME IndInv, HeldBounded', ExitDrains', [Next]_vars
    PROVE  [Channel!ChanNext]_(Channel!chanVars)
  <1> USE DEF fields, worker, app, caller, history
  <1>a. /\ Len(called) \in Nat /\ Len(batch) \in Nat /\ accepted \in Nat /\ sealed \in Nat
        /\ called \in Seq(Nat) /\ batch \in Seq(Nat) /\ mark \in [Callers -> Nat]
        /\ cpc \in [Callers -> CallerPC] /\ MaxQueueSize \in Nat /\ BatchSize \in Nat
    BY ConstantsAssumption DEF IndInv, TypeOK
  <1>1. ASSUME NEW a \in AppThreads, ExportPut(a)
        PROVE  Channel!Accept
    <2>1. /\ accepted' = accepted + 1
          /\ UNCHANGED <<called, cpc, mark, shutdown, sealed, wpc>>
      BY <1>1 DEF ExportPut
    <2>2. Capacity > 0 => accepted - Len(called) < Capacity
      <3>1. Capacity > 0 => accepted' - Len(called') <= Capacity
        BY DEF HeldBounded, Held, Capacity
      <3>2. Capacity \in Nat
        BY <1>a DEF Capacity
      <3> QED
        BY <3>1, <3>2, <2>1, <1>a
    <2> QED
      BY <2>1, <2>2 DEF Channel!Accept
  <1>2. ASSUME NEW a \in AppThreads, ExportFull(a) \/ AppStep(a)
        PROVE  [Channel!ChanNext]_(Channel!chanVars)
    BY <1>2, ChanStutter DEF ExportFull, AppStep, ExportLoad, ExportStore, Promise, Open
  <1>3. CASE ExportReturns \/ ExportRaises
    <2>1. /\ wpc = "export" /\ wpc' \in {"count", "load"} /\ called' = called \o batch
          /\ UNCHANGED <<accepted, cpc, mark, shutdown, sealed>>
      BY <1>3 DEF ExportReturns, ExportRaises
    <2>2. Len(called') = Len(called) + Len(batch)
      BY <2>1, <1>a, ConcatFacts
    <2>3. Len(batch) >= 1 /\ Taken = Len(called) + Len(batch)
      BY <2>1 DEF IndInv, BatchShape, Empty, Taken, Gathering
    <2>4. Taken <= accepted
      BY DEF IndInv, QueueOrder, QueueHolds
    <2>5. Len(called') \in (Len(called) + 1)..accepted
      BY <2>2, <2>3, <2>4, <1>a
    <2>6. Channel!HandOver
      BY <2>1, <2>5 DEF Channel!HandOver
    <2> QED
      BY <2>6 DEF Channel!ChanNext
  <1>4. CASE LoopCheck \/ PillDone
    <2>1. UNCHANGED <<accepted, called, cpc, mark, shutdown, sealed>> /\ wpc # "dead"
      BY <1>4 DEF LoopCheck, PillDone
    <2>2. CASE wpc' = "dead"
      <3>1. shutdown /\ Len(called) >= sealed
        BY <2>1, <2>2 DEF ExitDrains
      <3>2. Channel!Close
        BY <2>1, <2>2, <3>1, <1>a DEF Channel!Close, Channel!Unsealed
      <3> QED
        BY <3>2 DEF Channel!ChanNext
    <2>3. CASE wpc' # "dead"
      BY <2>1, <2>3, ChanStutter DEF Promise, Open
    <2> QED
      BY <2>2, <2>3
  <1>5. CASE GetTimeout \/ GetFirst \/ FillNext \/ FillEnd \/ CountExported
             \/ LoadDropped \/ StoreDropped \/ TaskDone
    <2>1. /\ UNCHANGED <<accepted, called, cpc, mark, shutdown, sealed>>
          /\ wpc # "dead" /\ wpc' # "dead"
      BY <1>5 DEF GetTimeout, GetFirst, FillNext, FillEnd, CountExported, LoadDropped,
         StoreDropped, TaskDone
    <2> QED
      BY <2>1, ChanStutter DEF Promise, Open
  <1>6. ASSUME NEW c \in Callers, Call(c)
        PROVE  Channel!BeginWait(c)
    <2>1. /\ cpc[c] = "idle" /\ UNCHANGED <<accepted, called, shutdown, sealed, wpc>>
          /\ cpc' = [cpc EXCEPT ![c] = "join"] /\ mark' = [mark EXCEPT ![c] = accepted]
      BY <1>6 DEF Call
    <2>2. Promise[c] = -1 /\ Promise' = [Promise EXCEPT ![c] = accepted]
      BY <2>1, <1>a DEF Promise
    <2> QED
      BY <2>1, <2>2 DEF Channel!BeginWait, Channel!Idle, Promise
  <1>7. ASSUME NEW c \in Callers, Join(c)
        PROVE  Channel!EndWait(c)
    <2>1. /\ cpc[c] = "join" /\ unfinished = 0
          /\ UNCHANGED <<accepted, called, shutdown, sealed, wpc, mark>>
          /\ cpc' = [cpc EXCEPT ![c] = "innerFlush"]
      BY <1>7 DEF Join
    <2>2. Promise[c] = mark[c] /\ Promise' = [Promise EXCEPT ![c] = -1]
      BY <2>1, <1>a DEF Promise
    <2>3. Len(called) >= mark[c]
      BY <2>1, <1>a, NothingUnfinished DEF IndInv, Marks
    <2> QED
      BY <2>1, <2>2, <2>3, <1>a DEF Channel!EndWait, Channel!Idle, Promise
  <1>8. ASSUME NEW c \in Callers, SetShutdown(c)
        PROVE  [Channel!ChanNext]_(Channel!chanVars)
    <2>1. /\ UNCHANGED <<accepted, called, wpc, mark>> /\ shutdown'
          /\ sealed' = IF shutdown THEN sealed ELSE accepted
          /\ cpc[c] = "set" /\ cpc' = [cpc EXCEPT ![c] = "pill"]
      BY <1>8 DEF SetShutdown
    <2>2. Promise' = Promise
      BY <2>1, <1>a DEF Promise
    <2>3. CASE shutdown
      BY <2>1, <2>2, <2>3, ChanStutter DEF Open, IndInv, TypeOK
    <2>4. CASE ~shutdown
      <3>1. Channel!Seal
        BY <2>1, <2>2, <2>4 DEF Channel!Seal, Channel!Unsealed, Promise
      <3> QED
        BY <3>1 DEF Channel!ChanNext
    <2> QED
      BY <2>3, <2>4
  <1>9. ASSUME NEW c \in Callers,
               InnerFlush(c) \/ PutPill(c) \/ AwaitWorker(c) \/ InnerShutdown(c)
        PROVE  [Channel!ChanNext]_(Channel!chanVars)
    <2>1. UNCHANGED <<accepted, called, shutdown, sealed, wpc, mark>>
      BY <1>9 DEF InnerFlush, PutPill, AwaitWorker, InnerShutdown
    <2>2. \A d \in Callers : (cpc'[d] = "join") <=> (cpc[d] = "join")
      BY <1>9, <1>a DEF InnerFlush, PutPill, AwaitWorker, InnerShutdown
    <2>3. Promise' = Promise
      BY <2>1, <2>2 DEF Promise
    <2> QED
      BY <2>1, <2>3, ChanStutter DEF Open
  <1>10. CASE UNCHANGED vars
    BY <1>10, ChanStutter DEF vars, Promise, Open
  <1> QED
    BY <1>1, <1>2, <1>3, <1>4, <1>5, <1>6, <1>7, <1>8, <1>9, <1>10
    DEF Next, AppNext, WorkerNext, CallerStep, Channel!ChanNext

\* The exporter, for every interleaving of its threads, keeps the channel's
\* promises.
THEOREM ImplementsChannel == Spec => ChannelSpec
  <1>1. Init => Channel!ChanInit
    BY DEF Init, Channel!ChanInit, Channel!Idle, Channel!Unsealed
  <1>2. IndInv /\ HeldBounded' /\ ExitDrains' /\ [Next]_vars
        => [Channel!ChanNext]_(Channel!chanVars)
    BY ChanStep
  <1> QED
    BY Invariance, MemoryIsBounded, ExitIsDrained, <1>1, <1>2, PTL DEF Spec, ChannelSpec, Channel!ChanSpec
=============================================================================
