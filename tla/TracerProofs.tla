---------------------------- MODULE TracerProofs ----------------------------
(***************************************************************************)
(* Proofs about Tracer, for any tasks and runs and any bounds.             *)
(***************************************************************************)
EXTENDS Tracer, SequenceTheorems, TLAPS

-----------------------------------------------------------------------------
(* The inductive invariant.                                                *)

Actors == Tasks \cup Runs
Status == {"running", "ok", "error"}
Context == [trace : {None} \cup TraceIds, span : {None} \cup SpanIds]
Entry == [kind : {"trace", "span"}, own : {None} \cup TraceIds, span : SpanIds, saved : Context]

\* What TypeOK leaves open: the traces and the spans, ...
Tables ==
    /\ traces \in Seq([status : Status, spans : SUBSET SpanIds,
                       active : BOOLEAN, kept : BOOLEAN])
    /\ spans \in Seq([trace : TraceIds, parent : Nat, status : Status])
    /\ opener \in Seq(Actors) /\ exports \in Seq(Seq(Actors))
    /\ openThen \in Seq(SUBSET SpanIds)
    /\ Len(opener) = Len(spans)
    /\ Len(exports) = Len(traces) /\ Len(openThen) = Len(traces)
    /\ late \subseteq SpanIds
    /\ \A S \in SpanIds : spans[S].parent < S

\* ... and what tasks and runs have.
Locals ==
    /\ ctx \in [Tasks -> Context] /\ base \in [Tasks -> Context]
    /\ stack \in [Tasks -> Seq(Entry)]
    /\ runs \in [Runs -> [span : {None} \cup SpanIds, root : BOOLEAN, chain : BOOLEAN]]
    /\ fresh \subseteq Tasks /\ used \subseteq Runs

Shape == Tables /\ Locals

\* A trace has a first span.
Rooted ==
    \A T \in TraceIds : \E S \in traces[T].spans : \A R \in traces[T].spans : S <= R

\* A context names a span with its trace, or neither.
Consistent(c) == IF c.span = None THEN c.trace = None ELSE spans[c.span].trace = c.trace
ContextsConsistent == \A t \in Tasks : Consistent(ctx[t]) /\ Consistent(base[t])

\* A manager puts back what the one around it set.
SavedBelow ==
    \A t \in Tasks : \A i \in DOMAIN stack[t] :
        stack[t][i].saved =
            IF i = 1 THEN base[t]
            ELSE [trace |-> spans[stack[t][i - 1].span].trace, span |-> stack[t][i - 1].span]

\* A task that has done nothing has no manager and no span.
FreshIdle ==
    \A t \in fresh : stack[t] = <<>> /\ \A S \in SpanIds : opener[S] # t

\* A task's managers hold spans it opened, each later than the one around it.
StackOpened ==
    \A t \in Tasks : \A i \in DOMAIN stack[t] :
        /\ opener[stack[t][i].span] = t
        /\ \A j \in 1..(i - 1) : stack[t][j].span < stack[t][i].span

\* The manager that owns a trace holds its root span.
OwnsRoot ==
    \A t \in Tasks : \A i \in DOMAIN stack[t] :
        LET T == stack[t][i].own IN
        T # None => stack[t][i].span = Root(T) /\ spans[Root(T)].trace = T

\* A running span of a task is one of its managers'.
RunningHeld ==
    \A S \in SpanIds : spans[S].status = "running" /\ opener[S] \in Tasks =>
        \E i \in DOMAIN stack[opener[S]] : stack[opener[S]][i].span = S

\* A run opens one span, and the handler's entry of the run is that span.
RunsOpenOne ==
    /\ \A S \in SpanIds : opener[S] \in Runs => opener[S] \in used
    /\ \A R, S \in SpanIds : opener[R] = opener[S] /\ opener[S] \in Runs => R = S
    /\ \A r \in Runs : runs[r].span # None => opener[runs[r].span] = r

Owned(T) == \E t \in Tasks : \E i \in DOMAIN stack[t] : stack[t][i].own = T

\* A trace is handed over by the task that opened it when its manager is
\* left, and by a run while the trace is kept; so at most once by each.
HandOvers ==
    \A T \in TraceIds :
        /\ Len(exports[T]) <= 2
        /\ \A k \in DOMAIN exports[T] :
             /\ exports[T][k] \in Tasks => ~Owned(T) /\ exports[T][k] = opener[Root(T)]
             /\ exports[T][k] \in Runs => ~traces[T].kept
             /\ \A l \in DOMAIN exports[T] :
                   l # k => (exports[T][k] \in Tasks <=> exports[T][l] \in Runs)
        /\ ~traces[T].kept => exports[T] # <<>>

\* The context a task starts with is in no trace of its own.
BaseForeign ==
    \A t \in Tasks : base[t].trace # None => opener[Root(base[t].trace)] # t

\* Inside a trace that a task opened, the task is inside the manager of it.
OwnerAround ==
    \A t \in Tasks : \A i \in DOMAIN stack[t] :
        LET T == spans[stack[t][i].span].trace IN
        opener[Root(T)] = t => \E j \in 1..i : stack[t][j].own = T

IndInv ==
    /\ TypeOK /\ Shape /\ Rooted /\ ContextsConsistent /\ ContextFollowsStack /\ SavedBelow
    /\ FreshIdle /\ StackOpened /\ OwnsRoot /\ RunningHeld /\ RunsOpenOne /\ HandOvers
    /\ BaseForeign /\ OwnerAround
    /\ ActiveUntilExported /\ HandedOverComplete /\ NoLateSpan /\ ParentsExplained

-----------------------------------------------------------------------------
(* Sequences, types and roots.                                             *)

IsSequence(s) == \E X : s \in Seq(X)

\* A sequence is one of a set when its elements are of that set.
LEMMA SeqOfElements ==
    ASSUME NEW s, IsSequence(s), NEW Y, \A i \in 1..Len(s) : s[i] \in Y
    PROVE  s \in Seq(Y)
  <1>1. PICK X : s \in Seq(X)
    BY DEF IsSequence
  <1>2. Len(s) \in Nat /\ s \in [1..Len(s) -> X] /\ \A i \in 1..Len(s) : s[i] \in Y
    BY <1>1
  <1>3. s \in [1..Len(s) -> Y]
    BY <1>2
  <1> QED
    BY <1>2, <1>3, SeqDef

\* What Append returns.
LEMMA Appended ==
    ASSUME NEW X, NEW s \in Seq(X), NEW e
    PROVE  /\ Len(s) \in Nat /\ DOMAIN s = 1..Len(s)
           /\ Len(Append(s, e)) = Len(s) + 1 /\ DOMAIN Append(s, e) = 1..(Len(s) + 1)
           /\ \A i \in 1..Len(s) : Append(s, e)[i] = s[i]
           /\ Append(s, e)[Len(s) + 1] = e
           /\ IsSequence(Append(s, e))
  <1> DEFINE Y == X \cup {e}
  <1>1. s \in Seq(Y) /\ e \in Y
    BY SeqMonotonic
  <1> HIDE DEF Y
  <1>2. IsSequence(Append(s, e))
    BY <1>1, AppendProperties DEF IsSequence
  <1> QED
    BY <1>1, <1>2, AppendProperties

\* Traces and spans are records at the numbers they were given.
LEMMA Types ==
    ASSUME Shape
    PROVE  /\ Len(traces) \in Nat /\ Len(spans) \in Nat
           /\ TraceIds = DOMAIN traces /\ TraceIds = DOMAIN exports /\ TraceIds = DOMAIN openThen
           /\ SpanIds = DOMAIN spans /\ SpanIds = DOMAIN opener
           /\ None \notin TraceIds /\ None \notin SpanIds
           /\ NewTrace \notin TraceIds /\ NewSpan \notin SpanIds
           /\ \A S \in SpanIds : S \in Nat /\ S < NewSpan
           /\ \A T \in TraceIds :
                /\ traces[T] \in [status : Status, spans : SUBSET SpanIds,
                                  active : BOOLEAN, kept : BOOLEAN]
                /\ exports[T] \in Seq(Actors) /\ openThen[T] \subseteq SpanIds
           /\ \A S \in SpanIds :
                /\ spans[S] \in [trace : TraceIds, parent : Nat, status : Status]
                /\ opener[S] \in Actors
           /\ \A t \in Tasks : /\ DOMAIN stack[t] = 1..Len(stack[t]) /\ Len(stack[t]) \in Nat
                               /\ \A i \in 1..Len(stack[t]) : stack[t][i] \in Entry
                               /\ stack[t] # <<>> => Len(stack[t]) \in 1..Len(stack[t])
  <1>1. Len(traces) \in Nat /\ Len(spans) \in Nat
    BY DEF Shape, Tables, Locals
  <1>2. \A t \in Tasks : stack[t] \in Seq(Entry)
    BY DEF Shape, Tables, Locals
  <1>3. \A t \in Tasks : /\ DOMAIN stack[t] = 1..Len(stack[t]) /\ Len(stack[t]) \in Nat
                         /\ \A i \in 1..Len(stack[t]) : stack[t][i] \in Entry
                         /\ stack[t] # <<>> => Len(stack[t]) \in 1..Len(stack[t])
    <2> HIDE DEF Entry
    <2> QED
      BY <1>2
  <1>4. /\ TraceIds = DOMAIN traces /\ TraceIds = DOMAIN exports /\ TraceIds = DOMAIN openThen
        /\ SpanIds = DOMAIN spans /\ SpanIds = DOMAIN opener
    BY DEF Shape, Tables, Locals, TraceIds, SpanIds
  <1>5. /\ None \notin TraceIds /\ None \notin SpanIds
        /\ NewTrace \notin TraceIds /\ NewSpan \notin SpanIds
        /\ \A S \in SpanIds : S \in Nat /\ S < NewSpan
    BY <1>1 DEF TraceIds, SpanIds, None, NewTrace, NewSpan
  <1>6. \A T \in TraceIds :
          /\ traces[T] \in [status : Status, spans : SUBSET SpanIds,
                            active : BOOLEAN, kept : BOOLEAN]
          /\ exports[T] \in Seq(Actors) /\ openThen[T] \subseteq SpanIds
    <2> DEFINE X == [status : Status, spans : SUBSET SpanIds, active : BOOLEAN, kept : BOOLEAN]
               Y == Seq(Actors)
               Z == SUBSET SpanIds
    <2>1. /\ traces \in Seq(X) /\ exports \in Seq(Y) /\ openThen \in Seq(Z)
          /\ Len(exports) = Len(traces) /\ Len(openThen) = Len(traces)
      BY DEF Shape, Tables, Locals
    <2> HIDE DEF X, Y, Z
    <2>2. \A T \in TraceIds : traces[T] \in X /\ exports[T] \in Y /\ openThen[T] \in Z
      BY <1>1, <2>1 DEF TraceIds
    <2> QED
      BY <2>2 DEF X, Y, Z
  <1>7. \A S \in SpanIds :
          /\ spans[S] \in [trace : TraceIds, parent : Nat, status : Status]
          /\ opener[S] \in Actors
    <2> DEFINE X == [trace : TraceIds, parent : Nat, status : Status]
    <2>1. spans \in Seq(X) /\ opener \in Seq(Actors) /\ Len(opener) = Len(spans)
      BY DEF Shape, Tables, Locals
    <2> HIDE DEF X
    <2>2. \A S \in SpanIds : spans[S] \in X /\ opener[S] \in Actors
      BY <1>1, <2>1 DEF SpanIds
    <2> QED
      BY <2>2 DEF X
  <1> QED
    BY <1>1, <1>3, <1>4, <1>5, <1>6, <1>7

\* The root is the least of a trace's spans.
LEMMA RootIsFirst ==
    ASSUME Shape, Rooted, NEW T \in TraceIds
    PROVE  /\ Root(T) \in traces[T].spans /\ Root(T) \in SpanIds
           /\ \A S \in traces[T].spans : Root(T) <= S
  <1>1. Root(T) \in traces[T].spans /\ \A S \in traces[T].spans : Root(T) <= S
    BY DEF Rooted, Root
  <1> QED
    BY <1>1, Types

\* The first member of a set of numbers is what CHOOSE finds.
LEMMA FirstUnique ==
    ASSUME NEW X, X \subseteq Nat, NEW S \in X, \A R \in X : S <= R
    PROVE  (CHOOSE Q \in X : \A R \in X : Q <= R) = S
  <1>1. \A Q \in X : (\A R \in X : Q <= R) => Q = S
    OBVIOUS
  <1> QED
    BY <1>1

-----------------------------------------------------------------------------
(* What the steps do, element by element.                                  *)

\* A span is opened in the trace T, below up.
Opened(T, up, who) ==
    /\ T \in TraceIds \cup {NewTrace} /\ up \in SpanIds \cup {None} /\ who \in Actors
    /\ SpanIds' = SpanIds \cup {NewSpan} /\ Len(spans') = NewSpan
    /\ \A S \in SpanIds : spans'[S] = spans[S] /\ opener'[S] = opener[S]
    /\ spans'[NewSpan] = [trace |-> T, parent |-> up, status |-> "running"]
    /\ opener' = Append(opener, who) /\ opener'[NewSpan] = who /\ Len(opener') = NewSpan
    /\ TraceIds' = TraceIds \cup {T} /\ Len(traces') = Len(exports') /\ Len(traces') = Len(openThen')
    /\ \A U \in TraceIds :
         /\ traces'[U] \in [status : Status, spans : SUBSET (SpanIds \cup {NewSpan}),
                            active : BOOLEAN, kept : BOOLEAN]
         /\ traces'[U].status = traces[U].status
         /\ traces'[U].active = traces[U].active /\ traces'[U].kept = traces[U].kept
         /\ \/ traces'[U].spans = traces[U].spans
            \/ U = T /\ traces'[U].spans = traces[U].spans \cup {NewSpan}
         /\ exports'[U] = exports[U] /\ openThen'[U] = openThen[U]
    /\ T = NewTrace => /\ traces'[T] = [status |-> "running", spans |-> {NewSpan},
                                        active |-> TRUE, kept |-> TRUE]
                       /\ exports'[T] = <<>> /\ openThen'[T] = {}
    /\ \/ late' = late
       \/ T \in TraceIds /\ exports[T] # <<>> /\ late' = late \cup {NewSpan}
    /\ IsSequence(spans') /\ IsSequence(opener')
    /\ IsSequence(traces') /\ IsSequence(exports') /\ IsSequence(openThen')

\* _create_span: the new span is the last of the table, as it was made, and no
\* other changes.
LEMMA OpensFacts ==
    ASSUME Shape, NEW T, NEW up, NEW who, OpensSpan(T, up, who)
    PROVE  /\ SpanIds' = SpanIds \cup {NewSpan} /\ Len(spans') = NewSpan
           /\ \A S \in SpanIds : spans'[S] = spans[S] /\ opener'[S] = opener[S]
           /\ spans'[NewSpan] = [trace |-> T, parent |-> up, status |-> "running"]
           /\ opener' = Append(opener, who) /\ opener'[NewSpan] = who
           /\ IsSequence(spans') /\ IsSequence(opener') /\ Len(opener') = NewSpan
  <1>1. /\ spans \in Seq([trace : TraceIds, parent : Nat, status : Status])
        /\ opener \in Seq(Actors) /\ Len(opener) = Len(spans)
    BY DEF Shape, Tables, Locals
  <1> DEFINE e == [trace |-> T, parent |-> up, status |-> "running"]
             X == [trace : TraceIds, parent : Nat, status : Status]
  <1>2. spans' = Append(spans, e) /\ opener' = Append(opener, who)
    BY DEF OpensSpan
  <1>3. spans \in Seq(X) /\ opener \in Seq(Actors)
    BY <1>1
  <1> HIDE DEF e, X
  <1>4. /\ Len(spans) \in Nat /\ Len(spans') = Len(spans) + 1
        /\ \A S \in 1..Len(spans) : spans'[S] = spans[S]
        /\ spans'[Len(spans) + 1] = e /\ IsSequence(spans')
    BY <1>2, <1>3, Appended
  <1>5. /\ \A S \in 1..Len(opener) : opener'[S] = opener[S]
        /\ opener'[Len(opener) + 1] = who /\ IsSequence(opener') /\ Len(opener') = Len(opener) + 1
    BY <1>2, <1>3, Appended
  <1>6. SpanIds' = SpanIds \cup {NewSpan}
    BY <1>4 DEF SpanIds, NewSpan
  <1> QED
    BY <1>1, <1>2, <1>4, <1>5, <1>6 DEF SpanIds, NewSpan, e

\* A span joins the trace of its context, or the new trace that it starts: what
\* the tables of traces and of hand-overs hold then.
LEMMA JoinsFacts ==
    ASSUME Shape, NEW T, NEW starts \in BOOLEAN, Joins(starts, T, NewSpan),
           IF starts THEN T = NewTrace ELSE T \in TraceIds
    PROVE  /\ TraceIds' = TraceIds \cup {T}
           /\ Len(traces') = Len(exports') /\ Len(traces') = Len(openThen')
           /\ \A U \in TraceIds :
                /\ traces'[U] \in [status : Status, spans : SUBSET (SpanIds \cup {NewSpan}),
                                   active : BOOLEAN, kept : BOOLEAN]
                /\ traces'[U].status = traces[U].status
                /\ traces'[U].active = traces[U].active /\ traces'[U].kept = traces[U].kept
                /\ \/ traces'[U].spans = traces[U].spans
                   \/ U = T /\ traces'[U].spans = traces[U].spans \cup {NewSpan}
                /\ exports'[U] = exports[U] /\ openThen'[U] = openThen[U]
           /\ T = NewTrace => /\ traces'[T] = [status |-> "running", spans |-> {NewSpan},
                                               active |-> TRUE, kept |-> TRUE]
                              /\ exports'[T] = <<>> /\ openThen'[T] = {}
           /\ \/ late' = late
              \/ T \in TraceIds /\ exports[T] # <<>> /\ late' = late \cup {NewSpan}
           /\ IsSequence(traces') /\ IsSequence(exports') /\ IsSequence(openThen')
  <1> DEFINE X == [status : Status, spans : SUBSET SpanIds, active : BOOLEAN, kept : BOOLEAN]
  <1>1. /\ traces \in Seq(X) /\ exports \in Seq(Seq(Actors)) /\ openThen \in Seq(SUBSET SpanIds)
        /\ Len(exports) = Len(traces) /\ Len(openThen) = Len(traces)
    BY DEF Shape, Tables, Locals
  <1>2. /\ Len(traces) \in Nat /\ NewTrace \notin TraceIds /\ TraceIds = DOMAIN traces
        /\ \A U \in TraceIds : traces[U] \in X
    BY Types
  <1>3. CASE starts
    <2> DEFINE e == [status |-> "running", spans |-> {NewSpan}, active |-> TRUE, kept |-> TRUE]
    <2>1. /\ traces' = Append(traces, e) /\ exports' = Append(exports, <<>>)
          /\ openThen' = Append(openThen, {}) /\ T = NewTrace /\ late' = late
      BY <1>3 DEF Joins, Started
    <2> HIDE DEF e, X
    <2>2. /\ Len(traces') = Len(traces) + 1 /\ traces'[Len(traces) + 1] = e
          /\ \A i \in 1..Len(traces) : traces'[i] = traces[i]
          /\ IsSequence(traces')
      BY <1>1, <2>1, Appended
    <2>3. /\ Len(exports') = Len(exports) + 1 /\ exports'[Len(exports) + 1] = <<>>
          /\ \A i \in 1..Len(exports) : exports'[i] = exports[i]
          /\ IsSequence(exports')
      BY <1>1, <2>1, Appended
    <2>4. /\ Len(openThen') = Len(openThen) + 1 /\ openThen'[Len(openThen) + 1] = {}
          /\ \A i \in 1..Len(openThen) : openThen'[i] = openThen[i]
          /\ IsSequence(openThen')
      BY <1>1, <2>1, Appended
    <2>5. TraceIds' = TraceIds \cup {T}
      BY <1>2, <2>1, <2>2 DEF TraceIds, NewTrace
    <2>6. \A U \in TraceIds : traces'[U] = traces[U] /\ exports'[U] = exports[U]
                              /\ openThen'[U] = openThen[U]
      BY <1>1, <2>2, <2>3, <2>4 DEF TraceIds
    <2>7. \A U \in TraceIds : traces'[U] \in [status : Status, spans : SUBSET (SpanIds \cup {NewSpan}),
                                   active : BOOLEAN, kept : BOOLEAN]
      BY <1>2, <2>6 DEF X
    <2>8. traces'[T] = e /\ exports'[T] = <<>> /\ openThen'[T] = {}
      BY <1>1, <2>1, <2>2, <2>3, <2>4 DEF NewTrace
    <2> QED
      BY <1>1, <2>1, <2>2, <2>3, <2>4, <2>5, <2>6, <2>7, <2>8 DEF e
  <1>4. CASE ~starts
    <2>1. /\ traces' = [traces EXCEPT ![T].spans = @ \cup {NewSpan}]
          /\ exports' = exports /\ openThen' = openThen /\ T \in TraceIds
          /\ late' = late \/ (exports[T] # <<>> /\ late' = late \cup {NewSpan})
      BY <1>4 DEF Joins
    <2>2. /\ \A U \in TraceIds \ {T} : traces'[U] = traces[U]
          /\ traces'[T] = [traces[T] EXCEPT !.spans = @ \cup {NewSpan}]
      BY <1>2, <2>1
    <2>3. /\ traces'[T] \in [status : Status, spans : SUBSET (SpanIds \cup {NewSpan}),
                             active : BOOLEAN, kept : BOOLEAN]
          /\ traces'[T].status = traces[T].status
          /\ traces'[T].active = traces[T].active /\ traces'[T].kept = traces[T].kept
          /\ traces'[T].spans = traces[T].spans \cup {NewSpan}
      BY <1>2, <2>1, <2>2
    <2>4. Len(traces') = Len(traces)
      <3> HIDE DEF X
      <3> QED
        BY <1>1, <1>2, <2>1
    <2>5. TraceIds' = TraceIds
      BY <2>4 DEF TraceIds
    <2>7. IsSequence(traces') /\ IsSequence(exports') /\ IsSequence(openThen')
      <3>1. traces' = [traces EXCEPT ![T] = traces'[T]]
        BY <2>1, <2>2
      <3> DEFINE W == X \cup {traces'[T]}
      <3>2. traces \in Seq(W) /\ traces'[T] \in W
        BY <1>1, SeqMonotonic
      <3> HIDE DEF W
      <3>3. traces' \in Seq(W)
        BY <1>2, <2>1, <3>1, <3>2
      <3> QED
        BY <1>1, <2>1, <3>3 DEF IsSequence
    <2>6. \A U \in TraceIds \ {T} :
            traces'[U] \in [status : Status, spans : SUBSET (SpanIds \cup {NewSpan}),
                            active : BOOLEAN, kept : BOOLEAN]
      BY <1>2, <2>2
    <2> QED
      BY <1>1, <1>2, <2>1, <2>2, <2>3, <2>4, <2>5, <2>6, <2>7
  <1> QED
    BY <1>3, <1>4

\* Making a span and joining a trace is one step of the kind Opened.
LEMMA OpenedFacts ==
    ASSUME Shape, NEW T, NEW up \in SpanIds \cup {None}, NEW who \in Actors,
           NEW starts \in BOOLEAN, OpensSpan(T, up, who), Joins(starts, T, NewSpan),
           starts => T = NewTrace, ~starts => T \in TraceIds
    PROVE  Opened(T, up, who)
  <1>1. IF starts THEN T = NewTrace ELSE T \in TraceIds
    OBVIOUS
  <1>2. T \in TraceIds \cup {NewTrace}
    OBVIOUS
  <1>3. /\ SpanIds' = SpanIds \cup {NewSpan} /\ Len(spans') = NewSpan
        /\ \A S \in SpanIds : spans'[S] = spans[S] /\ opener'[S] = opener[S]
        /\ spans'[NewSpan] = [trace |-> T, parent |-> up, status |-> "running"]
        /\ opener' = Append(opener, who) /\ opener'[NewSpan] = who
        /\ IsSequence(spans') /\ IsSequence(opener') /\ Len(opener') = NewSpan
    BY OpensFacts
  <1> QED
    BY <1>1, <1>2, <1>3, JoinsFacts DEF Opened

\* What a context manager's __enter__ does. It opens a span, in the current
\* trace while that is active, and keeps the context it replaces.
Entered(t, T, up, kind, own) ==
    /\ Opened(T, up, t) /\ t \in Tasks
    /\ T \in TraceIds => /\ T = ctx[t].trace /\ traces[T].active /\ up = ctx[t].span
                         /\ own = None
    /\ T = NewTrace => own = T /\ (kind = "span" => up = ctx[t].span /\ ~Active(ctx[t].trace))
    /\ kind = "trace" => T = NewTrace /\ up = None
    /\ kind \in {"trace", "span"}
    /\ stack' = [u \in Tasks |-> stack'[u]] /\ \A u \in Tasks \ {t} : stack'[u] = stack[u]
    /\ stack'[t] = Append(stack[t], [kind |-> kind, own |-> own, span |-> NewSpan, saved |-> ctx[t]])
    /\ ctx' = [ctx EXCEPT ![t] = [trace |-> T, span |-> NewSpan]]
    /\ fresh' = fresh \ {t} /\ UNCHANGED <<runs, base, used>>

\* __enter__ of a trace's or a span's manager is a step of the kind Entered: it
\* opens a span, and the manager remembers the context it replaced.
LEMMA EnterFacts ==
    ASSUME Shape, NEW t \in Tasks, EnterTrace(t) \/ EnterSpan(t)
    PROVE  \E T, up, kind, own : Entered(t, T, up, kind, own)
  <1>1. /\ ctx \in [Tasks -> Context] /\ stack \in [Tasks -> Seq(Entry)]
        /\ ctx[t].trace \in {None} \cup TraceIds /\ ctx[t].span \in {None} \cup SpanIds
        /\ NewTrace \notin TraceIds /\ t \in Actors /\ None \notin TraceIds
    BY Types DEF Shape, Tables, Locals, Context, Actors
  <1>2. ASSUME EnterTrace(t)
        PROVE  Entered(t, NewTrace, None, "trace", NewTrace)
    <2>1. /\ OpensSpan(NewTrace, None, t) /\ Joins(TRUE, NewTrace, NewSpan)
          /\ Push(t, "trace", NewTrace, NewTrace, NewSpan) /\ Acts(t)
          /\ UNCHANGED <<runs, base, used>>
      BY <1>2 DEF EnterTrace
    <2>2. Opened(NewTrace, None, t)
      BY <1>1, <2>1, OpenedFacts
    <2> QED
      BY <1>1, <2>1, <2>2 DEF Entered, Push, Acts
  <1>3. ASSUME EnterSpan(t)
        PROVE  \E T, own : Entered(t, T, ctx[t].span, "span", own)
    <2> DEFINE auto == ~Active(ctx[t].trace)
               T == IF auto THEN NewTrace ELSE ctx[t].trace
    <2>1. /\ OpensSpan(T, ctx[t].span, t) /\ Joins(auto, T, NewSpan)
          /\ Push(t, "span", IF auto THEN T ELSE None, T, NewSpan) /\ Acts(t)
          /\ UNCHANGED <<runs, base, used>>
      BY <1>3 DEF EnterSpan
    <2>2. auto \in BOOLEAN /\ (IF auto THEN T = NewTrace ELSE T \in TraceIds)
      BY <1>1, Types DEF Active
    <2>3. Opened(T, ctx[t].span, t)
      <3> HIDE DEF T, auto
      <3>1. /\ OpensSpan(T, ctx[t].span, t) /\ Joins(auto, T, NewSpan)
        BY <2>1
      <3> QED
        BY <1>1, <2>2, <3>1, OpenedFacts
    <2>4. Entered(t, T, ctx[t].span, "span", IF auto THEN T ELSE None)
      BY <1>1, <2>1, <2>2, <2>3 DEF Entered, Push, Acts, Active
    <2> QED
      BY <2>4
  <1> QED
    BY <1>2, <1>3

\* What a callback that starts a run does: a span in the trace of its parent
\* run, else in the current trace, else in a trace of its own.
RanFrom(t, r, T, up) ==
    /\ Opened(T, up, r) /\ r \in Runs \ used /\ t \in Tasks
    /\ T \in TraceIds => \/ up # None /\ spans[up].trace = T
                         \/ T = ctx[t].trace /\ up = ctx[t].span
    /\ T = NewTrace => up = ctx[t].span /\ ctx[t].trace = None
    /\ runs' \in [Runs -> [span : {None} \cup SpanIds', root : BOOLEAN, chain : BOOLEAN]]
    /\ runs'[r].span = NewSpan /\ \A q \in Runs \ {r} : runs'[q] = runs[q]
    /\ used' = used \cup {r} /\ fresh' = fresh \ {t} /\ UNCHANGED <<ctx, stack, base>>

\* A callback that starts a run is a step of the kind RanFrom: it opens a span
\* below the parent run's, or where the task is.
LEMMA RunStartFacts ==
    ASSUME Shape, NEW t \in Tasks, NEW r \in Runs, NEW parent \in Runs \cup {None},
           ChainStart(t, r, parent) \/ LeafStart(t, r, parent)
    PROVE  \E T, up : RanFrom(t, r, T, up)
  <1>1. PICK chain \in BOOLEAN : RunStart(t, r, parent, chain)
    BY DEF ChainStart, LeafStart
  <1> DEFINE below == parent # None /\ runs[parent].span # None
             starts == ~below /\ ctx[t].trace = None
             T == IF below THEN spans[runs[parent].span].trace
                  ELSE IF starts THEN NewTrace ELSE ctx[t].trace
             up == IF below THEN runs[parent].span ELSE ctx[t].span
  <1>2. /\ r \notin used /\ OpensSpan(T, up, r)
        /\ IF starts \/ traces[T].kept THEN Joins(starts, T, NewSpan)
                                       ELSE UNCHANGED <<traces, exports, openThen, late>>
        /\ runs' = [runs EXCEPT ![r] = [span |-> NewSpan, root |-> parent = None, chain |-> chain]]
        /\ used' = used \cup {r} /\ Acts(t) /\ UNCHANGED <<ctx, stack, base>>
    BY <1>1 DEF RunStart
  <1>3. /\ ctx[t].trace \in {None} \cup TraceIds /\ ctx[t].span \in {None} \cup SpanIds
        /\ \A q \in Runs : runs[q].span \in {None} \cup SpanIds
        /\ runs \in [Runs -> [span : {None} \cup SpanIds, root : BOOLEAN, chain : BOOLEAN]]
        /\ \A S \in SpanIds : spans[S].trace \in TraceIds
        /\ NewTrace \notin TraceIds /\ r \in Actors /\ None \notin TraceIds
    BY Types DEF Shape, Tables, Locals, Context, Actors
  <1>4. /\ starts \in BOOLEAN /\ (IF starts THEN T = NewTrace ELSE T \in TraceIds)
        /\ up \in SpanIds \cup {None}
        /\ T \in TraceIds => \/ up # None /\ spans[up].trace = T
                             \/ T = ctx[t].trace /\ up = ctx[t].span
        /\ T = NewTrace => up = ctx[t].span /\ ctx[t].trace = None
    BY <1>3
  <1> HIDE DEF starts, T, up
  <1>5. Opened(T, up, r)
    <2>1. CASE starts \/ traces[T].kept
      BY <1>2, <1>3, <1>4, <2>1, OpenedFacts
    <2>2. CASE ~starts /\ UNCHANGED <<traces, exports, openThen, late>>
      <3>1. TraceIds' = TraceIds /\ T \in TraceIds
        BY <1>4, <2>2 DEF TraceIds
      <3>2. \A U \in TraceIds :
              traces[U] \in [status : Status, spans : SUBSET (SpanIds \cup {NewSpan}),
                             active : BOOLEAN, kept : BOOLEAN]
        BY Types
      <3>3. /\ Len(exports) = Len(traces) /\ Len(openThen) = Len(traces)
            /\ IsSequence(traces) /\ IsSequence(exports) /\ IsSequence(openThen)
        BY DEF Shape, Tables, Locals, IsSequence
      <3> QED
        BY <1>2, <1>3, <1>4, <2>2, <3>1, <3>2, <3>3, OpensFacts DEF Opened
    <2> QED
      BY <1>2, <2>1, <2>2
  <1>6. SpanIds' = SpanIds \cup {NewSpan}
    BY <1>5 DEF Opened
  <1> QED
    BY <1>2, <1>3, <1>4, <1>5, <1>6 DEF RanFrom, Acts

\* The span S0 is ended, and with T # None the trace T is handed over by who.
Closed(S0, T, who) ==
    /\ S0 \in SpanIds /\ T \in {None} \cup TraceIds /\ who \in Actors
    /\ SpanIds' = SpanIds /\ Len(spans') = Len(spans)
    /\ TraceIds' = TraceIds /\ Len(traces') = Len(traces)
    /\ Len(exports') = Len(traces) /\ Len(openThen') = Len(traces)
    /\ opener' = opener /\ late' = late
    /\ \A S \in SpanIds :
         /\ spans'[S] \in [trace : TraceIds, parent : Nat, status : Status]
         /\ spans'[S].trace = spans[S].trace /\ spans'[S].parent = spans[S].parent
         /\ spans'[S].status = "running" => S # S0 /\ spans[S].status = "running"
    /\ \A U \in TraceIds :
         /\ traces'[U] \in [status : Status, spans : SUBSET SpanIds,
                            active : BOOLEAN, kept : BOOLEAN]
         /\ traces'[U].spans = traces[U].spans
         /\ U # T => traces'[U] = traces[U] /\ exports'[U] = exports[U]
                     /\ openThen'[U] = openThen[U]
    /\ T # None =>
         /\ ~traces'[T].active /\ (traces'[T].kept => traces[T].kept)
         /\ exports'[T] = Append(exports[T], who)
         /\ openThen'[T] = {S \in traces[T].spans : spans'[S].status = "running"}
    /\ IsSequence(spans')
    /\ IsSequence(traces') /\ IsSequence(exports') /\ IsSequence(openThen')

\* Ending a span sets its status and nothing else, and leaves the other spans
\* alone.
LEMMA SpanEndFacts ==
    ASSUME Shape, NEW S0 \in SpanIds, NEW failed \in BOOLEAN, spans' = SpanEnd(S0, failed)
    PROVE  /\ SpanIds' = SpanIds /\ Len(spans') = Len(spans) /\ IsSequence(spans')
           /\ \A S \in SpanIds :
                /\ spans'[S] \in [trace : TraceIds, parent : Nat, status : Status]
                /\ spans'[S].trace = spans[S].trace /\ spans'[S].parent = spans[S].parent
                /\ spans'[S].status = "running" => S # S0 /\ spans[S].status = "running"
  <1> DEFINE X == [trace : TraceIds, parent : Nat, status : Status]
             e == [spans[S0] EXCEPT !.status = IF failed THEN "error"
                                               ELSE IF @ = "running" THEN "ok" ELSE @]
  <1>1. /\ SpanIds = DOMAIN spans /\ \A S \in SpanIds : spans[S] \in X
        /\ spans \in Seq(X) /\ Len(spans) \in Nat
    BY Types DEF Shape, Tables, Locals
  <1>2. spans' = [spans EXCEPT ![S0] = e]
    BY DEF SpanEnd
  <1>3. /\ e \in X /\ e.trace = spans[S0].trace /\ e.parent = spans[S0].parent
        /\ e.status # "running"
    BY <1>1 DEF Status
  <1> HIDE DEF X, e
  <1>4. Len(spans') = Len(spans) /\ IsSequence(spans')
    <2>1. spans' \in Seq(X) /\ Len(spans') = Len(spans)
      BY <1>1, <1>2, <1>3
    <2> QED
      BY <2>1 DEF IsSequence
  <1>5. SpanIds' = SpanIds
    BY <1>4 DEF SpanIds
  <1>6. spans'[S0] = e /\ \A S \in SpanIds \ {S0} : spans'[S] = spans[S]
    BY <1>1, <1>2
  <1>7. \A S \in SpanIds :
          /\ spans'[S] \in X
          /\ spans'[S].trace = spans[S].trace /\ spans'[S].parent = spans[S].parent
          /\ spans'[S].status = "running" => S # S0 /\ spans[S].status = "running"
    BY <1>1, <1>3, <1>6
  <1> QED
    BY <1>4, <1>5, <1>7 DEF X

\* Handing a trace over, with any values for what it leaves to the caller.
LEMMA ExportFacts ==
    ASSUME Shape, NEW T \in TraceIds, NEW who \in Actors, Exports(T, who),
           NEW status \in Status, NEW kept \in BOOLEAN,
           traces' = [traces EXCEPT ![T] = [@ EXCEPT !.status = status, !.active = FALSE,
                                                     !.kept = kept]]
    PROVE  /\ TraceIds' = TraceIds /\ Len(traces') = Len(traces)
           /\ Len(exports') = Len(traces) /\ Len(openThen') = Len(traces)
           /\ \A U \in TraceIds :
                /\ traces'[U] \in [status : Status, spans : SUBSET SpanIds,
                                   active : BOOLEAN, kept : BOOLEAN]
                /\ traces'[U].spans = traces[U].spans
                /\ U # T => traces'[U] = traces[U] /\ exports'[U] = exports[U]
                            /\ openThen'[U] = openThen[U]
           /\ ~traces'[T].active /\ traces'[T].kept = kept
           /\ exports'[T] = Append(exports[T], who)
           /\ openThen'[T] = {S \in traces[T].spans : spans'[S].status = "running"}
           /\ IsSequence(traces') /\ IsSequence(exports') /\ IsSequence(openThen')
  <1> DEFINE X == [status : Status, spans : SUBSET SpanIds, active : BOOLEAN, kept : BOOLEAN]
             Y == Seq(Actors)
             Z == SUBSET SpanIds
             e == [traces[T] EXCEPT !.status = status, !.active = FALSE, !.kept = kept]
             h == Append(exports[T], who)
             o == {S \in traces[T].spans : spans'[S].status = "running"}
  <1>1. /\ TraceIds = DOMAIN traces /\ TraceIds = DOMAIN exports /\ TraceIds = DOMAIN openThen
        /\ \A U \in TraceIds : traces[U] \in X /\ exports[U] \in Y
        /\ traces \in Seq(X) /\ exports \in Seq(Y) /\ openThen \in Seq(Z)
        /\ Len(exports) = Len(traces) /\ Len(openThen) = Len(traces) /\ Len(traces) \in Nat
    BY Types DEF Shape, Tables, Locals
  <1>2. /\ traces' = [traces EXCEPT ![T] = e] /\ exports' = [exports EXCEPT ![T] = h]
        /\ openThen' = [openThen EXCEPT ![T] = o]
    BY DEF Exports
  <1>3. /\ e \in X /\ e.spans = traces[T].spans /\ e.active = FALSE /\ e.kept = kept
        /\ o \in Z
    BY <1>1
  <1>4. h \in Y
    BY <1>1, AppendProperties
  <1> HIDE DEF X, Y, Z, e, h, o
  <1>5. /\ Len(traces') = Len(traces) /\ Len(exports') = Len(traces)
        /\ Len(openThen') = Len(traces)
        /\ IsSequence(traces') /\ IsSequence(exports') /\ IsSequence(openThen')
    <2>1. /\ Len(traces') = Len(traces) /\ Len(exports') = Len(traces)
          /\ Len(openThen') = Len(traces)
          /\ traces' \in Seq(X) /\ exports' \in Seq(Y) /\ openThen' \in Seq(Z)
      BY <1>1, <1>2, <1>3, <1>4
    <2> QED
      BY <2>1 DEF IsSequence
  <1>6. TraceIds' = TraceIds
    BY <1>5 DEF TraceIds
  <1>7. /\ traces'[T] = e /\ exports'[T] = h /\ openThen'[T] = o
        /\ \A U \in TraceIds \ {T} : traces'[U] = traces[U] /\ exports'[U] = exports[U]
                                     /\ openThen'[U] = openThen[U]
    BY <1>1, <1>2
  <1>8. \A U \in TraceIds : traces'[U] \in X /\ traces'[U].spans = traces[U].spans
    BY <1>1, <1>3, <1>7
  <1> QED
    BY <1>3, <1>5, <1>6, <1>7, <1>8 DEF X, h, o

\* What a context manager's __exit__ does: its span ends, then the trace it
\* owns is handed over, and the context it replaced is put back.
Left(t) ==
    /\ t \in Tasks /\ stack[t] # <<>> /\ Closed(Top(t).span, Top(t).own, t)
    /\ \A U \in TraceIds : traces'[U].kept = traces[U].kept
    /\ stack' = [u \in Tasks |-> stack'[u]] /\ \A u \in Tasks \ {t} : stack'[u] = stack[u]
    /\ stack'[t] \in Seq(Entry) /\ Len(stack'[t]) = Len(stack[t]) - 1
    /\ \A i \in 1..(Len(stack[t]) - 1) : stack'[t][i] = stack[t][i]
    /\ ctx' = [ctx EXCEPT ![t] = Top(t).saved] /\ UNCHANGED <<runs, base, fresh, used>>

\* A span that ends without its trace is a step of the kind Closed that hands
\* nothing over.
LEMMA UntouchedFacts ==
    ASSUME Shape, NEW S0 \in SpanIds, NEW failed \in BOOLEAN, NEW who \in Actors,
           spans' = SpanEnd(S0, failed), UNCHANGED <<opener, late, exports, openThen>>,
           traces' = traces
    PROVE  Closed(S0, None, who)
  <1>1. /\ TraceIds' = TraceIds /\ Len(exports) = Len(traces) /\ Len(openThen) = Len(traces)
        /\ IsSequence(traces) /\ IsSequence(exports) /\ IsSequence(openThen)
    BY DEF TraceIds, Shape, Tables, Locals, IsSequence
  <1>2. \A U \in TraceIds : traces[U] \in [status : Status, spans : SUBSET SpanIds,
                                           active : BOOLEAN, kept : BOOLEAN]
    BY Types
  <1> QED
    BY <1>1, <1>2, SpanEndFacts DEF Closed

\* A trace ends with a status.
LEMMA TraceEndType ==
    ASSUME Shape, NEW T \in TraceIds, NEW failed \in BOOLEAN
    PROVE  TraceEnd(T, failed) \in Status
  BY Types DEF TraceEnd, Status

\* A span that ends with its trace is a step of the kind Closed that hands the
\* trace over once.
LEMMA HandedFacts ==
    ASSUME Shape, NEW S0 \in SpanIds, NEW failed \in BOOLEAN, NEW who \in Actors,
           spans' = SpanEnd(S0, failed), UNCHANGED <<opener, late>>,
           NEW T \in TraceIds, Exports(T, who), NEW status \in Status, NEW kept \in BOOLEAN,
           kept => traces[T].kept,
           traces' = [traces EXCEPT ![T] = [@ EXCEPT !.status = status, !.active = FALSE,
                                                     !.kept = kept]]
    PROVE  Closed(S0, T, who) /\ traces'[T].kept = kept
  <1>1. /\ SpanIds' = SpanIds /\ Len(spans') = Len(spans) /\ IsSequence(spans')
        /\ \A S \in SpanIds :
             /\ spans'[S] \in [trace : TraceIds, parent : Nat, status : Status]
             /\ spans'[S].trace = spans[S].trace /\ spans'[S].parent = spans[S].parent
             /\ spans'[S].status = "running" => S # S0 /\ spans[S].status = "running"
    BY SpanEndFacts
  <1>2. /\ TraceIds' = TraceIds /\ Len(traces') = Len(traces)
        /\ Len(exports') = Len(traces) /\ Len(openThen') = Len(traces)
        /\ \A U \in TraceIds :
             /\ traces'[U] \in [status : Status, spans : SUBSET SpanIds,
                                active : BOOLEAN, kept : BOOLEAN]
             /\ traces'[U].spans = traces[U].spans
             /\ U # T => traces'[U] = traces[U] /\ exports'[U] = exports[U]
                         /\ openThen'[U] = openThen[U]
        /\ ~traces'[T].active /\ traces'[T].kept = kept
        /\ exports'[T] = Append(exports[T], who)
        /\ openThen'[T] = {S \in traces[T].spans : spans'[S].status = "running"}
        /\ IsSequence(traces') /\ IsSequence(exports') /\ IsSequence(openThen')
    BY ExportFacts, ZenonT(60)
  <1>3. opener' = opener /\ late' = late /\ T \in {None} \cup TraceIds
    OBVIOUS
  <1> QED
    BY <1>1, <1>2, <1>3 DEF Closed

\* __exit__ of a manager is a step of the kind Left: it ends the manager's
\* span, hands over the trace it owns, and puts the context back.
LEMMA LeaveFacts ==
    ASSUME Shape, NEW t \in Tasks, NEW failed \in BOOLEAN, Exit(t, failed)
    PROVE  Left(t)
  <1> DEFINE T == Top(t).own
             S0 == Top(t).span
             n == Len(stack[t])
  <1>1. /\ stack[t] # <<>> /\ stack \in [Tasks -> Seq(Entry)] /\ Top(t) \in Entry
        /\ n \in Nat \ {0} /\ t \in Actors /\ stack[t] \in Seq(Entry)
    BY Types DEF Exit, Leaves, Top, Shape, Tables, Locals, Actors
  <1>2. S0 \in SpanIds /\ T \in {None} \cup TraceIds
    BY <1>1 DEF Entry
  <1>3. /\ spans' = SpanEnd(S0, failed) /\ UNCHANGED <<opener, late>>
        /\ ctx' = [ctx EXCEPT ![t] = Top(t).saved] /\ UNCHANGED <<runs, base, fresh, used>>
        /\ stack' = [stack EXCEPT ![t] = Pop(t)]
    BY DEF Exit, Leaves
  <1>4. Closed(S0, T, t) /\ \A U \in TraceIds : traces'[U].kept = traces[U].kept
    <2>1. CASE T = None
      <3>1. UNCHANGED <<exports, openThen>> /\ traces' = traces
        BY <2>1 DEF Exit, Leaves
      <3> QED
        BY <1>1, <1>2, <1>3, <2>1, <3>1, UntouchedFacts
    <2>2. CASE T # None
      <3> DEFINE status == TraceEnd(T, failed)
                 kept == traces[T].kept
      <3>1. /\ traces' = [traces EXCEPT ![T].status = status, ![T].active = FALSE]
            /\ Exports(T, t) /\ T \in TraceIds
        BY <1>2, <2>2 DEF Exit, Leaves
      <3>2. status \in Status /\ kept \in BOOLEAN /\ T \in DOMAIN traces
        BY <3>1, Types, TraceEndType
      <3>3. traces' = [traces EXCEPT ![T] = [@ EXCEPT !.status = status, !.active = FALSE,
                                                      !.kept = kept]]
        <4>1. traces[T] \in [status : Status, spans : SUBSET SpanIds,
                             active : BOOLEAN, kept : BOOLEAN]
          BY <3>1, Types
        <4> HIDE DEF status
        <4>2. [traces[T] EXCEPT !.status = status, !.active = FALSE, !.kept = kept]
                = [traces[T] EXCEPT !.status = status, !.active = FALSE]
          BY <4>1
        <4> QED
          BY <3>1, <4>2
      <3> HIDE DEF status, kept
      <3>4. Closed(S0, T, t) /\ traces'[T].kept = kept
        <4>1. kept => traces[T].kept
          BY DEF kept
        <4>2. S0 \in SpanIds /\ t \in Actors /\ spans' = SpanEnd(S0, failed) /\ UNCHANGED <<opener, late>>
          BY <1>1, <1>2, <1>3
        <4> HIDE DEF T, S0
        <4> QED
          BY <3>1, <3>2, <3>3, <4>1, <4>2, HandedFacts, ZenonT(60)
      <3> QED
        BY <3>4 DEF Closed, kept
    <2> QED
      BY <2>1, <2>2
  <1>5. /\ stack'[t] \in Seq(Entry) /\ Len(stack'[t]) = n - 1
        /\ \A i \in 1..(n - 1) : stack'[t][i] = stack[t][i]
    <2>1. stack'[t] = SubSeq(stack[t], 1, n - 1)
      BY <1>1, <1>3 DEF Pop
    <2> DEFINE s == stack[t]
               m == n - 1
    <2>2. m \in Nat /\ \A i \in 1..m : s[i] \in Entry
      BY <1>1, Types
    <2> HIDE DEF Entry, s, m
    <2>3. /\ SubSeq(s, 1, m) \in Seq(Entry) /\ Len(SubSeq(s, 1, m)) = m
          /\ \A i \in 1..m : SubSeq(s, 1, m)[i] = s[i]
      BY <2>2, SubSeqProperties
    <2> QED
      BY <2>1, <2>3 DEF s, m
  <1>6. stack' = [u \in Tasks |-> stack'[u]] /\ \A u \in Tasks \ {t} : stack'[u] = stack[u]
    BY <1>1, <1>3
  <1> QED
    BY <1>1, <1>3, <1>4, <1>5, <1>6 DEF Left

\* What a callback that ends a run does. A chain without a parent hands its
\* trace over, unless that was done before.
Ended(r, T) ==
    /\ r \in Runs /\ runs[r].span # None /\ Closed(runs[r].span, T, r)
    /\ T # None => traces[T].kept /\ ~traces'[T].kept
    /\ runs' = [runs EXCEPT ![r] = NoRun]
    /\ UNCHANGED <<ctx, stack, base, fresh, used>>

\* A callback that ends a run is a step of the kind Ended: it ends the run's
\* span and hands over a trace that the handler keeps.
LEMMA EndFacts ==
    ASSUME Shape, ActiveUntilExported, HandOvers, NEW r \in Runs, NEW failed \in BOOLEAN,
           ChainEnd(r, failed) \/ LeafEnd(r, failed)
    PROVE  \E T : Ended(r, T)
  <1> DEFINE S0 == runs[r].span
             T == spans[S0].trace
  <1>1. S0 \in SpanIds /\ T \in TraceIds /\ T # None /\ r \in Actors
    <2>1. runs[r].span # None
      BY DEF ChainEnd, LeafEnd, RunEnd
    <2>2. S0 \in SpanIds
      BY <2>1 DEF Shape, Locals
    <2>3. T \in TraceIds
      BY <2>2, Types
    <2> QED
      BY <2>2, <2>3, Types DEF Actors
  <1>2. /\ runs[r].span # None /\ spans' = SpanEnd(S0, failed) /\ UNCHANGED <<opener, late>>
        /\ runs' = [runs EXCEPT ![r] = NoRun] /\ UNCHANGED <<ctx, stack, base, fresh, used>>
    BY DEF ChainEnd, LeafEnd, RunEnd
  <1>3. CASE UNCHANGED <<traces, exports, openThen>>
    <2>1. Closed(S0, None, r)
      BY <1>1, <1>2, <1>3, UntouchedFacts
    <2> QED
      BY <1>2, <2>1 DEF Ended
  <1>4. CASE EndTrace(T, r)
    <2>0. traces[T] \in [status : Status, spans : SUBSET SpanIds,
                         active : BOOLEAN, kept : BOOLEAN] /\ T \in DOMAIN traces
      BY <1>1, Types
    <2>1. CASE ~traces[T].kept
      <3>1. traces[T].active = FALSE /\ traces[T].kept = FALSE
        BY <1>1, <2>0, <2>1 DEF HandOvers, ActiveUntilExported
      <3>2. UNCHANGED <<exports, openThen>>
        BY <1>4, <2>1 DEF EndTrace
      <3>3. traces' = [traces EXCEPT ![T] = [@ EXCEPT !.active = FALSE, !.kept = FALSE]]
        BY <1>4, <2>0, <2>1 DEF EndTrace
      <3>4. [traces[T] EXCEPT !.active = FALSE, !.kept = FALSE] = traces[T]
        BY <2>0, <3>1
      <3>5. traces' = traces
        <4> HIDE DEF T
        <4> QED
          BY <2>0, <3>3, <3>4 DEF Shape, Tables, Locals
      <3> QED
        BY <1>3, <3>2, <3>5
    <2>2. CASE traces[T].kept
      <3> DEFINE status == TraceEnd(T, FALSE)
      <3>1. Exports(T, r) /\ status \in Status
        BY <1>1, <1>4, <2>2, TraceEndType DEF EndTrace
      <3>2. traces' = [traces EXCEPT ![T] = [@ EXCEPT !.status = status, !.active = FALSE,
                                                      !.kept = FALSE]]
        <4>1. traces' = [traces EXCEPT ![T].active = FALSE, ![T].kept = FALSE,
                                       ![T].status = status]
          BY <1>4, <2>2 DEF EndTrace
        <4> HIDE DEF status, T
        <4>2. [traces[T] EXCEPT !.status = status, !.active = FALSE, !.kept = FALSE]
                = [traces[T] EXCEPT !.active = FALSE, !.kept = FALSE, !.status = status]
          BY <2>0
        <4> QED
          BY <2>0, <4>1, <4>2
      <3>3. Closed(S0, T, r) /\ traces'[T].kept = FALSE
        <4> HIDE DEF T, S0, status
        <4> QED
          BY <1>1, <1>2, <3>1, <3>2, HandedFacts
      <3> QED
        BY <1>1, <1>2, <2>2, <3>3 DEF Ended
    <2> QED
      BY <2>1, <2>2
  <1> QED
    BY <1>3, <1>4 DEF ChainEnd, LeafEnd

\* A step, by kind.
LEMMA StepKinds ==
    ASSUME IndInv, [Next]_vars
    PROVE  \/ \E t \in Tasks : \E T, up, kind, own : Entered(t, T, up, kind, own)
           \/ \E t \in Tasks : Left(t)
           \/ \E t \in Tasks, u \in Tasks : Spawn(t, u)
           \/ \E t \in Tasks, r \in Runs : \E T, up : RanFrom(t, r, T, up)
           \/ \E r \in Runs : \E T : Ended(r, T)
           \/ UNCHANGED vars
  <1>1. Shape /\ ActiveUntilExported /\ HandOvers
    BY DEF IndInv
  <1>2. ASSUME NEW t \in Tasks, EnterTrace(t) \/ EnterSpan(t) \/ CallTraced(t)
        PROVE  \E T, up, kind, own : Entered(t, T, up, kind, own)
    BY <1>1, <1>2, EnterFacts DEF CallTraced
  <1>3. ASSUME NEW t \in Tasks, NEW failed \in BOOLEAN, Exit(t, failed)
        PROVE  Left(t)
    BY <1>1, <1>3, LeaveFacts
  <1>4. ASSUME NEW t \in Tasks, NEW r \in Runs, NEW parent \in Runs \cup {None},
               ChainStart(t, r, parent) \/ LeafStart(t, r, parent)
        PROVE  \E T, up : RanFrom(t, r, T, up)
    BY <1>1, <1>4, RunStartFacts
  <1>5. ASSUME NEW r \in Runs, NEW failed \in BOOLEAN, ChainEnd(r, failed) \/ LeafEnd(r, failed)
        PROVE  \E T : Ended(r, T)
    BY <1>1, <1>5, EndFacts
  <1> QED
    BY <1>2, <1>3, <1>4, <1>5 DEF Next

\* A step keeps what there is: the tree of the spans, who opened them, each
\* trace's root and the hand-overs so far.
Keeps ==
    /\ TraceIds \subseteq TraceIds' /\ SpanIds \subseteq SpanIds'
    /\ \A S \in SpanIds :
         /\ spans'[S].trace = spans[S].trace /\ spans'[S].parent = spans[S].parent
         /\ opener'[S] = opener[S]
         /\ spans'[S].status = "running" => spans[S].status = "running"
    /\ \A T \in TraceIds :
         /\ Root(T)' = Root(T) /\ Root(T) \in SpanIds
         /\ Root(T) \in traces'[T].spans /\ \A S \in traces'[T].spans : Root(T) <= S
         /\ \/ exports'[T] = exports[T]
            \/ \E who \in Actors : exports'[T] = Append(exports[T], who)
         /\ traces'[T].kept => traces[T].kept

\* Opening a span changes nothing of the spans and traces there are: a trace
\* keeps its root, as the new span is the last one.
LEMMA KeepsOpened ==
    ASSUME IndInv, NEW T, NEW up, NEW who, Opened(T, up, who)
    PROVE  Keeps
  <1>1. Shape /\ Rooted
    BY DEF IndInv
  <1>2. ASSUME NEW U \in TraceIds
        PROVE  /\ Root(U)' = Root(U) /\ Root(U) \in SpanIds
               /\ Root(U) \in traces'[U].spans /\ \A S \in traces'[U].spans : Root(U) <= S
    <2>1. /\ traces'[U].spans \subseteq traces[U].spans \cup {NewSpan}
          /\ traces[U].spans \subseteq traces'[U].spans
      BY DEF Opened
    <2>2. /\ Root(U) \in traces[U].spans /\ Root(U) \in SpanIds
          /\ \A S \in traces[U].spans : Root(U) <= S
      BY <1>1, RootIsFirst
    <2>3. /\ traces[U].spans \subseteq SpanIds /\ NewSpan \in Nat
          /\ \A S \in SpanIds : S \in Nat /\ S < NewSpan
      BY <1>1, Types DEF NewSpan
    <2>4. traces'[U].spans \subseteq Nat /\ \A S \in traces'[U].spans : Root(U) <= S
      BY <2>1, <2>2, <2>3
    <2>5. (CHOOSE Q \in traces'[U].spans : \A R \in traces'[U].spans : Q <= R) = Root(U)
      BY <2>1, <2>2, <2>4, FirstUnique
    <2> QED
      BY <2>1, <2>2, <2>4, <2>5 DEF Root
  <1> QED
    BY <1>2 DEF Opened, Keeps

\* Ending a span changes neither the tree of spans nor who opened them.
LEMMA KeepsClosed ==
    ASSUME IndInv, NEW S0, NEW T, NEW who, Closed(S0, T, who)
    PROVE  Keeps
  <1>1. Shape /\ Rooted
    BY DEF IndInv
  <1>2. ASSUME NEW U \in TraceIds
        PROVE  /\ Root(U)' = Root(U) /\ Root(U) \in SpanIds
               /\ Root(U) \in traces'[U].spans /\ \A S \in traces'[U].spans : Root(U) <= S
    <2>1. traces'[U].spans = traces[U].spans
      BY DEF Closed
    <2> QED
      BY <1>1, <2>1, RootIsFirst DEF Root
  <1>3. ASSUME NEW U \in TraceIds
        PROVE  /\ traces'[U].kept => traces[U].kept
               /\ \/ exports'[U] = exports[U]
                  \/ \E a \in Actors : exports'[U] = Append(exports[U], a)
    <2>1. U # None
      BY <1>1, Types
    <2>2. CASE U # T
      BY <2>2 DEF Closed
    <2>3. CASE U = T
      BY <2>1, <2>3 DEF Closed
    <2> QED
      BY <2>2, <2>3
  <1>4. /\ TraceIds \subseteq TraceIds' /\ SpanIds \subseteq SpanIds'
        /\ \A S \in SpanIds :
             /\ spans'[S].trace = spans[S].trace /\ spans'[S].parent = spans[S].parent
             /\ opener'[S] = opener[S]
             /\ spans'[S].status = "running" => spans[S].status = "running"
    BY DEF Closed
  <1> QED
    BY <1>2, <1>3, <1>4 DEF Keeps

\* A step that leaves the tables alone keeps all of it.
LEMMA KeepsStill ==
    ASSUME IndInv, UNCHANGED <<traces, spans, opener, exports>>
    PROVE  Keeps
  <1>1. \A T \in TraceIds : /\ Root(T) \in SpanIds /\ Root(T) \in traces[T].spans
                            /\ \A S \in traces[T].spans : Root(T) <= S
    BY RootIsFirst DEF IndInv
  <1> QED
    BY <1>1 DEF Keeps, TraceIds, SpanIds, Root

\* Every step keeps the tree of spans, who opened them, the roots of the
\* traces, and the hand-overs so far.
LEMMA StepKeeps == IndInv /\ [Next]_vars => Keeps
  <1> SUFFICES ASSUME IndInv, [Next]_vars
               PROVE  Keeps
    OBVIOUS
  <1>1. ASSUME NEW t \in Tasks, NEW u \in Tasks, Spawn(t, u)
        PROVE  UNCHANGED <<traces, spans, opener, exports>>
    BY <1>1 DEF Spawn, store, log
  <1>2. UNCHANGED vars => UNCHANGED <<traces, spans, opener, exports>>
    BY DEF vars, store, log
  <1>3. ASSUME NEW t \in Tasks, NEW T, NEW up, NEW kind, NEW own, Entered(t, T, up, kind, own)
        PROVE  Keeps
    BY <1>3, KeepsOpened DEF Entered
  <1>4. ASSUME NEW t \in Tasks, Left(t)
        PROVE  Keeps
    BY <1>4, KeepsClosed DEF Left
  <1>5. ASSUME NEW t \in Tasks, NEW r \in Runs, NEW T, NEW up, RanFrom(t, r, T, up)
        PROVE  Keeps
    BY <1>5, KeepsOpened DEF RanFrom
  <1>6. ASSUME NEW r \in Runs, NEW T, Ended(r, T)
        PROVE  Keeps
    BY <1>6, KeepsClosed DEF Ended
  <1> QED
    BY <1>1, <1>2, <1>3, <1>4, <1>5, <1>6, StepKinds, KeepsStill

\* A hand-over that was by another than the root's opener stays one.
LEMMA CutShortStays ==
    ASSUME IndInv, Keeps, NEW T \in TraceIds, CutShort(T)
    PROVE  CutShort(T)'
  <1>1. PICK k \in DOMAIN exports[T] : exports[T][k] \in Runs /\ exports[T][k] # opener[Root(T)]
    BY DEF CutShort
  <1>2. exports[T] \in Seq(Actors)
    BY Types DEF IndInv
  <1>3. k \in DOMAIN exports'[T] /\ exports'[T][k] = exports[T][k]
    BY <1>1, <1>2, Appended DEF Keeps
  <1>4. opener'[Root(T)'] = opener[Root(T)]
    BY DEF Keeps
  <1> QED
    BY <1>1, <1>3, <1>4 DEF CutShort

-----------------------------------------------------------------------------
(* Every step preserves the types.                                         *)

\* The shape implies the type invariant.
LEMMA TypesOfShape == Shape => TypeOK
  <1> SUFFICES ASSUME Shape
               PROVE  TypeOK
    OBVIOUS
  <1>1. \A S \in SpanIds :
          /\ spans[S].trace \in TraceIds /\ spans[S].status \in {"running", "ok", "error"}
          /\ spans[S].parent \in 0..(S - 1)
    <2>1. \A S \in SpanIds : S \in Nat /\ spans[S].parent \in Nat /\ spans[S].parent < S
      BY Types DEF Shape, Tables
    <2>2. \A S \in SpanIds : spans[S].parent \in 0..(S - 1)
      BY <2>1
    <2> QED
      BY <2>2, Types DEF Status
  <1>2. \A T \in TraceIds :
          /\ traces[T].status \in {"running", "ok", "error"}
          /\ traces[T].spans \subseteq SpanIds
          /\ traces[T].active \in BOOLEAN /\ traces[T].kept \in BOOLEAN
    BY Types DEF Status
  <1>3. \A t \in Tasks : \A i \in DOMAIN stack[t] :
          stack[t][i].span \in SpanIds /\ stack[t][i].own \in {None} \cup TraceIds
    BY Types DEF Entry
  <1>4. /\ ctx \in [Tasks -> [trace : {None} \cup TraceIds, span : {None} \cup SpanIds]]
        /\ Len(exports) = Len(traces) /\ Len(opener) = Len(spans)
    BY DEF Shape, Tables, Locals, Context
  <1> QED
    BY <1>1, <1>2, <1>3, <1>4 DEF TypeOK

\* Opening a span preserves the shape of the tables.
LEMMA TablesOpened ==
    ASSUME Shape, NEW T, NEW up, NEW who, Opened(T, up, who)
    PROVE  Tables'
  <1>1. /\ Len(traces) \in Nat /\ Len(spans) \in Nat
        /\ Len(spans') = NewSpan /\ Len(opener') = NewSpan
        /\ SpanIds' = SpanIds \cup {NewSpan} /\ TraceIds' = TraceIds \cup {T}
        /\ SpanIds' = 1..Len(spans') /\ TraceIds' = 1..Len(traces')
        /\ Len(traces') = Len(exports') /\ Len(traces') = Len(openThen')
    BY Types DEF Opened, SpanIds, TraceIds
  <1>2. \A U \in TraceIds' :
          /\ traces'[U] \in [status : Status, spans : SUBSET (SpanIds \cup {NewSpan}),
                             active : BOOLEAN, kept : BOOLEAN]
          /\ exports'[U] \in Seq(Actors) /\ openThen'[U] \in SUBSET (SpanIds \cup {NewSpan})
    <2>1. ASSUME NEW U \in TraceIds
          PROVE  /\ traces'[U] \in [status : Status, spans : SUBSET (SpanIds \cup {NewSpan}),
                                    active : BOOLEAN, kept : BOOLEAN]
                 /\ exports'[U] \in Seq(Actors) /\ openThen'[U] \in SUBSET (SpanIds \cup {NewSpan})
      BY <2>1, Types DEF Opened
    <2>2. T = NewTrace =>
             /\ traces'[T] \in [status : Status, spans : SUBSET (SpanIds \cup {NewSpan}),
                                active : BOOLEAN, kept : BOOLEAN]
             /\ exports'[T] \in Seq(Actors) /\ openThen'[T] \in SUBSET (SpanIds \cup {NewSpan})
      <3> SUFFICES ASSUME T = NewTrace
                   PROVE  /\ traces'[T] \in [status : Status, spans : SUBSET (SpanIds \cup {NewSpan}),
                                             active : BOOLEAN, kept : BOOLEAN]
                          /\ exports'[T] \in Seq(Actors)
                          /\ openThen'[T] \in SUBSET (SpanIds \cup {NewSpan})
        OBVIOUS
      <3>1. /\ traces'[T] = [status |-> "running", spans |-> {NewSpan},
                             active |-> TRUE, kept |-> TRUE]
            /\ exports'[T] = <<>> /\ openThen'[T] = {}
        BY DEF Opened
      <3>2. <<>> \in Seq(Actors)
        OBVIOUS
      <3>3. "running" \in Status
        BY DEF Status
      <3> QED
        BY <3>1, <3>2, <3>3
    <2> QED
      BY <1>1, <2>1, <2>2 DEF Opened
  <1>3. \A S \in SpanIds' :
          /\ spans'[S] \in [trace : TraceIds', parent : Nat, status : Status]
          /\ spans'[S].parent < S /\ opener'[S] \in Actors
    <2>1. ASSUME NEW S \in SpanIds
          PROVE  /\ spans'[S] \in [trace : TraceIds', parent : Nat, status : Status]
                 /\ spans'[S].parent < S /\ opener'[S] \in Actors
      BY <1>1, <2>1, Types DEF Opened, Shape, Tables
    <2>2. up \in Nat /\ up < NewSpan
      BY <1>1, Types DEF Opened, None, NewSpan
    <2>3. /\ spans'[NewSpan] \in [trace : TraceIds', parent : Nat, status : Status]
          /\ spans'[NewSpan].parent < NewSpan /\ opener'[NewSpan] \in Actors
      BY <1>1, <2>2 DEF Opened, Status
    <2> QED
      BY <1>1, <2>1, <2>3
  <1>4. late' \subseteq SpanIds'
    BY <1>1 DEF Opened, Shape, Tables
  <1>5. /\ IsSequence(spans') /\ IsSequence(opener')
        /\ IsSequence(traces') /\ IsSequence(exports') /\ IsSequence(openThen')
    BY DEF Opened
  <1>6. traces' \in Seq([status : Status, spans : SUBSET (SpanIds \cup {NewSpan}),
                         active : BOOLEAN, kept : BOOLEAN])
    BY <1>1, <1>2, <1>5, SeqOfElements
  <1>7. exports' \in Seq(Seq(Actors)) /\ openThen' \in Seq(SUBSET (SpanIds \cup {NewSpan}))
    <2> DEFINE Y == Seq(Actors)
               Z == SUBSET (SpanIds \cup {NewSpan})
    <2>1. /\ \A i \in 1..Len(exports') : exports'[i] \in Y
          /\ \A i \in 1..Len(openThen') : openThen'[i] \in Z
      BY <1>1, <1>2
    <2> HIDE DEF Y, Z
    <2>2. exports' \in Seq(Y) /\ openThen' \in Seq(Z)
      BY <1>5, <2>1, SeqOfElements
    <2> QED
      BY <2>2 DEF Y, Z
  <1>8. spans' \in Seq([trace : TraceIds', parent : Nat, status : Status])
    BY <1>1, <1>3, <1>5, SeqOfElements
  <1>9. opener' \in Seq(Actors)
    BY <1>1, <1>3, <1>5, SeqOfElements
  <1> QED
    BY <1>1, <1>3, <1>4, <1>6, <1>7, <1>8, <1>9 DEF Tables

\* Ending a span preserves the shape of the tables.
LEMMA TablesClosed ==
    ASSUME Shape, NEW S0, NEW T, NEW who, Closed(S0, T, who)
    PROVE  Tables'
  <1>1. /\ Len(traces) \in Nat /\ Len(spans) \in Nat
        /\ SpanIds' = SpanIds /\ TraceIds' = TraceIds
        /\ SpanIds = 1..Len(spans') /\ TraceIds = 1..Len(traces')
        /\ Len(traces') = Len(exports') /\ Len(traces') = Len(openThen')
        /\ opener' = opener /\ late' = late /\ Len(spans') = Len(spans)
    BY Types DEF Closed, SpanIds, TraceIds
  <1>2. ASSUME NEW U \in TraceIds
        PROVE  /\ traces'[U] \in [status : Status, spans : SUBSET SpanIds,
                                  active : BOOLEAN, kept : BOOLEAN]
               /\ exports'[U] \in Seq(Actors) /\ openThen'[U] \in SUBSET SpanIds
    <2>1. traces'[U] \in [status : Status, spans : SUBSET SpanIds,
                          active : BOOLEAN, kept : BOOLEAN]
      BY DEF Closed
    <2>2. /\ exports[U] \in Seq(Actors) /\ openThen[U] \in SUBSET SpanIds
          /\ traces[U].spans \subseteq SpanIds /\ U # None
      BY Types
    <2>3. CASE U # T
      BY <2>1, <2>2, <2>3 DEF Closed
    <2>4. CASE U = T
      <3>1. who \in Actors /\ exports'[U] = Append(exports[U], who)
            /\ openThen'[U] = {S \in traces[U].spans : spans'[S].status = "running"}
        BY <2>2, <2>4 DEF Closed
      <3> QED
        BY <2>1, <2>2, <3>1, AppendProperties
    <2> QED
      BY <2>3, <2>4
  <1>3. \A S \in SpanIds :
          /\ spans'[S] \in [trace : TraceIds, parent : Nat, status : Status]
          /\ spans'[S].parent < S
    BY DEF Closed, Shape, Tables
  <1>4. late' \subseteq SpanIds' /\ opener' \in Seq(Actors) /\ Len(opener') = Len(spans')
    BY <1>1 DEF Shape, Tables
  <1>5. /\ IsSequence(spans')
        /\ IsSequence(traces') /\ IsSequence(exports') /\ IsSequence(openThen')
    BY DEF Closed
  <1>6. traces' \in Seq([status : Status, spans : SUBSET SpanIds,
                         active : BOOLEAN, kept : BOOLEAN])
    BY <1>1, <1>2, <1>5, SeqOfElements
  <1>7. exports' \in Seq(Seq(Actors)) /\ openThen' \in Seq(SUBSET SpanIds)
    <2> DEFINE Y == Seq(Actors)
               Z == SUBSET SpanIds
    <2>1. /\ \A i \in 1..Len(exports') : exports'[i] \in Y
          /\ \A i \in 1..Len(openThen') : openThen'[i] \in Z
      BY <1>1, <1>2
    <2> HIDE DEF Y, Z
    <2>2. exports' \in Seq(Y) /\ openThen' \in Seq(Z)
      BY <1>5, <2>1, SeqOfElements
    <2> QED
      BY <2>2 DEF Y, Z
  <1>8. spans' \in Seq([trace : TraceIds, parent : Nat, status : Status])
    BY <1>1, <1>3, <1>5, SeqOfElements
  <1> QED
    BY <1>1, <1>3, <1>4, <1>6, <1>7, <1>8 DEF Tables

\* Contexts and entries of managers stay what they are.
LEMMA LocalTypesGrow ==
    ASSUME Keeps
    PROVE  /\ Context \subseteq Context' /\ Entry \subseteq Entry'
           /\ Seq(Entry) \subseteq Seq(Entry')
  <1>1. TraceIds \subseteq TraceIds' /\ SpanIds \subseteq SpanIds'
    BY DEF Keeps
  <1>2. Context \subseteq Context'
    BY <1>1 DEF Context
  <1>3. Entry \subseteq Entry'
    BY <1>1, <1>2 DEF Entry
  <1> HIDE DEF Entry
  <1> QED
    BY <1>2, <1>3, SeqMonotonic

\* Tasks and runs keep their types when a manager is entered, ...
LEMMA LocalsEntered ==
    ASSUME Shape, Keeps, NEW t \in Tasks, NEW T, NEW up, NEW kind, NEW own,
           Entered(t, T, up, kind, own)
    PROVE  Locals'
  <1>1. /\ SpanIds' = SpanIds \cup {NewSpan} /\ TraceIds' = TraceIds \cup {T}
        /\ T \in TraceIds \cup {NewTrace}
    BY DEF Entered, Opened
  <1>2. /\ ctx \in [Tasks -> Context] /\ base \in [Tasks -> Context]
        /\ stack \in [Tasks -> Seq(Entry)] /\ fresh \subseteq Tasks /\ used \subseteq Runs
        /\ runs \in [Runs -> [span : {None} \cup SpanIds, root : BOOLEAN, chain : BOOLEAN]]
    BY DEF Shape, Locals
  <1>3. ctx' \in [Tasks -> Context'] /\ base' \in [Tasks -> Context']
    <2>1. [trace |-> T, span |-> NewSpan] \in Context'
      BY <1>1 DEF Context
    <2> HIDE DEF Context
    <2> QED
      BY <1>2, <2>1, LocalTypesGrow DEF Entered
  <1>4. stack' \in [Tasks -> Seq(Entry')]
    <2> DEFINE e == [kind |-> kind, own |-> own, span |-> NewSpan, saved |-> ctx[t]]
    <2>1. e \in Entry'
      <3>1. kind \in {"trace", "span"} /\ own \in {None} \cup TraceIds'
        BY <1>1 DEF Entered
      <3>2. ctx[t] \in Context'
        BY <1>2, LocalTypesGrow
      <3> HIDE DEF Context
      <3> QED
        BY <1>1, <3>1, <3>2 DEF Entry
    <2>2. stack'[t] = Append(stack[t], e)
      BY DEF Entered
    <2> HIDE DEF e, Entry
    <2>3. \A u \in Tasks : stack[u] \in Seq(Entry')
      BY <1>2, LocalTypesGrow
    <2>4. stack'[t] \in Seq(Entry')
      BY <2>1, <2>2, <2>3, AppendProperties
    <2>5. /\ stack' = [u \in Tasks |-> stack'[u]]
          /\ \A u \in Tasks \ {t} : stack'[u] = stack[u]
      BY DEF Entered
    <2>6. \A u \in Tasks : stack'[u] \in Seq(Entry')
      BY <2>3, <2>4, <2>5
    <2> QED
      BY <2>5, <2>6
  <1>5. /\ runs' \in [Runs -> [span : {None} \cup SpanIds', root : BOOLEAN, chain : BOOLEAN]]
        /\ fresh' \subseteq Tasks /\ used' \subseteq Runs
    BY <1>1, <1>2 DEF Entered
  <1> QED
    BY <1>3, <1>4, <1>5 DEF Locals

\* ... when one is left, ...
LEMMA LocalsLeft ==
    ASSUME Shape, Keeps, NEW t \in Tasks, Left(t)
    PROVE  Locals'
  <1>1. /\ ctx \in [Tasks -> Context] /\ base \in [Tasks -> Context]
        /\ stack \in [Tasks -> Seq(Entry)] /\ fresh \subseteq Tasks /\ used \subseteq Runs
        /\ runs \in [Runs -> [span : {None} \cup SpanIds, root : BOOLEAN, chain : BOOLEAN]]
    BY DEF Shape, Locals
  <1>2. SpanIds' = SpanIds /\ stack[t] # <<>>
    BY DEF Left, Closed
  <1>3. Top(t).saved \in Context
    BY <1>2, Types DEF Top, Entry
  <1>4. ctx' \in [Tasks -> Context'] /\ base' \in [Tasks -> Context']
    <2> HIDE DEF Context
    <2> QED
      BY <1>1, <1>3, LocalTypesGrow DEF Left
  <1>5. stack' \in [Tasks -> Seq(Entry')]
    <2> HIDE DEF Entry
    <2>1. /\ stack' = [u \in Tasks |-> stack'[u]] /\ stack'[t] \in Seq(Entry)
          /\ \A u \in Tasks \ {t} : stack'[u] = stack[u]
      BY DEF Left
    <2>2. \A u \in Tasks : stack'[u] \in Seq(Entry')
      BY <1>1, <2>1, LocalTypesGrow
    <2> QED
      BY <2>1, <2>2
  <1>6. /\ runs' \in [Runs -> [span : {None} \cup SpanIds', root : BOOLEAN, chain : BOOLEAN]]
        /\ fresh' \subseteq Tasks /\ used' \subseteq Runs
    BY <1>1, <1>2 DEF Left
  <1> QED
    BY <1>4, <1>5, <1>6 DEF Locals

\* ... and when a task or a run starts or a run ends.
LEMMA LocalsElse ==
    ASSUME Shape, Keeps, stack' = stack,
           \/ \E t \in Tasks, u \in Tasks : Spawn(t, u)
           \/ \E t \in Tasks, r \in Runs : \E T, up : RanFrom(t, r, T, up)
           \/ \E r \in Runs : \E T : Ended(r, T)
           \/ UNCHANGED vars
    PROVE  Locals'
  <1> DEFINE Run == [span : {None} \cup SpanIds, root : BOOLEAN, chain : BOOLEAN]
  <1>1. /\ ctx \in [Tasks -> Context] /\ base \in [Tasks -> Context]
        /\ stack \in [Tasks -> Seq(Entry)] /\ fresh \subseteq Tasks /\ used \subseteq Runs
        /\ runs \in [Runs -> Run]
    BY DEF Shape, Locals
  <1>2. NoRun \in Run /\ Run \subseteq Run'
    <2>1. SpanIds \subseteq SpanIds'
      BY DEF Keeps
    <2> QED
      BY <2>1 DEF NoRun
  <1>3. stack' \in [Tasks -> Seq(Entry')]
    <2> HIDE DEF Entry
    <2> QED
      BY <1>1, LocalTypesGrow
  <1>4. /\ ctx' \in [Tasks -> Context'] /\ base' \in [Tasks -> Context']
        /\ fresh' \subseteq Tasks /\ used' \subseteq Runs /\ runs' \in [Runs -> Run']
    <2>1. ASSUME NEW t \in Tasks, NEW r \in Runs, NEW T, NEW up, RanFrom(t, r, T, up)
          PROVE  /\ UNCHANGED <<ctx, base>>
                 /\ fresh' \subseteq Tasks /\ used' \subseteq Runs /\ runs' \in [Runs -> Run']
      BY <1>1, <2>1 DEF RanFrom
    <2> HIDE DEF Context, Run
    <2>2. ASSUME NEW t \in Tasks, NEW u \in Tasks, Spawn(t, u)
          PROVE  /\ ctx' \in [Tasks -> Context] /\ base' \in [Tasks -> Context]
                 /\ fresh' \subseteq Tasks /\ UNCHANGED <<runs, used>>
      BY <1>1, <2>2 DEF Spawn, Acts
    <2>3. ASSUME NEW r \in Runs, NEW T, Ended(r, T)
          PROVE  UNCHANGED <<ctx, base, fresh, used>> /\ runs' \in [Runs -> Run]
      BY <1>1, <1>2, <2>3 DEF Ended
    <2>4. UNCHANGED vars => UNCHANGED <<ctx, base, fresh, used, runs>>
      BY DEF vars
    <2> QED
      BY <1>1, <1>2, <2>1, <2>2, <2>3, <2>4, LocalTypesGrow
  <1> QED
    BY <1>3, <1>4 DEF Locals

\* Every step preserves the shape.
LEMMA ShapeStep == IndInv /\ [Next]_vars => Shape'
  <1> SUFFICES ASSUME IndInv, [Next]_vars
               PROVE  Shape'
    OBVIOUS
  <1>1. Shape /\ Keeps
    BY StepKeeps DEF IndInv
  <1>2. ASSUME NEW t \in Tasks, NEW T, NEW up, NEW kind, NEW own, Entered(t, T, up, kind, own)
        PROVE  Shape'
    BY <1>1, <1>2, LocalsEntered, TablesOpened DEF Shape, Entered
  <1>3. ASSUME NEW t \in Tasks, Left(t)
        PROVE  Shape'
    BY <1>1, <1>3, LocalsLeft, TablesClosed DEF Shape, Left
  <1>4. ASSUME NEW t \in Tasks, NEW r \in Runs, NEW T, NEW up, RanFrom(t, r, T, up)
        PROVE  Shape'
    BY <1>1, <1>4, LocalsElse, TablesOpened DEF Shape, RanFrom
  <1>5. ASSUME NEW r \in Runs, NEW T, Ended(r, T)
        PROVE  Shape'
    BY <1>1, <1>5, LocalsElse, TablesClosed DEF Shape, Ended
  <1>6. CASE UNCHANGED vars \/ \E t \in Tasks, u \in Tasks : Spawn(t, u)
    <2>1. UNCHANGED <<store, log, stack>>
      BY <1>6 DEF vars, Spawn
    <2>2. Tables'
      BY <1>1, <2>1 DEF Shape, Tables, store, log, TraceIds, SpanIds
    <2> QED
      BY <1>1, <1>6, <2>1, <2>2, LocalsElse DEF Shape
  <1> QED
    BY <1>2, <1>3, <1>4, <1>5, <1>6, StepKinds

-----------------------------------------------------------------------------
(* Every step preserves the rest of the invariant.                         *)

\* The span opened with a trace is the trace's root.
LEMMA NewRoot ==
    ASSUME NEW T, NEW up, NEW who, Opened(T, up, who), T = NewTrace
    PROVE  Root(T)' = NewSpan
  <1>1. traces'[T].spans = {NewSpan}
    BY DEF Opened
  <1>2. SpanIds' = 1..Len(spans') /\ NewSpan \in SpanIds'
    BY DEF Opened, SpanIds
  <1>3. NewSpan \in Int /\ NewSpan <= NewSpan
    BY <1>2
  <1>4. (CHOOSE S \in {NewSpan} : \A R \in {NewSpan} : S <= R) = NewSpan
    BY <1>3
  <1> QED
    BY <1>1, <1>4 DEF Root

\* The managers of the tasks when one is entered, ...
LEMMA EnteredStack ==
    ASSUME Shape, NEW t \in Tasks, NEW T, NEW up, NEW kind, NEW own,
           Entered(t, T, up, kind, own)
    PROVE  /\ Len(stack[t]) \in Nat /\ Len(stack'[t]) = Len(stack[t]) + 1
           /\ DOMAIN stack[t] = 1..Len(stack[t]) /\ DOMAIN stack'[t] = 1..(Len(stack[t]) + 1)
           /\ \A i \in DOMAIN stack[t] : stack'[t][i] = stack[t][i]
           /\ LET top == stack'[t][Len(stack[t]) + 1] IN
              top.kind = kind /\ top.own = own /\ top.span = NewSpan /\ top.saved = ctx[t]
           /\ stack'[t] # <<>> /\ \A u \in Tasks \ {t} : stack'[u] = stack[u]
  <1> DEFINE e == [kind |-> kind, own |-> own, span |-> NewSpan, saved |-> ctx[t]]
  <1>1. stack[t] \in Seq(Entry)
    BY DEF Shape, Locals
  <1>2. stack'[t] = Append(stack[t], e) /\ \A u \in Tasks \ {t} : stack'[u] = stack[u]
    BY DEF Entered
  <1> HIDE DEF e, Entry
  <1>3. /\ Len(stack[t]) \in Nat /\ DOMAIN stack[t] = 1..Len(stack[t])
        /\ Len(stack'[t]) = Len(stack[t]) + 1 /\ DOMAIN stack'[t] = 1..(Len(stack[t]) + 1)
        /\ \A i \in 1..Len(stack[t]) : stack'[t][i] = stack[t][i]
        /\ stack'[t][Len(stack[t]) + 1] = e
    BY <1>1, <1>2, Appended
  <1>4. stack'[t] # <<>>
    BY <1>3
  <1> QED
    BY <1>2, <1>3, <1>4 DEF e

\* ... and when one is left.
LEMMA LeftStack ==
    ASSUME Shape, NEW t \in Tasks, Left(t)
    PROVE  /\ Len(stack[t]) \in Nat \ {0} /\ DOMAIN stack[t] = 1..Len(stack[t])
           /\ Top(t) = stack[t][Len(stack[t])] /\ Len(stack[t]) \in DOMAIN stack[t]
           /\ Len(stack'[t]) = Len(stack[t]) - 1 /\ DOMAIN stack'[t] = 1..(Len(stack[t]) - 1)
           /\ (stack'[t] = <<>> <=> Len(stack[t]) = 1)
           /\ \A u \in Tasks \ {t} : stack'[u] = stack[u]
           /\ \A u \in Tasks : /\ DOMAIN stack'[u] \subseteq DOMAIN stack[u]
                               /\ \A i \in DOMAIN stack'[u] : stack'[u][i] = stack[u][i]
  <1>1. /\ Len(stack[t]) \in Nat /\ DOMAIN stack[t] = 1..Len(stack[t])
        /\ Len(stack[t]) \in 1..Len(stack[t])
    BY Types DEF Left
  <1>2. /\ stack'[t] \in Seq(Entry) /\ Len(stack'[t]) = Len(stack[t]) - 1
        /\ \A i \in 1..(Len(stack[t]) - 1) : stack'[t][i] = stack[t][i]
        /\ \A u \in Tasks \ {t} : stack'[u] = stack[u]
    BY DEF Left
  <1>3. /\ DOMAIN stack'[t] = 1..(Len(stack[t]) - 1)
        /\ (stack'[t] = <<>> <=> Len(stack[t]) = 1)
    <2> DEFINE n == Len(stack[t])
               s == stack'[t]
    <2>1. n \in Nat /\ n \in 1..n /\ s \in Seq(Entry) /\ Len(s) = n - 1
      BY <1>1, <1>2
    <2> HIDE DEF Entry, n, s
    <2>2. DOMAIN s = 1..(n - 1) /\ (s = <<>> <=> n = 1)
      BY <2>1
    <2> QED
      BY <2>2 DEF n, s
  <1> QED
    BY <1>1, <1>2, <1>3 DEF Top

\* What Consistent says of a context, of the spans after the step.
ConsistentNext(c) == IF c.span = None THEN c.trace = None ELSE spans'[c.span].trace = c.trace

\* A trace is made with a span, and loses none: it always has a first one.
LEMMA RootedStep == IndInv /\ [Next]_vars => Rooted'
  <1> SUFFICES ASSUME IndInv, [Next]_vars
               PROVE  Rooted'
    OBVIOUS
  <1>1. Keeps
    BY StepKeeps
  <1>2. ASSUME NEW T, NEW up, NEW who, Opened(T, up, who)
        PROVE  Rooted'
    <2>1. ASSUME NEW U \in TraceIds'
          PROVE  \E S \in traces'[U].spans : \A R \in traces'[U].spans : S <= R
      <3>1. CASE U \in TraceIds
        BY <1>1, <3>1 DEF Keeps
      <3>2. CASE U = NewTrace /\ T = NewTrace
        <4>1. traces'[U].spans = {NewSpan}
          BY <1>2, <3>2 DEF Opened
        <4>2. NewSpan \in Nat
          BY Types DEF IndInv, NewSpan
        <4> QED
          BY <4>1, <4>2
      <3> QED
        BY <1>2, <3>1, <3>2 DEF Opened
    <2> QED
      BY <2>1 DEF Rooted
  <1>3. TraceIds' = TraceIds => Rooted'
    BY <1>1 DEF Rooted, Keeps
  <1>4. UNCHANGED vars \/ (\E t \in Tasks, u \in Tasks : Spawn(t, u)) => TraceIds' = TraceIds
    BY DEF vars, Spawn, store, TraceIds
  <1>5. \A t, T, up, kind, own : Entered(t, T, up, kind, own) => Opened(T, up, t)
    BY DEF Entered
  <1>6. \A t, r, T, up : RanFrom(t, r, T, up) => Opened(T, up, r)
    BY DEF RanFrom
  <1>7. /\ \A t : Left(t) => TraceIds' = TraceIds
        /\ \A r, T : Ended(r, T) => TraceIds' = TraceIds
    BY DEF Left, Ended, Closed
  <1> QED
    BY <1>2, <1>3, <1>4, <1>5, <1>6, <1>7, StepKinds

\* A context that is consistent stays so.
LEMMA ConsistentStays ==
    ASSUME Shape, Keeps, NEW c \in Context, Consistent(c)
    PROVE  ConsistentNext(c)
  BY DEF Consistent, ConsistentNext, Keeps, Context

\* The context a task gets back is that of the manager around, or its first.
LEMMA ContextBelow ==
    ASSUME IndInv, NEW t \in Tasks, Left(t)
    PROVE  /\ Len(stack[t]) = 1 => Top(t).saved = base[t]
           /\ Len(stack[t]) # 1 =>
                /\ Len(stack[t]) - 1 \in DOMAIN stack[t]
                /\ stack[t][Len(stack[t]) - 1].span \in SpanIds
                /\ Top(t).saved = [trace |-> spans[stack[t][Len(stack[t]) - 1].span].trace,
                                   span |-> stack[t][Len(stack[t]) - 1].span]
  <1>1. Shape /\ SavedBelow
    BY DEF IndInv
  <1>2. /\ Len(stack[t]) \in Nat \ {0} /\ DOMAIN stack[t] = 1..Len(stack[t])
        /\ Top(t) = stack[t][Len(stack[t])] /\ Len(stack[t]) \in DOMAIN stack[t]
    BY <1>1, LeftStack
  <1>3. Len(stack[t]) # 1 => Len(stack[t]) - 1 \in DOMAIN stack[t]
    <2> DEFINE n == Len(stack[t])
    <2>1. n \in Nat \ {0} /\ DOMAIN stack[t] = 1..n
      BY <1>2
    <2> HIDE DEF n
    <2>2. n # 1 => n - 1 \in 1..n
      BY <2>1
    <2> QED
      BY <2>1, <2>2 DEF n
  <1>4. \A i \in DOMAIN stack[t] : stack[t][i].span \in SpanIds
    BY <1>1, Types DEF Entry
  <1>5. Top(t).saved = IF Len(stack[t]) = 1 THEN base[t]
                       ELSE [trace |-> spans[stack[t][Len(stack[t]) - 1].span].trace,
                             span |-> stack[t][Len(stack[t]) - 1].span]
    <2> DEFINE n == Len(stack[t])
    <2>1. /\ n \in DOMAIN stack[t] /\ Top(t) = stack[t][n]
          /\ \A i \in DOMAIN stack[t] : stack[t][i].saved =
               IF i = 1 THEN base[t]
               ELSE [trace |-> spans[stack[t][i - 1].span].trace, span |-> stack[t][i - 1].span]
      BY <1>1, <1>2 DEF SavedBelow
    <2> HIDE DEF n
    <2>2. Top(t).saved = IF n = 1 THEN base[t]
                         ELSE [trace |-> spans[stack[t][n - 1].span].trace,
                               span |-> stack[t][n - 1].span]
      BY <2>1
    <2> QED
      BY <2>2 DEF n
  <1> QED
    BY <1>3, <1>4, <1>5

\* A context is set as a whole, to a span with its trace, and a span never
\* changes trace.
LEMMA ContextsConsistentStep == IndInv /\ [Next]_vars => ContextsConsistent'
  <1> SUFFICES ASSUME IndInv, [Next]_vars
               PROVE  ContextsConsistent'
    OBVIOUS
  <1>1. /\ Shape /\ Keeps /\ ContextsConsistent
        /\ ctx \in [Tasks -> Context] /\ base \in [Tasks -> Context]
    BY StepKeeps DEF IndInv, Shape, Locals
  <1>2. \A t \in Tasks : ConsistentNext(ctx[t]) /\ ConsistentNext(base[t])
    <2> HIDE DEF Context
    <2> QED
      BY <1>1, ConsistentStays DEF ContextsConsistent
  <1> SUFFICES ASSUME NEW u \in Tasks
               PROVE  ConsistentNext(ctx'[u]) /\ ConsistentNext(base'[u])
    BY DEF ContextsConsistent, Consistent, ConsistentNext
  <1>3. ASSUME NEW t \in Tasks, NEW T, NEW up, NEW kind, NEW own, Entered(t, T, up, kind, own)
        PROVE  ConsistentNext(ctx'[u]) /\ base' = base
    <2>1. /\ ctx'[t] = [trace |-> T, span |-> NewSpan] /\ base' = base
          /\ \A v \in Tasks \ {t} : ctx'[v] = ctx[v]
      BY <1>1, <1>3 DEF Entered
    <2>2. ConsistentNext([trace |-> T, span |-> NewSpan])
      BY <1>1, <1>3, Types DEF Entered, Opened, ConsistentNext, None
    <2> QED
      BY <1>2, <2>1, <2>2
  <1>4. ASSUME NEW t \in Tasks, Left(t)
        PROVE  ConsistentNext(ctx'[u]) /\ base' = base
    <2>1. /\ ctx'[t] = Top(t).saved /\ base' = base
          /\ \A v \in Tasks \ {t} : ctx'[v] = ctx[v]
      BY <1>1, <1>4 DEF Left
    <2>2. ConsistentNext(Top(t).saved)
      <3>1. CASE Len(stack[t]) = 1
        BY <1>2, <1>4, <3>1, ContextBelow
      <3>2. CASE Len(stack[t]) # 1
        <4> DEFINE S == stack[t][Len(stack[t]) - 1].span
        <4>1. S \in SpanIds /\ Top(t).saved = [trace |-> spans[S].trace, span |-> S]
          BY <1>4, <3>2, ContextBelow
        <4> HIDE DEF S
        <4>2. S # None /\ spans'[S].trace = spans[S].trace
          BY <1>1, <4>1, Types DEF Keeps
        <4> QED
          BY <4>1, <4>2 DEF ConsistentNext
      <3> QED
        BY <3>1, <3>2
    <2> QED
      BY <1>2, <2>1, <2>2
  <1>5. ASSUME NEW t \in Tasks, NEW v \in Tasks, Spawn(t, v)
        PROVE  ConsistentNext(ctx'[u]) /\ ConsistentNext(base'[u])
    <2> HIDE DEF Context
    <2> QED
      BY <1>1, <1>2, <1>5 DEF Spawn
  <1>6. UNCHANGED <<ctx, base>> => ConsistentNext(ctx'[u]) /\ ConsistentNext(base'[u])
    BY <1>2
  <1> QED
    BY <1>2, <1>3, <1>4, <1>5, <1>6, StepKinds DEF RanFrom, Ended, vars

\* Every step preserves that a task's context is the one of its innermost
\* manager, or the one it started with.
LEMMA ContextFollowsStep == IndInv /\ [Next]_vars => ContextFollowsStack'
  <1> SUFFICES ASSUME IndInv, [Next]_vars
               PROVE  ContextFollowsStack'
    OBVIOUS
  <1>1. /\ Shape /\ Keeps /\ ContextFollowsStack
        /\ ctx \in [Tasks -> Context] /\ base \in [Tasks -> Context]
    BY StepKeeps DEF IndInv, Shape, Locals
  <1> SUFFICES ASSUME NEW u \in Tasks
               PROVE  IF stack'[u] = <<>> THEN ctx'[u] = base'[u]
                      ELSE LET S == stack'[u][Len(stack'[u])].span IN
                           ctx'[u].span = S /\ ctx'[u].trace = spans'[S].trace
    BY DEF ContextFollowsStack, Top
  \* A task whose managers and context stay has them consistent still.
  <1>2. ASSUME stack'[u] = stack[u], ctx'[u] = ctx[u], base'[u] = base[u]
        PROVE  IF stack'[u] = <<>> THEN ctx'[u] = base'[u]
               ELSE LET S == stack'[u][Len(stack'[u])].span IN
                    ctx'[u].span = S /\ ctx'[u].trace = spans'[S].trace
    <2>1. stack[u] # <<>> => Top(u).span \in SpanIds
      BY <1>1, Types DEF Top, Entry
    <2> QED
      BY <1>1, <1>2, <2>1 DEF ContextFollowsStack, Top, Keeps
  <1>3. ASSUME NEW t \in Tasks, NEW T, NEW up, NEW kind, NEW own, Entered(t, T, up, kind, own)
        PROVE  IF stack'[u] = <<>> THEN ctx'[u] = base'[u]
               ELSE LET S == stack'[u][Len(stack'[u])].span IN
                    ctx'[u].span = S /\ ctx'[u].trace = spans'[S].trace
    <2>1. CASE u = t
      <3>1. /\ stack'[t] # <<>> /\ stack'[t][Len(stack'[t])].span = NewSpan
        <4>1. /\ stack'[t] # <<>> /\ Len(stack'[t]) = Len(stack[t]) + 1
              /\ stack'[t][Len(stack[t]) + 1].span = NewSpan
          BY <1>1, <1>3, EnteredStack
        <4> QED
          BY <4>1
      <3>2. ctx'[t].trace = T /\ ctx'[t].span = NewSpan /\ spans'[NewSpan].trace = T
        BY <1>1, <1>3 DEF Entered, Opened
      <3> QED
        BY <2>1, <3>1, <3>2
    <2>2. CASE u # t
      BY <1>1, <1>2, <1>3, <2>2 DEF Entered
    <2> QED
      BY <2>1, <2>2
  <1>4. ASSUME NEW t \in Tasks, Left(t)
        PROVE  IF stack'[u] = <<>> THEN ctx'[u] = base'[u]
               ELSE LET S == stack'[u][Len(stack'[u])].span IN
                    ctx'[u].span = S /\ ctx'[u].trace = spans'[S].trace
    <2>1. CASE u # t
      BY <1>1, <1>2, <1>4, <2>1 DEF Left
    <2>2. ctx'[t] = Top(t).saved /\ base' = base
      BY <1>1, <1>4 DEF Left
    <2>3. /\ (stack'[t] = <<>> <=> Len(stack[t]) = 1)
          /\ Len(stack'[t]) = Len(stack[t]) - 1
          /\ Len(stack[t]) \in Nat \ {0} /\ DOMAIN stack'[t] = 1..(Len(stack[t]) - 1)
          /\ \A i \in DOMAIN stack'[t] : stack'[t][i] = stack[t][i]
      BY <1>1, <1>4, LeftStack
    <2>4. CASE u = t /\ Len(stack[t]) = 1
      BY <1>4, <2>2, <2>3, <2>4, ContextBelow
    <2>5. CASE u = t /\ Len(stack[t]) # 1
      <3> DEFINE n == Len(stack[t])
                 S == stack[t][n - 1].span
      <3>1. n - 1 \in 1..(n - 1)
        <4>1. n \in Nat \ {0} /\ n # 1
          BY <2>3, <2>5
        <4> HIDE DEF n
        <4> QED
          BY <4>1
      <3>2. stack'[t] # <<>> /\ stack'[t][Len(stack'[t])].span = S
        BY <2>3, <2>5, <3>1
      <3>3. S \in SpanIds /\ ctx'[t] = [trace |-> spans[S].trace, span |-> S]
        BY <1>4, <2>2, <2>5, ContextBelow
      <3> QED
        BY <1>1, <2>5, <3>2, <3>3 DEF Keeps
    <2> QED
      BY <2>1, <2>4, <2>5
  <1>5. ASSUME NEW t \in Tasks, NEW v \in Tasks, Spawn(t, v)
        PROVE  IF stack'[u] = <<>> THEN ctx'[u] = base'[u]
               ELSE LET S == stack'[u][Len(stack'[u])].span IN
                    ctx'[u].span = S /\ ctx'[u].trace = spans'[S].trace
    <2>1. CASE u # v
      <3> HIDE DEF Context
      <3> QED
        BY <1>1, <1>2, <1>5, <2>1 DEF Spawn
    <2>2. CASE u = v
      <3>1. stack'[u] = <<>>
        BY <1>5, <2>2 DEF Spawn, IndInv, FreshIdle
      <3>2. ctx'[u] = base'[u]
        <4> HIDE DEF Context
        <4> QED
          BY <1>1, <1>5, <2>2 DEF Spawn
      <3> QED
        BY <3>1, <3>2
    <2> QED
      BY <2>1, <2>2
  <1>6. CASE UNCHANGED <<stack, ctx, base>>
    BY <1>2, <1>6
  <1> QED
    BY <1>3, <1>4, <1>5, <1>6, StepKinds DEF RanFrom, Ended, vars

\* Every step preserves that a manager holds the context of the one around it:
\* __enter__ saves the current one, which is that.
LEMMA SavedBelowStep == IndInv /\ [Next]_vars => SavedBelow'
  <1> SUFFICES ASSUME IndInv, [Next]_vars
               PROVE  SavedBelow'
    OBVIOUS
  <1>1. /\ Shape /\ Keeps /\ ContextFollowsStack /\ SavedBelow
        /\ ctx \in [Tasks -> Context] /\ base \in [Tasks -> Context]
    BY StepKeeps DEF IndInv, Shape, Locals
  <1> DEFINE Below(s, b, i) == s[i].saved = IF i = 1 THEN b
                 ELSE [trace |-> spans'[s[i - 1].span].trace, span |-> s[i - 1].span]
  <1> SUFFICES ASSUME NEW u \in Tasks, NEW i \in DOMAIN stack'[u]
               PROVE  Below(stack'[u], base'[u], i)
    BY DEF SavedBelow
  <1>2. /\ DOMAIN stack[u] = 1..Len(stack[u]) /\ Len(stack[u]) \in Nat
        /\ \A j \in DOMAIN stack[u] : stack[u][j].span \in SpanIds
    BY <1>1, Types DEF Entry
  \* What held of an entry holds while the spans keep their traces.
  <1>3. ASSUME i \in DOMAIN stack[u]
        PROVE  /\ Below(stack[u], base[u], i)
               /\ i # 1 => i - 1 \in DOMAIN stack[u]
    <2>1. i # 1 => i - 1 \in DOMAIN stack[u]
      BY <1>2, <1>3
    <2>2. stack[u][i].saved = IF i = 1 THEN base[u]
                              ELSE [trace |-> spans[stack[u][i - 1].span].trace,
                                    span |-> stack[u][i - 1].span]
      BY <1>1, <1>3 DEF SavedBelow
    <2>3. i # 1 => LET S == stack[u][i - 1].span IN S \in SpanIds /\ spans'[S].trace = spans[S].trace
      BY <1>1, <1>2, <2>1 DEF Keeps
    <2> QED
      BY <2>1, <2>2, <2>3
  <1>4. ASSUME i \in DOMAIN stack[u], stack'[u][i] = stack[u][i], base'[u] = base[u],
               i # 1 => stack'[u][i - 1] = stack[u][i - 1]
        PROVE  Below(stack'[u], base'[u], i)
    BY <1>3, <1>4
  <1>5. ASSUME NEW t \in Tasks, NEW T, NEW up, NEW kind, NEW own, Entered(t, T, up, kind, own)
        PROVE  Below(stack'[u], base'[u], i)
    <2>1. base' = base
      BY <1>5 DEF Entered
    <2>2. /\ DOMAIN stack'[t] = 1..(Len(stack[t]) + 1)
          /\ DOMAIN stack[t] = 1..Len(stack[t]) /\ Len(stack[t]) \in Nat
          /\ \A j \in DOMAIN stack[t] : stack'[t][j] = stack[t][j]
          /\ stack'[t][Len(stack[t]) + 1].saved = ctx[t]
          /\ \A v \in Tasks \ {t} : stack'[v] = stack[v]
      BY <1>1, <1>5, EnteredStack
    <2>3. CASE i \in DOMAIN stack[u]
      <3>1. i # 1 => i - 1 \in DOMAIN stack[u]
        BY <1>3, <2>3
      <3> QED
        BY <1>4, <2>1, <2>2, <2>3, <3>1
    <2>4. CASE u = t /\ i = Len(stack[t]) + 1 /\ Len(stack[t]) = 0
      <3>1. stack[t] = <<>> /\ i = 1
        <4>1. stack[t] \in Seq(Entry)
          BY DEF IndInv, Shape, Locals
        <4> HIDE DEF Entry
        <4> QED
          BY <2>4, <4>1
      <3> QED
        BY <1>1, <2>1, <2>2, <2>4, <3>1 DEF ContextFollowsStack
    <2>5. CASE u = t /\ i = Len(stack[t]) + 1 /\ Len(stack[t]) # 0
      <3> DEFINE n == Len(stack[t])
                 S == stack[t][n].span
      <3>1. n \in Nat \ {0} /\ n \in DOMAIN stack[t] /\ S \in SpanIds /\ stack[t] # <<>>
        <4>1. n \in Nat /\ n # 0 /\ DOMAIN stack[t] = 1..n
          BY <2>2, <2>5
        <4>2. n \in DOMAIN stack[t]
          <5> HIDE DEF n
          <5> QED
            BY <4>1
        <4> QED
          BY <1>2, <2>5, <4>1, <4>2
      <3>2. ctx[t].span = S /\ ctx[t].trace = spans[S].trace
        BY <1>1, <3>1 DEF ContextFollowsStack, Top
      <3>3. ctx[t] = [trace |-> spans'[S].trace, span |-> S]
        <4>1. ctx[t] \in Context
          BY <1>1
        <4> QED
          BY <1>1, <3>1, <3>2, <4>1 DEF Context, Keeps
      <3>4. i = n + 1 /\ i # 1 /\ i - 1 = n
        <4>1. i = n + 1
          BY <2>5
        <4> HIDE DEF n
        <4> QED
          BY <3>1, <4>1
      <3>5. stack'[u][i - 1].span = S /\ stack'[u][i].saved = ctx[t]
        BY <2>2, <2>5, <3>1, <3>4
      <3> QED
        BY <3>3, <3>4, <3>5
    <2>6. i \in DOMAIN stack[u] \/ (u = t /\ i = Len(stack[t]) + 1)
      <3> DEFINE n == Len(stack[t])
      <3>1. u # t => DOMAIN stack'[u] = DOMAIN stack[u]
        BY <2>2
      <3>2. n \in Nat /\ DOMAIN stack'[t] = 1..(n + 1) /\ DOMAIN stack[t] = 1..n
        BY <2>2
      <3> HIDE DEF n
      <3>3. i \in DOMAIN stack[u] \/ (u = t /\ i = n + 1)
        BY <3>1, <3>2
      <3> QED
        BY <3>3 DEF n
    <2> QED
      BY <2>3, <2>4, <2>5, <2>6
  <1>6. ASSUME NEW t \in Tasks, Left(t)
        PROVE  Below(stack'[u], base'[u], i)
    <2>1. base' = base
      BY <1>6 DEF Left
    <2>2. /\ i \in DOMAIN stack[u] /\ stack'[u][i] = stack[u][i]
          /\ \A j \in DOMAIN stack'[u] : stack'[u][j] = stack[u][j]
      BY <1>1, <1>6, LeftStack
    <2>3. i # 1 => i - 1 \in DOMAIN stack'[u]
      <3>1. \E n \in Nat : DOMAIN stack'[u] = 1..n
        <4>1. CASE u = t
          <5> DEFINE n == Len(stack[t])
          <5>1. n \in Nat \ {0} /\ DOMAIN stack'[t] = 1..(n - 1)
            BY <1>1, <1>6, LeftStack
          <5> HIDE DEF n
          <5>2. n - 1 \in Nat
            BY <5>1
          <5> QED
            BY <4>1, <5>1, <5>2
        <4>2. CASE u # t
          BY <1>2, <1>6, <4>2 DEF Left
        <4> QED
          BY <4>1, <4>2
      <3> QED
        BY <3>1
    <2> QED
      BY <1>4, <2>1, <2>2, <2>3
  <1>7. ASSUME NEW t \in Tasks, NEW v \in Tasks, Spawn(t, v)
        PROVE  Below(stack'[u], base'[u], i)
    <2>1. stack' = stack /\ u # v
      <3>1. stack' = stack /\ stack[v] = <<>>
        BY <1>7 DEF Spawn, IndInv, FreshIdle
      <3> QED
        BY <3>1
    <2>2. base'[u] = base[u]
      <3> HIDE DEF Context
      <3> QED
        BY <1>1, <1>7, <2>1 DEF Spawn
    <2> QED
      BY <1>4, <2>1, <2>2
  <1>8. CASE UNCHANGED <<stack, base>>
    BY <1>4, <1>8
  <1> QED
    BY <1>5, <1>6, <1>7, <1>8, StepKinds DEF RanFrom, Ended, vars

\* After a step, a task's manager is one it had before, inside the same ones,
\* or the one just entered, inside all it had.
Old(u, i) ==
    /\ i \in DOMAIN stack[u] /\ stack'[u][i] = stack[u][i]
    /\ \A j \in 1..(i - 1) : j \in DOMAIN stack[u] /\ stack'[u][j] = stack[u][j]
Added(u, i) ==
    /\ i = Len(stack[u]) + 1 /\ Len(stack[u]) \in Nat
    /\ 1..(i - 1) = DOMAIN stack[u] /\ \A j \in DOMAIN stack[u] : stack'[u][j] = stack[u][j]

\* A manager of a task after a step was there before it, or the step is its
\* __enter__.
LEMMA EntryKinds ==
    ASSUME IndInv, [Next]_vars, NEW u \in Tasks, NEW i \in DOMAIN stack'[u]
    PROVE  \/ Old(u, i)
           \/ /\ Added(u, i)
              /\ \E T, up, kind, own :
                   /\ Entered(u, T, up, kind, own)
                   /\ stack'[u][i].kind = kind /\ stack'[u][i].own = own
                   /\ stack'[u][i].span = NewSpan
  <1>1. /\ Shape /\ DOMAIN stack[u] = 1..Len(stack[u]) /\ Len(stack[u]) \in Nat
    BY Types DEF IndInv
  <1>2. ASSUME i \in DOMAIN stack[u], stack'[u][i] = stack[u][i],
               \A j \in DOMAIN stack[u] : j < i => stack'[u][j] = stack[u][j]
        PROVE  Old(u, i)
    <2> DEFINE n == Len(stack[u])
    <2>1. n \in Nat /\ i \in 1..n /\ DOMAIN stack[u] = 1..n
      BY <1>1, <1>2
    <2> HIDE DEF n
    <2>2. \A j \in 1..(i - 1) : j \in 1..n /\ j < i
      BY <2>1
    <2> QED
      BY <1>2, <2>1, <2>2 DEF Old
  <1>3. ASSUME stack'[u] = stack[u]
        PROVE  Old(u, i)
    BY <1>2, <1>3
  <1>4. ASSUME NEW t \in Tasks, Left(t)
        PROVE  Old(u, i)
    <2>1. /\ i \in DOMAIN stack[u] /\ stack'[u][i] = stack[u][i]
          /\ \A j \in DOMAIN stack'[u] : stack'[u][j] = stack[u][j]
          /\ u = t => DOMAIN stack'[u] = 1..(Len(stack[u]) - 1)
          /\ u # t => stack'[u] = stack[u]
      BY <1>1, <1>4, LeftStack
    <2>2. CASE u = t
      <3> DEFINE n == Len(stack[u])
      <3>1. n \in Nat /\ i \in 1..(n - 1) /\ DOMAIN stack[u] = 1..n /\ DOMAIN stack'[u] = 1..(n - 1)
        BY <1>1, <2>1, <2>2
      <3> HIDE DEF n
      <3>2. \A j \in 1..n : j < i => j \in 1..(n - 1)
        BY <3>1
      <3> QED
        BY <1>2, <2>1, <3>1, <3>2
    <2> QED
      BY <1>3, <2>1, <2>2
  <1>5. ASSUME NEW t \in Tasks, NEW T, NEW up, NEW kind, NEW own, Entered(t, T, up, kind, own)
        PROVE  \/ Old(u, i)
               \/ /\ u = t /\ Added(u, i)
                  /\ stack'[u][i].kind = kind /\ stack'[u][i].own = own
                  /\ stack'[u][i].span = NewSpan
    <2>1. CASE u # t
      BY <1>3, <1>5, <2>1 DEF Entered
    <2>2. CASE u = t
      <3> DEFINE n == Len(stack[u])
      <3>1. /\ n \in Nat /\ DOMAIN stack[u] = 1..n /\ DOMAIN stack'[u] = 1..(n + 1)
            /\ \A j \in DOMAIN stack[u] : stack'[u][j] = stack[u][j]
            /\ stack'[u][n + 1].kind = kind /\ stack'[u][n + 1].own = own
            /\ stack'[u][n + 1].span = NewSpan
        BY <1>1, <1>5, <2>2, EnteredStack
      <3> HIDE DEF n
      <3>2. i \in 1..n \/ (i = n + 1 /\ 1..(i - 1) = 1..n)
        BY <3>1
      <3>3. i \in 1..n => Old(u, i)
        BY <1>2, <3>1
      <3>4. i = n + 1 /\ 1..(i - 1) = 1..n => Added(u, i)
        BY <3>1 DEF Added, n
      <3> QED
        BY <2>2, <3>1, <3>2, <3>3, <3>4
    <2> QED
      BY <2>1, <2>2
  <1>6. (\/ \E t \in Tasks, v \in Tasks : Spawn(t, v)
         \/ \E t \in Tasks, r \in Runs : \E T, up : RanFrom(t, r, T, up)
         \/ \E r \in Runs : \E T : Ended(r, T)
         \/ UNCHANGED vars) => stack'[u] = stack[u]
    BY DEF Spawn, RanFrom, Ended, vars
  <1> QED
    BY <1>3, <1>4, <1>5, <1>6, StepKinds

\* A task loses its mark of having done nothing with the first manager it
\* enters or run it starts.
LEMMA FreshIdleStep == IndInv /\ [Next]_vars => FreshIdle'
  <1> SUFFICES ASSUME IndInv, [Next]_vars, NEW u \in fresh'
               PROVE  stack'[u] = <<>> /\ \A S \in SpanIds' : opener'[S] # u
    BY DEF FreshIdle
  <1>1. Shape /\ FreshIdle /\ Keeps /\ fresh \subseteq Tasks
    BY StepKeeps DEF IndInv, Shape, Locals
  <1>2. ASSUME u \in fresh, stack'[u] = stack[u],
               NEW T, NEW up, NEW who, Opened(T, up, who), who # u
        PROVE  stack'[u] = <<>> /\ \A S \in SpanIds' : opener'[S] # u
    <2>1. /\ SpanIds' = SpanIds \cup {NewSpan} /\ opener'[NewSpan] = who
          /\ \A S \in SpanIds : opener'[S] = opener[S]
      BY <1>2 DEF Opened
    <2>2. stack[u] = <<>> /\ \A S \in SpanIds : opener[S] # u
      BY <1>1, <1>2 DEF FreshIdle
    <2> QED
      BY <1>2, <2>1, <2>2
  <1>3. ASSUME u \in fresh, stack'[u] = stack[u], SpanIds' = SpanIds
        PROVE  stack'[u] = <<>> /\ \A S \in SpanIds' : opener'[S] # u
    BY <1>1, <1>3 DEF FreshIdle, Keeps
  <1>4. ASSUME NEW t \in Tasks, NEW T, NEW up, NEW kind, NEW own, Entered(t, T, up, kind, own)
        PROVE  stack'[u] = <<>> /\ \A S \in SpanIds' : opener'[S] # u
    BY <1>1, <1>2, <1>4 DEF Entered
  <1>5. ASSUME NEW t \in Tasks, Left(t)
        PROVE  stack'[u] = <<>> /\ \A S \in SpanIds' : opener'[S] # u
    <2>1. u \in fresh /\ t \notin fresh /\ SpanIds' = SpanIds
      BY <1>1, <1>5 DEF Left, FreshIdle, Closed
    <2> QED
      BY <1>1, <1>3, <1>5, <2>1 DEF Left
  <1>6. ASSUME NEW t \in Tasks, NEW r \in Runs, NEW T, NEW up, RanFrom(t, r, T, up)
        PROVE  stack'[u] = <<>> /\ \A S \in SpanIds' : opener'[S] # u
    BY <1>1, <1>2, <1>6, TracerAssumption DEF RanFrom
  <1>7. (\/ \E t \in Tasks, v \in Tasks : Spawn(t, v)
         \/ \E r \in Runs : \E T : Ended(r, T)
         \/ UNCHANGED vars) => u \in fresh /\ stack'[u] = stack[u] /\ SpanIds' = SpanIds
    BY DEF Spawn, Acts, store, SpanIds, Ended, Closed, vars
  <1> QED
    BY <1>3, <1>4, <1>5, <1>6, <1>7, StepKinds

\* Every step preserves that a task's managers hold spans it opened, in the
\* order it opened them.
LEMMA StackOpenedStep == IndInv /\ [Next]_vars => StackOpened'
  <1> SUFFICES ASSUME IndInv, [Next]_vars, NEW u \in Tasks, NEW i \in DOMAIN stack'[u]
               PROVE  /\ opener'[stack'[u][i].span] = u
                      /\ \A j \in 1..(i - 1) : stack'[u][j].span < stack'[u][i].span
    BY DEF StackOpened
  <1>1. /\ Shape /\ StackOpened /\ Keeps
        /\ \A j \in DOMAIN stack[u] : stack[u][j].span \in SpanIds
    BY StepKeeps, Types DEF IndInv, Entry
  <1>2. CASE Old(u, i)
    BY <1>1, <1>2 DEF Old, StackOpened, Keeps
  <1>3. ASSUME Added(u, i), stack'[u][i].span = NewSpan,
               NEW T, NEW up, NEW kind, NEW own, Entered(u, T, up, kind, own)
        PROVE  /\ opener'[stack'[u][i].span] = u
               /\ \A j \in 1..(i - 1) : stack'[u][j].span < stack'[u][i].span
    <2>1. \A S \in SpanIds : S < NewSpan
      BY <1>1, Types
    <2>2. opener'[NewSpan] = u
      BY <1>3 DEF Entered, Opened
    <2> QED
      BY <1>1, <1>3, <2>1, <2>2 DEF Added
  <1> QED
    BY <1>2, <1>3, EntryKinds

\* The manager that owns a trace made it with its own span, which stays the
\* first one.
LEMMA OwnsRootStep == IndInv /\ [Next]_vars => OwnsRoot'
  <1> SUFFICES ASSUME IndInv, [Next]_vars, NEW u \in Tasks, NEW i \in DOMAIN stack'[u],
                      NEW T, T = stack'[u][i].own, T # None
               PROVE  stack'[u][i].span = Root(T)' /\ spans'[Root(T)'].trace = T
    BY DEF OwnsRoot
  <1>1. Shape /\ OwnsRoot /\ Keeps
    BY StepKeeps DEF IndInv
  <1>2. CASE Old(u, i)
    <2>1. T \in TraceIds /\ stack[u][i].span = Root(T) /\ spans[Root(T)].trace = T
      BY <1>1, <1>2, Types DEF Old, OwnsRoot, Entry
    <2> QED
      BY <1>1, <1>2, <2>1 DEF Old, Keeps
  <1>3. ASSUME NEW U, NEW up, NEW kind, NEW own, Entered(u, U, up, kind, own),
               stack'[u][i].span = NewSpan, stack'[u][i].own = own
        PROVE  stack'[u][i].span = Root(T)' /\ spans'[Root(T)'].trace = T
    <2>1. U = NewTrace /\ T = NewTrace /\ Opened(U, up, u)
      BY <1>3 DEF Entered, Opened
    <2>2. Root(U)' = NewSpan
      BY <2>1, NewRoot
    <2>3. spans'[NewSpan].trace = U
      BY <2>1 DEF Opened
    <2> QED
      BY <1>3, <2>1, <2>2, <2>3 DEF Root
  <1> QED
    BY <1>2, <1>3, EntryKinds

\* A running span of a task stays in a manager of that task: __exit__ ends the
\* span before the manager is gone.
LEMMA RunningHeldStep == IndInv /\ [Next]_vars => RunningHeld'
  <1> SUFFICES ASSUME IndInv, [Next]_vars, NEW S \in SpanIds',
                      spans'[S].status = "running", NEW u \in Tasks, opener'[S] = u
               PROVE  \E i \in DOMAIN stack'[u] : stack'[u][i].span = S
    BY DEF RunningHeld
  <1>1. Shape /\ RunningHeld /\ Keeps
    BY StepKeeps DEF IndInv
  <1>2. ASSUME S \in SpanIds
        PROVE  \E i \in DOMAIN stack[u] : stack[u][i].span = S
    BY <1>1, <1>2 DEF RunningHeld, Keeps
  <1>3. ASSUME NEW t \in Tasks, NEW T, NEW up, NEW kind, NEW own, Entered(t, T, up, kind, own)
        PROVE  \E i \in DOMAIN stack'[u] : stack'[u][i].span = S
    <2> DEFINE n == Len(stack[t])
    <2>1. /\ n \in Nat /\ DOMAIN stack'[t] = 1..(n + 1) /\ DOMAIN stack[t] = 1..n
          /\ \A i \in DOMAIN stack[t] : stack'[t][i] = stack[t][i]
          /\ stack'[t][n + 1].span = NewSpan
          /\ \A v \in Tasks \ {t} : stack'[v] = stack[v]
      BY <1>1, <1>3, EnteredStack
    <2> HIDE DEF n
    <2>2. n + 1 \in 1..(n + 1) /\ 1..n \subseteq 1..(n + 1)
      BY <2>1
    <2>3. CASE S \in SpanIds
      BY <1>2, <2>1, <2>2, <2>3
    <2>4. CASE S = NewSpan
      <3>1. u = t
        BY <1>3, <2>4 DEF Entered, Opened
      <3> QED
        BY <2>1, <2>2, <2>4, <3>1
    <2> QED
      BY <1>3, <2>3, <2>4 DEF Entered, Opened
  <1>4. ASSUME NEW t \in Tasks, Left(t)
        PROVE  \E i \in DOMAIN stack'[u] : stack'[u][i].span = S
    <2>1. S \in SpanIds /\ S # Top(t).span
      BY <1>4 DEF Left, Closed
    <2>2. PICK i \in DOMAIN stack[u] : stack[u][i].span = S
      BY <1>2, <2>1
    <2> DEFINE n == Len(stack[t])
    <2>3. /\ n \in Nat \ {0} /\ DOMAIN stack[t] = 1..n /\ DOMAIN stack'[t] = 1..(n - 1)
          /\ Top(t) = stack[t][n]
          /\ \A v \in Tasks \ {t} : stack'[v] = stack[v]
          /\ \A j \in DOMAIN stack'[t] : stack'[t][j] = stack[t][j]
      BY <1>1, <1>4, LeftStack
    <2> HIDE DEF n
    <2>4. CASE u = t
      <3>1. i # n /\ i \in 1..n
        BY <2>1, <2>2, <2>3, <2>4
      <3>2. i \in 1..(n - 1)
        BY <2>3, <3>1
      <3> QED
        BY <2>2, <2>3, <2>4, <3>2
    <2>5. CASE u # t
      BY <2>2, <2>3, <2>5
    <2> QED
      BY <2>4, <2>5
  <1>5. ASSUME NEW t \in Tasks, NEW r \in Runs, NEW T, NEW up, RanFrom(t, r, T, up)
        PROVE  \E i \in DOMAIN stack'[u] : stack'[u][i].span = S
    <2>1. S \in SpanIds /\ stack' = stack
      BY <1>5, TracerAssumption DEF RanFrom, Opened
    <2> QED
      BY <1>2, <2>1
  <1>6. (\/ \E t \in Tasks, v \in Tasks : Spawn(t, v)
         \/ \E r \in Runs : \E T : Ended(r, T)
         \/ UNCHANGED vars) => stack' = stack /\ SpanIds' = SpanIds
    BY DEF Spawn, store, SpanIds, Ended, Closed, vars
  <1> QED
    BY <1>2, <1>3, <1>4, <1>5, <1>6, StepKinds

\* A run starts once, so that its id has one span, which the handler's entry
\* names.
LEMMA RunsOpenOneStep == IndInv /\ [Next]_vars => RunsOpenOne'
  <1> SUFFICES ASSUME IndInv, [Next]_vars
               PROVE  RunsOpenOne'
    OBVIOUS
  <1>1. /\ Shape /\ RunsOpenOne /\ Keeps
        /\ \A r \in Runs : runs[r].span \in {None} \cup SpanIds
    BY StepKeeps DEF IndInv, Shape, Locals
  <1>2. ASSUME SpanIds' = SpanIds, used' = used,
               \A r \in Runs : runs'[r].span # None => runs'[r].span = runs[r].span
        PROVE  RunsOpenOne'
    BY <1>1, <1>2 DEF RunsOpenOne, Keeps
  <1>3. ASSUME NEW t \in Tasks, NEW T, NEW up, NEW kind, NEW own, Entered(t, T, up, kind, own)
        PROVE  RunsOpenOne'
    <2>1. /\ SpanIds' = SpanIds \cup {NewSpan} /\ opener'[NewSpan] \notin Runs
          /\ UNCHANGED <<runs, used>>
      BY <1>3, TracerAssumption DEF Entered, Opened
    <2> QED
      BY <1>1, <2>1 DEF RunsOpenOne, Keeps
  <1>4. ASSUME NEW t \in Tasks, NEW r \in Runs, NEW T, NEW up, RanFrom(t, r, T, up)
        PROVE  RunsOpenOne'
    <2>1. /\ SpanIds' = SpanIds \cup {NewSpan} /\ opener'[NewSpan] = r
          /\ used' = used \cup {r} /\ r \notin used
          /\ runs'[r].span = NewSpan /\ \A q \in Runs \ {r} : runs'[q] = runs[q]
      BY <1>4 DEF RanFrom, Opened
    <2>2. \A S \in SpanIds : opener'[S] = opener[S] /\ opener[S] # r
      BY <1>1, <2>1 DEF RunsOpenOne, Keeps
    <2>3. \A S \in SpanIds' : opener'[S] \in Runs => opener'[S] \in used'
      BY <1>1, <2>1, <2>2 DEF RunsOpenOne
    <2>4. \A R, S \in SpanIds' : opener'[R] = opener'[S] /\ opener'[S] \in Runs => R = S
      BY <1>1, <2>1, <2>2 DEF RunsOpenOne
    <2>5. \A q \in Runs : runs'[q].span # None => opener'[runs'[q].span] = q
      BY <1>1, <2>1, <2>2 DEF RunsOpenOne
    <2> QED
      BY <2>3, <2>4, <2>5 DEF RunsOpenOne
  <1>5. ASSUME NEW r \in Runs, NEW T, Ended(r, T)
        PROVE  RunsOpenOne'
    <2>1. \A q \in Runs : runs'[q].span # None => runs'[q].span = runs[q].span
      BY <1>5 DEF Ended, Shape, IndInv, Locals, NoRun
    <2> QED
      BY <1>2, <1>5, <2>1 DEF Ended, Closed
  <1>6. (\/ \E t \in Tasks, v \in Tasks : Spawn(t, v)
         \/ \E t \in Tasks : Left(t)
         \/ UNCHANGED vars) => runs' = runs /\ used' = used /\ SpanIds' = SpanIds
    BY DEF Spawn, store, SpanIds, Left, Closed, vars
  <1> QED
    BY <1>2, <1>3, <1>4, <1>5, <1>6, StepKinds

\* A trace that was there is owned only as it was before.
LEMMA OwnedBefore ==
    ASSUME IndInv, [Next]_vars, NEW T \in TraceIds, Owned(T)'
    PROVE  Owned(T)
  <1>1. PICK u \in Tasks : \E i \in DOMAIN stack'[u] : stack'[u][i].own = T
    BY DEF Owned
  <1>2. PICK i \in DOMAIN stack'[u] : stack'[u][i].own = T
    BY <1>1
  <1>3. CASE Old(u, i)
    BY <1>2, <1>3 DEF Old, Owned
  <1>4. ASSUME NEW U, NEW up, NEW kind, NEW own, Entered(u, U, up, kind, own), own = T
        PROVE  FALSE
    BY <1>4, Types DEF Entered, Opened, IndInv
  <1> QED
    BY <1>2, <1>3, <1>4, EntryKinds

\* One manager owns a trace, the one of its opener.
LEMMA OneOwner ==
    ASSUME Shape, OwnsRoot, StackOpened, NEW t \in Tasks, NEW i \in DOMAIN stack[t],
           NEW u \in Tasks, NEW j \in DOMAIN stack[u],
           stack[t][i].own # None, stack[t][i].own = stack[u][j].own
    PROVE  t = u /\ i = j /\ opener[Root(stack[t][i].own)] = t
  <1> DEFINE T == stack[t][i].own
  <1>1. stack[t][i].span = Root(T) /\ stack[u][j].span = Root(T)
    BY DEF OwnsRoot
  <1>2. t = u /\ opener[Root(T)] = t
    BY <1>1 DEF StackOpened
  <1>3. Root(T) \in Nat /\ i \in Nat /\ j \in Nat /\ i >= 1 /\ j >= 1
    BY <1>1, Types DEF Entry
  <1>4. i \in 1..(j - 1) \/ j \in 1..(i - 1) \/ i = j
    BY <1>3
  <1>5. i = j
    BY <1>1, <1>2, <1>3, <1>4 DEF StackOpened
  <1> QED
    BY <1>2, <1>5

\* One hand-over more.
LEMMA OneMore ==
    ASSUME NEW s \in Seq(Actors), NEW who \in Actors,
           Len(s) <= 2,
           \A k, l \in DOMAIN s : l # k => (s[k] \in Tasks <=> s[l] \in Runs),
           who \in Tasks => \A k \in DOMAIN s : s[k] \in Runs,
           who \in Runs => \A k \in DOMAIN s : s[k] \in Tasks
    PROVE  /\ Len(Append(s, who)) <= 2 /\ Append(s, who) # <<>>
           /\ \A k, l \in DOMAIN Append(s, who) :
                l # k => (Append(s, who)[k] \in Tasks <=> Append(s, who)[l] \in Runs)
           /\ \A k \in DOMAIN Append(s, who) :
                Append(s, who)[k] = who \/ \E l \in DOMAIN s : s[l] = Append(s, who)[k]
  <1>1. /\ Len(s) \in Nat /\ DOMAIN s = 1..Len(s)
        /\ Len(Append(s, who)) = Len(s) + 1 /\ DOMAIN Append(s, who) = 1..(Len(s) + 1)
        /\ \A i \in 1..Len(s) : Append(s, who)[i] = s[i] /\ s[i] \in Actors
        /\ Append(s, who)[Len(s) + 1] = who
    BY Appended
  <1> DEFINE n == Len(s)
             a == Append(s, who)
  <1>2. /\ n \in Nat /\ n <= 2 /\ Len(a) = n + 1 /\ DOMAIN s = 1..n /\ DOMAIN a = 1..(n + 1)
        /\ a[n + 1] = who /\ \A i \in 1..n : a[i] = s[i] /\ s[i] \in Actors
    BY <1>1
  <1>3. Tasks \cap Runs = {} /\ who \in Tasks \cup Runs
    BY TracerAssumption DEF Actors
  <1>4. a # <<>>
    BY <1>1
  <1> HIDE DEF n, a
  <1>5. n <= 1
    <2> SUFFICES ASSUME n = 2
                 PROVE  FALSE
      BY <1>2
    <2>1. 1 \in 1..n /\ 2 \in 1..n
      OBVIOUS
    <2>2. s[1] \in Tasks <=> s[2] \in Runs
      BY <1>2, <2>1
    <2> QED
      BY <1>2, <1>3, <2>1, <2>2
  <1>6. \A k \in 1..(n + 1) : k \in 1..n \/ k = n + 1
    BY <1>2
  <1>7. \A k \in 1..(n + 1) : a[k] = who \/ \E l \in 1..n : s[l] = a[k]
    BY <1>2, <1>6
  <1>8. ASSUME NEW k \in 1..(n + 1), NEW l \in 1..(n + 1), l # k
        PROVE  a[k] \in Tasks <=> a[l] \in Runs
    <2>1. CASE k \in 1..n /\ l \in 1..n
      BY <1>2, <1>8, <2>1
    <2>2. CASE k = n + 1 /\ l \in 1..n
      BY <1>2, <1>3, <2>2
    <2>3. CASE l = n + 1 /\ k \in 1..n
      BY <1>2, <1>3, <2>3
    <2> QED
      BY <1>6, <1>8, <2>1, <2>2, <2>3
  <1>9. Len(a) <= 2
    BY <1>2, <1>5
  <1> QED
    BY <1>2, <1>4, <1>7, <1>8, <1>9 DEF a

\* Every step preserves what is known of hand-overs: one by the task that owns
\* the trace, one by a run while the handler keeps it.
LEMMA HandOversStep == IndInv /\ [Next]_vars => HandOvers'
  <1> SUFFICES ASSUME IndInv, [Next]_vars, NEW T \in TraceIds'
               PROVE  /\ Len(exports'[T]) <= 2
                      /\ \A k \in DOMAIN exports'[T] :
                           /\ exports'[T][k] \in Tasks =>
                                 ~Owned(T)' /\ exports'[T][k] = opener'[Root(T)']
                           /\ exports'[T][k] \in Runs => ~traces'[T].kept
                           /\ \A l \in DOMAIN exports'[T] :
                                 l # k => (exports'[T][k] \in Tasks <=> exports'[T][l] \in Runs)
                      /\ ~traces'[T].kept => exports'[T] # <<>>
    BY DEF HandOvers
  <1>1. Shape /\ HandOvers /\ Keeps /\ OwnsRoot /\ StackOpened
    BY StepKeeps DEF IndInv
  <1>2. ASSUME T \in TraceIds
        PROVE  /\ Root(T)' = Root(T) /\ opener'[Root(T)] = opener[Root(T)]
               /\ exports[T] \in Seq(Actors) /\ (Owned(T)' => Owned(T))
               /\ Len(exports[T]) <= 2 /\ (~traces[T].kept => exports[T] # <<>>)
               /\ \A k \in DOMAIN exports[T] :
                    /\ exports[T][k] \in Tasks => ~Owned(T) /\ exports[T][k] = opener[Root(T)]
                    /\ exports[T][k] \in Runs => ~traces[T].kept
               /\ \A k, l \in DOMAIN exports[T] :
                    l # k => (exports[T][k] \in Tasks <=> exports[T][l] \in Runs)
    BY <1>1, <1>2, OwnedBefore, Types, SMTT(30) DEF HandOvers, Keeps
  <1>3. ASSUME T \in TraceIds, exports'[T] = exports[T], traces'[T].kept = traces[T].kept
        PROVE  /\ Len(exports'[T]) <= 2
               /\ \A k \in DOMAIN exports'[T] :
                    /\ exports'[T][k] \in Tasks =>
                          ~Owned(T)' /\ exports'[T][k] = opener'[Root(T)']
                    /\ exports'[T][k] \in Runs => ~traces'[T].kept
                    /\ \A l \in DOMAIN exports'[T] :
                          l # k => (exports'[T][k] \in Tasks <=> exports'[T][l] \in Runs)
               /\ ~traces'[T].kept => exports'[T] # <<>>
    BY <1>2, <1>3
  <1>4. ASSUME NEW U, NEW up, NEW who, Opened(U, up, who)
        PROVE  \/ T \in TraceIds /\ exports'[T] = exports[T] /\ traces'[T].kept = traces[T].kept
               \/ exports'[T] = <<>> /\ traces'[T].kept
    BY <1>4 DEF Opened
  <1>5. exports'[T] = <<>> =>
          Len(exports'[T]) <= 2 /\ DOMAIN exports'[T] = {}
    OBVIOUS
  \* A hand-over by who.
  <1>6. ASSUME T \in TraceIds, NEW who \in Actors, exports'[T] = Append(exports[T], who),
               traces'[T].kept => traces[T].kept,
               who \in Tasks => Owned(T) /\ ~Owned(T)' /\ who = opener[Root(T)],
               who \in Runs => traces[T].kept /\ ~traces'[T].kept
        PROVE  /\ Len(exports'[T]) <= 2
               /\ \A k \in DOMAIN exports'[T] :
                    /\ exports'[T][k] \in Tasks =>
                          ~Owned(T)' /\ exports'[T][k] = opener'[Root(T)']
                    /\ exports'[T][k] \in Runs => ~traces'[T].kept
                    /\ \A l \in DOMAIN exports'[T] :
                          l # k => (exports'[T][k] \in Tasks <=> exports'[T][l] \in Runs)
               /\ ~traces'[T].kept => exports'[T] # <<>>
    <2> DEFINE s == exports[T]
               a == Append(s, who)
    <2>1. /\ s \in Seq(Actors) /\ Len(s) <= 2
          /\ \A k, l \in DOMAIN s : l # k => (s[k] \in Tasks <=> s[l] \in Runs)
      BY <1>2, <1>6
    <2>2. /\ \A k \in DOMAIN s : /\ s[k] \in Actors
                                 /\ s[k] \in Tasks => ~Owned(T) /\ s[k] = opener[Root(T)]
                                 /\ s[k] \in Runs => ~traces[T].kept
      <3> DEFINE n == Len(s)
      <3>1. DOMAIN s = 1..n /\ n \in Nat /\ \A k \in 1..n : s[k] \in Actors
        BY <2>1
      <3> QED
        BY <1>2, <1>6, <3>1
    <2>3. /\ who \in Tasks => \A k \in DOMAIN s : s[k] \in Runs
          /\ who \in Runs => \A k \in DOMAIN s : s[k] \in Tasks
      BY <1>6, <2>2 DEF Actors
    <2> HIDE DEF s
    <2>4. /\ Len(a) <= 2 /\ a # <<>>
          /\ \A k, l \in DOMAIN a : l # k => (a[k] \in Tasks <=> a[l] \in Runs)
          /\ \A k \in DOMAIN a : a[k] = who \/ \E l \in DOMAIN s : s[l] = a[k]
      BY <2>1, <2>3, OneMore
    <2>5. exports'[T] = a
      BY <1>6 DEF s
    <2> HIDE DEF a
    <2>6. \A k \in DOMAIN a : /\ a[k] \in Tasks => ~Owned(T)' /\ a[k] = opener'[Root(T)']
                              /\ a[k] \in Runs => ~traces'[T].kept
      <3>1. Root(T)' = Root(T) /\ opener'[Root(T)] = opener[Root(T)] /\ (Owned(T)' => Owned(T))
        BY <1>2, <1>6
      <3> QED
        BY <1>6, <2>2, <2>4, <3>1
    <2> QED
      BY <2>4, <2>5, <2>6
  <1>7. ASSUME NEW t \in Tasks, Left(t), T = Top(t).own, T \in TraceIds
        PROVE  Owned(T) /\ ~Owned(T)' /\ t = opener[Root(T)]
    <2> DEFINE n == Len(stack[t])
    <2>1. /\ n \in Nat /\ n \in DOMAIN stack[t] /\ Top(t) = stack[t][n]
          /\ DOMAIN stack'[t] = 1..(n - 1)
          /\ \A u \in Tasks : /\ DOMAIN stack'[u] \subseteq DOMAIN stack[u]
                              /\ \A i \in DOMAIN stack'[u] : stack'[u][i] = stack[u][i]
      BY <1>1, <1>7, LeftStack
    <2> HIDE DEF n
    <2>2. T # None /\ stack[t][n].own = T
      BY <1>1, <1>7, <2>1, Types
    <2>3. t = opener[Root(T)]
      BY <1>1, <2>1, <2>2, OneOwner
    <2>4. ASSUME NEW u \in Tasks, NEW i \in DOMAIN stack'[u], stack'[u][i].own = T
          PROVE  FALSE
      <3>1. i \in DOMAIN stack[u] /\ stack[u][i].own = T
        BY <2>1, <2>4
      <3>2. u = t /\ i = n
        BY <1>1, <2>1, <2>2, <3>1, OneOwner
      <3>3. n \in 1..(n - 1)
        BY <2>1, <2>4, <3>2
      <3> QED
        BY <2>1, <3>3
    <2>5. ~Owned(T)'
      BY <2>4 DEF Owned
    <2> QED
      BY <2>1, <2>2, <2>3, <2>5 DEF Owned
  <1>8. ASSUME NEW t \in Tasks, Left(t)
        PROVE  \/ T \in TraceIds /\ exports'[T] = exports[T] /\ traces'[T].kept = traces[T].kept
               \/ /\ T \in TraceIds /\ T = Top(t).own /\ t \in Actors
                  /\ exports'[T] = Append(exports[T], t) /\ traces'[T].kept = traces[T].kept
    <2>1. T \in TraceIds /\ T # None /\ t \in Actors
      BY <1>1, <1>8, Types DEF Left, Closed
    <2> QED
      BY <1>8, <2>1 DEF Left, Closed
  <1>9. ASSUME NEW r \in Runs, NEW U, Ended(r, U)
        PROVE  \/ T \in TraceIds /\ exports'[T] = exports[T] /\ traces'[T].kept = traces[T].kept
               \/ /\ T \in TraceIds /\ r \in Actors /\ exports'[T] = Append(exports[T], r)
                  /\ traces[T].kept /\ ~traces'[T].kept
    <2>1. T \in TraceIds /\ T # None /\ r \in Actors
      BY <1>1, <1>9, Types DEF Ended, Closed
    <2> QED
      BY <1>9, <2>1 DEF Ended, Closed
  <1>10. (\/ \E t \in Tasks, v \in Tasks : Spawn(t, v)
          \/ UNCHANGED vars) => UNCHANGED <<traces, exports>>
    BY DEF Spawn, store, log, vars
  <1>11. UNCHANGED <<traces, exports>> => T \in TraceIds
    BY DEF TraceIds
  <1>12. CASE T \in TraceIds /\ exports'[T] = exports[T] /\ traces'[T].kept = traces[T].kept
    BY <1>3, <1>12
  <1>13. CASE exports'[T] = <<>> /\ traces'[T].kept
    BY <1>5, <1>13
  <1>14. ASSUME NEW t \in Tasks, Left(t), ~(exports'[T] = exports[T] /\ traces'[T].kept = traces[T].kept)
         PROVE  /\ T \in TraceIds /\ exports'[T] = Append(exports[T], t)
                /\ t \in Tasks => Owned(T) /\ ~Owned(T)' /\ t = opener[Root(T)]
                /\ t \notin Runs /\ t \in Actors /\ traces'[T].kept = traces[T].kept
    BY <1>7, <1>8, <1>14, TracerAssumption
  <1>15. ASSUME NEW r \in Runs, NEW U, Ended(r, U), ~(exports'[T] = exports[T] /\ traces'[T].kept = traces[T].kept)
         PROVE  /\ T \in TraceIds /\ exports'[T] = Append(exports[T], r)
                /\ r \notin Tasks /\ r \in Actors /\ traces[T].kept /\ ~traces'[T].kept
    BY <1>9, <1>15, TracerAssumption
  <1>16. CASE \E t \in Tasks : Left(t)
    <2>1. PICK t \in Tasks : Left(t)
      BY <1>16
    <2>2. CASE exports'[T] = exports[T] /\ traces'[T].kept = traces[T].kept
      BY <1>8, <1>12, <2>1, <2>2
    <2>3. CASE ~(exports'[T] = exports[T] /\ traces'[T].kept = traces[T].kept)
      <3>1. /\ T \in TraceIds /\ exports'[T] = Append(exports[T], t)
            /\ t \in Tasks => Owned(T) /\ ~Owned(T)' /\ t = opener[Root(T)]
            /\ t \notin Runs /\ t \in Actors /\ traces'[T].kept = traces[T].kept
        BY <1>14, <2>1, <2>3
      <3> QED
        BY <1>6, <3>1
    <2> QED
      BY <2>2, <2>3
  <1>17. CASE \E r \in Runs : \E U : Ended(r, U)
    <2>1. PICK r \in Runs : \E U : Ended(r, U)
      BY <1>17
    <2>2. CASE exports'[T] = exports[T] /\ traces'[T].kept = traces[T].kept
      BY <1>9, <1>12, <2>1, <2>2
    <2>3. CASE ~(exports'[T] = exports[T] /\ traces'[T].kept = traces[T].kept)
      <3>1. /\ T \in TraceIds /\ exports'[T] = Append(exports[T], r)
            /\ r \notin Tasks /\ r \in Actors /\ traces[T].kept /\ ~traces'[T].kept
        BY <1>15, <2>1, <2>3
      <3> QED
        BY <1>6, <3>1
    <2> QED
      BY <2>2, <2>3
  <1>18. CASE \E U, up, who : Opened(U, up, who)
    BY <1>4, <1>12, <1>13, <1>18
  <1>19. CASE UNCHANGED <<traces, exports>>
    BY <1>11, <1>12, <1>19
  <1> QED
    <2>1. ASSUME NEW t \in Tasks, NEW U, NEW up, NEW kind, NEW own, Entered(t, U, up, kind, own)
          PROVE  \E W, above, who : Opened(W, above, who)
      BY <2>1 DEF Entered
    <2>2. ASSUME NEW t \in Tasks, NEW r \in Runs, NEW U, NEW up, RanFrom(t, r, U, up)
          PROVE  \E W, above, who : Opened(W, above, who)
      BY <2>2 DEF RanFrom
    <2> QED
      BY <1>10, <1>16, <1>17, <1>18, <1>19, <2>1, <2>2, StepKinds

RootAfter(T) == CHOOSE S \in traces'[T].spans : \A R \in traces'[T].spans : S <= R

\* What Keeps says of a root, in the forms the steps below use.
LEMMA RootsKept ==
    ASSUME Keeps, NEW T \in TraceIds
    PROVE  /\ RootAfter(T) = Root(T) /\ opener'[Root(T)] = opener[Root(T)]
           /\ Root(T) \in SpanIds
  BY DEF Keeps, Root, RootAfter

\* The context a task starts with came from the task that spawned it, before it
\* opened anything: it is never in a trace that the task opened.
LEMMA BaseForeignStep == IndInv /\ [Next]_vars => BaseForeign'
  <1> SUFFICES ASSUME IndInv, [Next]_vars, NEW u \in Tasks, base'[u].trace # None
               PROVE  opener'[RootAfter(base'[u].trace)] # u
    BY DEF BaseForeign, Root, RootAfter
  <1>1. /\ Shape /\ BaseForeign /\ FreshIdle /\ Keeps
        /\ base \in [Tasks -> Context] /\ ctx \in [Tasks -> Context]
    BY StepKeeps DEF IndInv, Shape, Locals
  <1> DEFINE SameRoot(T) == RootAfter(T) = Root(T) /\ opener'[Root(T)] = opener[Root(T)]
                            /\ Root(T) \in SpanIds
  <1>2. \A T \in TraceIds : SameRoot(T)
    BY <1>1, RootsKept
  <1> HIDE DEF SameRoot
  <1>3. ASSUME base'[u] = base[u]
        PROVE  opener'[RootAfter(base'[u].trace)] # u
    <2> DEFINE T == base[u].trace
    <2>1. T \in TraceIds /\ opener[Root(T)] # u
      BY <1>1, <1>3 DEF BaseForeign, Context
    <2> QED
      BY <1>2, <1>3, <2>1 DEF SameRoot
  <1>4. ASSUME NEW t \in Tasks, NEW v \in Tasks, Spawn(t, v)
        PROVE  opener'[RootAfter(base'[u].trace)] # u
    <2>1. CASE u # v
      <3>1. base'[u] = base[u]
        <4> HIDE DEF Context
        <4> QED
          BY <1>1, <1>4, <2>1 DEF Spawn
      <3> QED
        BY <1>3, <3>1
    <2>2. CASE u = v
      <3> DEFINE T == ctx[t].trace
      <3>1. base'[u] = ctx[t] /\ u \in fresh
        <4> HIDE DEF Context
        <4> QED
          BY <1>1, <1>4, <2>2 DEF Spawn
      <3>2. T \in TraceIds
        <4>1. ctx[t] \in Context /\ T # None
          BY <1>1, <3>1
        <4> QED
          BY <4>1 DEF Context
      <3>3. opener[Root(T)] # u
        BY <1>1, <1>2, <3>1, <3>2 DEF FreshIdle, SameRoot
      <3> QED
        BY <1>2, <3>1, <3>2, <3>3 DEF SameRoot
    <2> QED
      BY <2>1, <2>2
  <1>5. /\ \A t, T, up, kind, own : Entered(t, T, up, kind, own) => base' = base
        /\ \A t : Left(t) => base' = base
        /\ \A t, r, T, up : RanFrom(t, r, T, up) => base' = base
        /\ \A r, T : Ended(r, T) => base' = base
        /\ UNCHANGED vars => base' = base
    <2>1. \A t, T, up, kind, own : Entered(t, T, up, kind, own) => base' = base
      BY DEF Entered
    <2>2. \A t : Left(t) => base' = base
      BY DEF Left
    <2>3. \A t, r, T, up : RanFrom(t, r, T, up) => base' = base
      BY DEF RanFrom
    <2>4. \A r, T : Ended(r, T) => base' = base
      BY DEF Ended
    <2> QED
      BY <2>1, <2>2, <2>3, <2>4 DEF vars
  <1> QED
    BY <1>3, <1>4, <1>5, StepKinds

\* A task that joins a trace it opened is inside the trace's manager.
LEMMA InsideOwner ==
    ASSUME IndInv, NEW t \in Tasks, NEW T \in TraceIds, ctx[t].trace = T,
           opener[Root(T)] = t
    PROVE  \E j \in DOMAIN stack[t] : stack[t][j].own = T
  <1>1. /\ Shape /\ ContextFollowsStack /\ BaseForeign /\ OwnerAround
    BY DEF IndInv
  <1>2. stack[t] # <<>>
    BY <1>1, Types DEF ContextFollowsStack, BaseForeign
  <1>3. /\ Len(stack[t]) \in DOMAIN stack[t] /\ DOMAIN stack[t] = 1..Len(stack[t])
        /\ spans[stack[t][Len(stack[t])].span].trace = T
    BY <1>1, <1>2, Types DEF ContextFollowsStack, Top
  <1> QED
    BY <1>1, <1>3 DEF OwnerAround

\* Every step preserves that a task inside a trace it opened is inside the
\* manager that owns it.
LEMMA OwnerAroundStep == IndInv /\ [Next]_vars => OwnerAround'
  <1> SUFFICES ASSUME IndInv, [Next]_vars, NEW u \in Tasks, NEW i \in DOMAIN stack'[u],
                      NEW T, T = spans'[stack'[u][i].span].trace, opener'[RootAfter(T)] = u
               PROVE  \E j \in 1..i : stack'[u][j].own = T
    BY ZenonT(60) DEF OwnerAround, Root, RootAfter
  <1>1. /\ Shape /\ OwnerAround /\ Keeps /\ ActiveUntilExported
        /\ \A j \in DOMAIN stack[u] : stack[u][j].span \in SpanIds
        /\ \A S \in SpanIds : spans[S].trace \in TraceIds
        /\ DOMAIN stack[u] = 1..Len(stack[u])
    BY StepKeeps, Types DEF IndInv, Entry
  <1>2. CASE Old(u, i)
    <2>1. /\ T = spans[stack[u][i].span].trace /\ T \in TraceIds /\ opener[Root(T)] = u
          /\ i \in DOMAIN stack[u]
      BY <1>1, <1>2, RootsKept DEF Old, Keeps
    <2>2. PICK j \in 1..i : stack[u][j].own = T
      BY <1>1, <2>1 DEF OwnerAround
    <2>3. i \in Nat /\ (j = i \/ j \in 1..(i - 1))
      BY <1>1, <2>1
    <2>4. stack'[u][j] = stack[u][j]
      BY <1>2, <2>3 DEF Old
    <2> QED
      BY <2>2, <2>4
  <1>3. ASSUME Added(u, i), stack'[u][i].span = NewSpan,
               NEW U, NEW up, NEW kind, NEW own, Entered(u, U, up, kind, own),
               stack'[u][i].own = own
        PROVE  \E j \in 1..i : stack'[u][j].own = T
    <2>1. T = U /\ i \in Nat /\ i >= 1
      BY <1>3 DEF Entered, Opened, Added
    <2>2. CASE U = NewTrace
      <3>1. own = U
        BY <1>3, <2>2 DEF Entered
      <3>2. i \in 1..i
        BY <2>1
      <3> QED
        BY <1>3, <2>1, <3>1, <3>2
    <2>3. CASE U \in TraceIds
      <3>1. ctx[u].trace = U /\ opener[Root(U)] = u
        BY <1>1, <1>3, <2>1, <2>3, RootsKept DEF Entered
      <3>2. PICK j \in DOMAIN stack[u] : stack[u][j].own = U
        BY <2>3, <3>1, InsideOwner
      <3>3. j \in 1..(i - 1) /\ stack'[u][j] = stack[u][j]
        BY <1>3, <3>2 DEF Added
      <3>4. j \in 1..i
        BY <2>1, <3>3
      <3> QED
        BY <2>1, <3>2, <3>3, <3>4
    <2> QED
      BY <1>3, <2>2, <2>3 DEF Entered, Opened
  <1> QED
    BY <1>2, <1>3, EntryKinds

\* A step, in terms of the tables alone.
LEMMA TableKinds ==
    ASSUME IndInv, [Next]_vars
    PROVE  \/ \E T, up, who : Opened(T, up, who)
           \/ \E S0, T, who : Closed(S0, T, who)
           \/ UNCHANGED <<traces, spans, exports, openThen, late, opener>>
  <1>1. ASSUME NEW t \in Tasks, NEW T, NEW up, NEW kind, NEW own, Entered(t, T, up, kind, own)
        PROVE  \E U, above, who : Opened(U, above, who)
    BY <1>1 DEF Entered
  <1>2. ASSUME NEW t \in Tasks, NEW r \in Runs, NEW T, NEW up, RanFrom(t, r, T, up)
        PROVE  \E U, above, who : Opened(U, above, who)
    BY <1>2 DEF RanFrom
  <1>3. ASSUME NEW t \in Tasks, Left(t)
        PROVE  \E S0, T, who : Closed(S0, T, who)
    BY <1>3 DEF Left
  <1>4. ASSUME NEW r \in Runs, NEW T, Ended(r, T)
        PROVE  \E S0, U, who : Closed(S0, U, who)
    BY <1>4 DEF Ended
  <1>5. UNCHANGED vars \/ (\E t \in Tasks, v \in Tasks : Spawn(t, v))
          => UNCHANGED <<traces, spans, exports, openThen, late, opener>>
    BY DEF vars, Spawn, store, log
  <1> QED
    BY <1>1, <1>2, <1>3, <1>4, <1>5, StepKinds

\* A trace stops being active in the step that first hands it over.
LEMMA ActiveUntilExportedStep == IndInv /\ [Next]_vars => ActiveUntilExported'
  <1> SUFFICES ASSUME IndInv, [Next]_vars, NEW T \in TraceIds'
               PROVE  traces'[T].active <=> exports'[T] = <<>>
    BY DEF ActiveUntilExported
  <1>1. Shape /\ ActiveUntilExported
    BY DEF IndInv
  <1>2. ASSUME T \in TraceIds, traces'[T].active = traces[T].active, exports'[T] = exports[T]
        PROVE  traces'[T].active <=> exports'[T] = <<>>
    BY <1>1, <1>2 DEF ActiveUntilExported
  <1>3. ASSUME NEW U, NEW up, NEW who, Opened(U, up, who)
        PROVE  traces'[T].active <=> exports'[T] = <<>>
    BY <1>2, <1>3 DEF Opened
  <1>4. ASSUME NEW S0, NEW U, NEW who, Closed(S0, U, who)
        PROVE  traces'[T].active <=> exports'[T] = <<>>
    <2>1. T \in TraceIds /\ T # None
      BY <1>1, <1>4, Types DEF Closed
    <2>2. CASE T # U
      BY <1>2, <1>4, <2>1, <2>2 DEF Closed
    <2>3. CASE T = U
      <3>1. ~traces'[T].active /\ exports'[T] = Append(exports[T], who) /\ who \in Actors
        BY <1>4, <2>1, <2>3 DEF Closed
      <3>2. exports[T] \in Seq(Actors)
        BY <1>1, <2>1, Types
      <3>3. exports'[T] # <<>>
        BY <3>1, <3>2, AppendProperties
      <3> QED
        BY <3>1, <3>3
    <2> QED
      BY <2>2, <2>3
  <1>5. UNCHANGED <<traces, exports>> => traces'[T].active = traces[T].active /\ T \in TraceIds
    BY DEF TraceIds
  <1> QED
    BY <1>2, <1>3, <1>4, <1>5, TableKinds

\* A span made in a trace that was handed over is one of a run: a task's own
\* managers leave their trace last.
LEMMA NoLateSpanStep == IndInv /\ [Next]_vars => NoLateSpan'
  <1> SUFFICES ASSUME IndInv, [Next]_vars, NEW S \in late'
               PROVE  opener'[S] \in Runs
    BY DEF NoLateSpan
  <1>1. Shape /\ NoLateSpan /\ ActiveUntilExported /\ late \subseteq SpanIds /\ Keeps
    BY StepKeeps DEF IndInv, Shape, Tables
  <1>2. S \in late => opener'[S] \in Runs
    BY <1>1 DEF NoLateSpan, Keeps
  <1>3. ASSUME NEW t \in Tasks, NEW T, NEW up, NEW kind, NEW own, Entered(t, T, up, kind, own)
        PROVE  late' = late
    <2>1. \/ late' = late
          \/ T \in TraceIds /\ exports[T] # <<>> /\ traces[T].active
      BY <1>3 DEF Entered, Opened
    <2> QED
      BY <1>1, <2>1 DEF ActiveUntilExported
  <1>4. ASSUME NEW t \in Tasks, NEW r \in Runs, NEW T, NEW up, RanFrom(t, r, T, up)
        PROVE  opener'[S] \in Runs
    <2>1. opener'[NewSpan] = r /\ (late' = late \/ late' = late \cup {NewSpan})
      BY <1>4 DEF RanFrom, Opened
    <2> QED
      BY <1>2, <2>1
  <1>5. (\/ \E t \in Tasks : Left(t)
         \/ \E t \in Tasks, v \in Tasks : Spawn(t, v)
         \/ \E r \in Runs : \E T : Ended(r, T)
         \/ UNCHANGED vars) => late' = late
    BY DEF Left, Spawn, Ended, Closed, vars, log
  <1> QED
    BY <1>2, <1>3, <1>4, <1>5, StepKinds

\* When a trace is handed over, the spans of the task that opened it have
\* ended, unless a run cut the trace short.
LEMMA HandedOverCompleteStep == IndInv /\ [Next]_vars => HandedOverComplete'
  <1> SUFFICES ASSUME IndInv, [Next]_vars, NEW T \in TraceIds', NEW S \in openThen'[T],
                      opener'[S] = opener'[RootAfter(T)]
               PROVE  CutShort(T)'
    BY DEF HandedOverComplete, Root, RootAfter
  <1>1. Shape /\ HandedOverComplete /\ Keeps /\ Rooted
    BY StepKeeps DEF IndInv
  <1>2. CASE T \in TraceIds /\ openThen'[T] = openThen[T]
    <2>1. S \in SpanIds /\ S \in openThen[T]
      BY <1>1, <1>2, Types
    <2>2. opener[S] = opener[Root(T)]
      BY <1>1, <1>2, <2>1, RootsKept DEF Keeps
    <2>3. CutShort(T)
      BY <1>1, <1>2, <2>1, <2>2 DEF HandedOverComplete
    <2> QED
      BY <1>1, <1>2, <2>3, CutShortStays
  <1>3. ASSUME NEW U, NEW up, NEW who, Opened(U, up, who)
        PROVE  T \in TraceIds /\ openThen'[T] = openThen[T]
    BY <1>3 DEF Opened
  \* A trace handed over has no span of its root's opener that still runs.
  <1>4. ASSUME NEW S0, NEW who, T \in TraceIds, Closed(S0, T, who)
        PROVE  /\ S \in traces[T].spans /\ S \in SpanIds /\ S # S0
               /\ spans[S].status = "running" /\ Root(T) \in Nat /\ Root(T) <= S
               /\ opener[S] = opener[Root(T)] /\ opener'[Root(T)'] = opener[Root(T)]
               /\ exports'[T] = Append(exports[T], who) /\ exports[T] \in Seq(Actors)
               /\ who \in Actors
    <2>1. /\ T # None /\ traces[T].spans \subseteq SpanIds /\ exports[T] \in Seq(Actors)
          /\ Root(T) \in Nat
      BY <1>1, <1>4, Types, RootIsFirst
    <2>2. /\ S \in traces[T].spans /\ spans'[S].status = "running"
          /\ exports'[T] = Append(exports[T], who) /\ who \in Actors
      BY <1>4, <2>1 DEF Closed
    <2>3. S # S0 /\ spans[S].status = "running" /\ opener' = opener
      BY <1>4, <2>1, <2>2 DEF Closed
    <2>4. opener[S] = opener[Root(T)] /\ Root(T) <= S
      BY <1>1, <1>4, <2>2, <2>3, RootsKept, RootIsFirst
    <2>5. Root(T)' = Root(T)
      BY <1>1, <1>4 DEF Keeps
    <2> QED
      BY <2>1, <2>2, <2>3, <2>4, <2>5
  <1>5. ASSUME NEW t \in Tasks, Left(t), T = Top(t).own, T \in TraceIds
        PROVE  FALSE
    <2> DEFINE n == Len(stack[t])
    <2>1. /\ n \in Nat /\ DOMAIN stack[t] = 1..n /\ n \in DOMAIN stack[t] /\ Top(t) = stack[t][n]
      BY <1>1, <1>5, LeftStack
    <2> HIDE DEF n
    <2>2. T # None /\ Top(t).span = Root(T) /\ opener[Root(T)] = t
      BY <1>1, <1>5, <2>1, Types DEF IndInv, OwnsRoot, StackOpened
    <2>3. /\ S \in SpanIds /\ S # Root(T) /\ spans[S].status = "running"
          /\ opener[S] = t /\ Root(T) \in Nat /\ Root(T) <= S
      BY <1>4, <1>5, <2>2 DEF Left
    <2>4. PICK i \in DOMAIN stack[t] : stack[t][i].span = S
      BY <2>3 DEF IndInv, RunningHeld
    <2>5. i \in 1..(n - 1)
      BY <2>1, <2>2, <2>3, <2>4
    <2>6. S < Root(T)
      BY <2>1, <2>2, <2>4, <2>5 DEF IndInv, StackOpened
    <2>7. S \in Nat
      BY <1>1, <2>3, Types
    <2> QED
      BY <2>3, <2>6, <2>7
  <1>6. ASSUME NEW r \in Runs, T \in TraceIds, Ended(r, T)
        PROVE  CutShort(T)'
    <2>1. /\ S \in SpanIds /\ S # runs[r].span /\ opener[S] = opener[Root(T)]
          /\ opener'[Root(T)'] = opener[Root(T)]
          /\ exports'[T] = Append(exports[T], r) /\ exports[T] \in Seq(Actors) /\ r \in Actors
      BY <1>4, <1>6 DEF Ended
    <2>2. r # opener[Root(T)]
      <3>1. runs[r].span \in SpanIds /\ opener[runs[r].span] = r
        BY <1>6 DEF Ended, Closed, IndInv, RunsOpenOne
      <3> QED
        BY <1>6, <2>1, <3>1 DEF IndInv, RunsOpenOne
    <2> DEFINE n == Len(exports[T])
    <2>3. n + 1 \in DOMAIN exports'[T] /\ exports'[T][n + 1] = r
      <3>1. n \in Nat /\ DOMAIN exports'[T] = 1..(n + 1) /\ exports'[T][n + 1] = r
        BY <2>1, Appended
      <3> HIDE DEF n
      <3> QED
        BY <3>1
    <2> HIDE DEF n
    <2> QED
      BY <1>6, <2>1, <2>2, <2>3 DEF CutShort
  <1>7. ASSUME NEW S0, NEW U, NEW who, Closed(S0, U, who)
        PROVE  T \in TraceIds /\ (U # T => openThen'[T] = openThen[T])
    BY <1>7 DEF Closed
  <1>8. ASSUME NEW t \in Tasks, Left(t)
        PROVE  CutShort(T)'
    BY <1>2, <1>5, <1>7, <1>8 DEF Left
  <1>9. ASSUME NEW r \in Runs, NEW U, Ended(r, U)
        PROVE  CutShort(T)'
    <2>1. T \in TraceIds /\ (U # T => openThen'[T] = openThen[T])
      <3>1. Closed(runs[r].span, U, r)
        BY <1>9 DEF Ended
      <3> QED
        BY <1>7, <3>1
    <2>2. CASE U # T
      BY <1>2, <2>1, <2>2
    <2>3. CASE U = T
      BY <1>6, <1>9, <2>1, <2>3
    <2> QED
      BY <2>2, <2>3
  <1>10. UNCHANGED vars \/ (\E t \in Tasks, v \in Tasks : Spawn(t, v))
           => T \in TraceIds /\ openThen'[T] = openThen[T]
    BY DEF vars, Spawn, store, log, TraceIds
  <1>11. ASSUME NEW t \in Tasks, NEW U, NEW up, NEW kind, NEW own, Entered(t, U, up, kind, own)
         PROVE  CutShort(T)'
    BY <1>2, <1>3, <1>11 DEF Entered
  <1>12. ASSUME NEW t \in Tasks, NEW r \in Runs, NEW U, NEW up, RanFrom(t, r, U, up)
         PROVE  CutShort(T)'
    BY <1>2, <1>3, <1>12 DEF RanFrom
  <1> QED
    BY <1>2, <1>8, <1>9, <1>10, <1>11, <1>12, StepKinds

\* A parent in another trace is in one that was handed over.
LEMMA ForeignParentStep == IndInv /\ [Next]_vars => ForeignParentExplained'
  <1> SUFFICES ASSUME IndInv, [Next]_vars, NEW S \in SpanIds', NEW P, P = spans'[S].parent,
                      P # None, spans'[P].trace # spans'[S].trace
               PROVE  exports'[spans'[P].trace] # <<>>
    BY DEF ForeignParentExplained
  <1>1. /\ Shape /\ ForeignParentExplained /\ Keeps /\ ContextsConsistent /\ ActiveUntilExported
        /\ \A R \in SpanIds : spans[R].trace \in TraceIds
        /\ ctx \in [Tasks -> Context] /\ None \notin TraceIds
        /\ \A U \in TraceIds : exports[U] \in Seq(Actors)
    BY StepKeeps, Types DEF IndInv, ParentsExplained, Shape, Locals
  <1>2. ASSUME NEW U \in TraceIds, exports[U] # <<>>
        PROVE  exports'[U] # <<>>
    <2>1. \/ exports'[U] = exports[U]
          \/ \E who \in Actors : exports'[U] = Append(exports[U], who)
      BY <1>1, <1>2 DEF Keeps
    <2>2. exports[U] \in Seq(Actors)
      BY <1>1
    <2> QED
      BY <1>2, <2>1, <2>2, AppendProperties
  <1>3. CASE S \in SpanIds
    <2>1. P = spans[S].parent /\ spans'[S].trace = spans[S].trace
      BY <1>1, <1>3 DEF Keeps
    <2>2. P \in SpanIds
      <3>1. TypeOK /\ Len(spans) \in Nat
        BY <1>1, Types DEF IndInv
      <3>2. spans[S].parent \in 0..(S - 1) /\ S \in Nat /\ S <= Len(spans)
        BY <1>3, <3>1 DEF TypeOK, SpanIds
      <3> QED
        BY <2>1, <3>1, <3>2 DEF SpanIds, None
    <2>3. spans'[P].trace = spans[P].trace
      BY <1>1, <2>2 DEF Keeps
    <2>4. exports[spans[P].trace] # <<>>
      BY <1>1, <1>3, <2>1, <2>3 DEF ForeignParentExplained
    <2> QED
      BY <1>1, <1>2, <2>2, <2>3, <2>4
  <1>4. ASSUME NEW T, NEW up, NEW who, Opened(T, up, who), S = NewSpan
        PROVE  P = up /\ P \in SpanIds /\ spans[P].trace # T /\ spans'[P].trace = spans[P].trace
    <2>1. spans'[NewSpan].trace = T /\ spans'[NewSpan].parent = up /\ up \in SpanIds \cup {None}
      BY <1>4 DEF Opened
    <2> QED
      BY <1>1, <1>4, <2>1 DEF Keeps
  <1>5. \A t \in Tasks : /\ ctx[t].span # None => spans[ctx[t].span].trace = ctx[t].trace
                         /\ ctx[t].trace \in {None} \cup TraceIds
    BY <1>1 DEF ContextsConsistent, Consistent, Context
  <1>6. ASSUME NEW t \in Tasks, NEW T, NEW up, NEW kind, NEW own, Entered(t, T, up, kind, own),
               S = NewSpan
        PROVE  exports'[spans'[P].trace] # <<>>
    <2>1. P = up /\ P \in SpanIds /\ spans[P].trace # T /\ spans'[P].trace = spans[P].trace
      BY <1>4, <1>6 DEF Entered
    <2>2. up = ctx[t].span /\ ~Active(ctx[t].trace)
      BY <1>1, <1>5, <1>6, <2>1 DEF Entered, Opened
    <2>3. ctx[t].trace = spans[P].trace /\ ctx[t].trace \in TraceIds
      BY <1>1, <1>5, <2>1, <2>2
    <2>4. exports[spans[P].trace] # <<>>
      BY <1>1, <2>2, <2>3 DEF Active, ActiveUntilExported
    <2> QED
      BY <1>1, <1>2, <2>1, <2>4
  <1>7. ASSUME NEW t \in Tasks, NEW r \in Runs, NEW T, NEW up, RanFrom(t, r, T, up), S = NewSpan
        PROVE  FALSE
    <2>1. P = up /\ P \in SpanIds /\ spans[P].trace # T
      BY <1>4, <1>7 DEF RanFrom
    <2>2. CASE T \in TraceIds
      BY <1>5, <1>7, <2>1, <2>2 DEF RanFrom
    <2>3. CASE T = NewTrace
      <3>1. up = ctx[t].span /\ ctx[t].trace = None
        BY <1>7, <2>3 DEF RanFrom
      <3> QED
        BY <1>1, <1>5, <2>1, <3>1
    <2> QED
      BY <1>7, <2>2, <2>3 DEF RanFrom, Opened
  <1>8. (\/ \E t \in Tasks : Left(t)
         \/ \E t \in Tasks, v \in Tasks : Spawn(t, v)
         \/ \E r \in Runs : \E T : Ended(r, T)
         \/ UNCHANGED vars) => SpanIds' = SpanIds
    BY DEF Left, Spawn, Ended, Closed, vars, store, SpanIds
  <1>9. ASSUME NEW t \in Tasks, NEW T, NEW up, NEW kind, NEW own, Entered(t, T, up, kind, own)
        PROVE  S \in SpanIds \/ S = NewSpan
    BY <1>9 DEF Entered, Opened
  <1>10. ASSUME NEW t \in Tasks, NEW r \in Runs, NEW T, NEW up, RanFrom(t, r, T, up)
         PROVE  S \in SpanIds \/ S = NewSpan
    BY <1>10 DEF RanFrom, Opened
  <1> QED
    BY <1>3, <1>6, <1>7, <1>8, <1>9, <1>10, StepKinds

\* A trace that its opener is still inside was handed over by a run, if it was.
LEMMA OwnedCutShort ==
    ASSUME IndInv, NEW T \in TraceIds, Owned(T), exports[T] # <<>>, opener[Root(T)] \in Tasks
    PROVE  CutShort(T)
  <1>1. exports[T] \in Seq(Actors) /\ T \in TraceIds
    BY Types DEF IndInv
  <1>2. 1 \in DOMAIN exports[T] /\ exports[T][1] \in Actors
    <2> DEFINE s == exports[T]
    <2>1. s \in Seq(Actors) /\ s # <<>>
      BY <1>1
    <2> HIDE DEF s
    <2>2. 1 \in DOMAIN s /\ s[1] \in Actors
      BY <2>1
    <2> QED
      BY <2>2 DEF s
  <1>3. exports[T][1] \in Runs
    BY <1>2 DEF IndInv, HandOvers, Actors
  <1>4. exports[T][1] # opener[Root(T)]
    BY <1>3, TracerAssumption
  <1> QED
    BY <1>2, <1>3, <1>4 DEF CutShort

\* CutShort, after the step.
CutShortAfter(T) ==
    \E k \in DOMAIN exports'[T] : exports'[T][k] \in Runs /\ exports'[T][k] # opener'[RootAfter(T)]

\* A manager of a span lies in the trace around it, or there is a reason.
Together(t, i, T) ==
    stack[t][i].kind = "span" =>
        \/ spans[stack[t][i].span].trace = T
        \/ exports[T] # <<>> /\ (opener[Root(T)] # t \/ CutShort(T))

AllTogether ==
    \A t \in Tasks : \A i \in 2..Len(stack[t]) : \A T :
        T = spans[stack[t][i - 1].span].trace => Together(t, i, T)

\* The same property with its body under a name, so that it can be stated of
\* the next state.
LEMMA TogetherForm == SpansStayTogether <=> AllTogether
  BY DEF SpansStayTogether, AllTogether, Together

\* A span opened inside a manager is in that manager's trace, unless that trace
\* was handed over by then.
LEMMA SpansStayTogetherStep == IndInv /\ [Next]_vars => SpansStayTogether'
  <1> SUFFICES ASSUME IndInv, [Next]_vars, NEW u \in Tasks, NEW i \in 2..Len(stack'[u]),
                      NEW outer, outer = spans'[stack'[u][i - 1].span].trace,
                      stack'[u][i].kind = "span", spans'[stack'[u][i].span].trace # outer
               PROVE  /\ exports'[outer] # <<>>
                      /\ opener'[RootAfter(outer)] # u \/ CutShortAfter(outer)
    <2>1. SpansStayTogether' <=> AllTogether'
      BY TogetherForm, PTL
    <2>2. \A T : Root(T)' = RootAfter(T)
      BY DEF Root, RootAfter
    <2>3. \A T : CutShort(T)' = CutShortAfter(T)
      BY <2>2 DEF CutShort, CutShortAfter
    <2> QED
      BY <2>1, <2>2, <2>3 DEF AllTogether, Together
  <1>1. /\ Shape /\ Shape' /\ SpansStayTogether /\ Keeps /\ ContextFollowsStack
        /\ ContextsConsistent /\ ActiveUntilExported
        /\ \A j \in DOMAIN stack[u] : stack[u][j].span \in SpanIds
        /\ \A S \in SpanIds : spans[S].trace \in TraceIds
        /\ DOMAIN stack[u] = 1..Len(stack[u]) /\ Len(stack[u]) \in Nat
        /\ \A U \in TraceIds : exports[U] \in Seq(Actors)
    BY StepKeeps, ShapeStep, Types DEF IndInv, ParentsExplained, Entry
  <1>2. i \in DOMAIN stack'[u] /\ i - 1 \in 1..(i - 1) /\ i \in Nat /\ i >= 2
    <2> DEFINE n == Len(stack'[u])
    <2>1. DOMAIN stack'[u] = 1..n /\ n \in Nat
      BY <1>1 DEF Shape, Locals
    <2>2. i \in 2..n
      OBVIOUS
    <2> HIDE DEF n
    <2> QED
      BY <2>1, <2>2
  \* What explained it explains it still.
  <1>3. ASSUME outer \in TraceIds, exports[outer] # <<>>, opener[Root(outer)] # u \/ CutShort(outer)
        PROVE  /\ exports'[outer] # <<>>
               /\ opener'[RootAfter(outer)] # u \/ CutShortAfter(outer)
    <2>1. \/ exports'[outer] = exports[outer]
          \/ \E who \in Actors : exports'[outer] = Append(exports[outer], who)
      BY <1>1, <1>3 DEF Keeps
    <2>2. exports[outer] \in Seq(Actors)
      BY <1>1, <1>3
    <2>3. exports'[outer] # <<>>
      <3> DEFINE h == exports[outer]
      <3>1. h \in Seq(Actors) /\ h # <<>> /\ \A who \in Actors : Append(h, who) # <<>>
        <4>1. h \in Seq(Actors) /\ h # <<>>
          BY <1>3, <2>2
        <4> HIDE DEF h
        <4> QED
          BY <4>1, AppendProperties
      <3> QED
        BY <2>1, <3>1
    <2>4. CutShort(outer) => CutShortAfter(outer)
      <3>1. CutShort(outer) => CutShort(outer)'
        BY <1>1, <1>3, CutShortStays
      <3>2. Root(outer)' = RootAfter(outer)
        BY DEF Root, RootAfter
      <3> QED
        BY <3>1, <3>2 DEF CutShort, CutShortAfter
    <2>5. opener'[RootAfter(outer)] = opener[Root(outer)]
      BY <1>1, <1>3, RootsKept
    <2> QED
      BY <1>3, <2>3, <2>4, <2>5
  <1>4. CASE Old(u, i)
    <2>1. /\ i - 1 \in DOMAIN stack[u] /\ stack'[u][i - 1] = stack[u][i - 1]
          /\ i \in DOMAIN stack[u] /\ stack'[u][i] = stack[u][i] /\ i \in 2..Len(stack[u])
      BY <1>1, <1>2, <1>4 DEF Old
    <2>2. /\ outer = spans[stack[u][i - 1].span].trace /\ outer \in TraceIds
          /\ spans[stack[u][i].span].trace # outer
      BY <1>1, <2>1 DEF Keeps
    <2>3. exports[outer] # <<>> /\ (opener[Root(outer)] # u \/ CutShort(outer))
      BY <1>1, <2>1, <2>2 DEF SpansStayTogether
    <2> QED
      BY <1>3, <2>2, <2>3
  <1>5. ASSUME Added(u, i), stack'[u][i].span = NewSpan,
               NEW T, NEW up, NEW kind, NEW own, Entered(u, T, up, kind, own),
               stack'[u][i].kind = kind
        PROVE  /\ exports'[outer] # <<>>
               /\ opener'[RootAfter(outer)] # u \/ CutShortAfter(outer)
    <2> DEFINE n == Len(stack[u])
    <2>1. n = i - 1 /\ n \in DOMAIN stack[u] /\ stack'[u][n] = stack[u][n] /\ stack[u] # <<>>
      <3>1. i = n + 1 /\ n \in Nat /\ 1..(i - 1) = DOMAIN stack[u]
            /\ \A j \in DOMAIN stack[u] : stack'[u][j] = stack[u][j]
        BY <1>5 DEF Added
      <3>2. n = i - 1 /\ n \in DOMAIN stack[u]
        <4> HIDE DEF n
        <4> QED
          BY <1>2, <3>1
      <3> QED
        BY <3>1, <3>2
    <2>2. outer = spans[Top(u).span].trace /\ outer \in TraceIds /\ ctx[u].trace = outer
      <3>1. Top(u) = stack[u][n] /\ stack[u][n].span \in SpanIds
        BY <1>1, <2>1 DEF Top
      <3>2. outer = spans[stack[u][n].span].trace /\ outer \in TraceIds
        BY <1>1, <2>1, <3>1 DEF Keeps
      <3> QED
        BY <1>1, <2>1, <3>1, <3>2 DEF ContextFollowsStack
    <2>3. T # outer /\ kind = "span"
      BY <1>5 DEF Entered, Opened
    <2>4. ~Active(outer)
      BY <1>5, <2>2, <2>3 DEF Entered, Opened
    <2>5. exports[outer] # <<>>
      BY <1>1, <2>2, <2>4, Types DEF Active, ActiveUntilExported
    <2>6. opener[Root(outer)] = u => CutShort(outer)
      <3> SUFFICES ASSUME opener[Root(outer)] = u
                   PROVE  CutShort(outer)
        OBVIOUS
      <3>1. Owned(outer)
        BY <2>2, InsideOwner DEF Owned
      <3> QED
        BY <2>2, <2>5, <3>1, OwnedCutShort
    <2> QED
      BY <1>3, <2>2, <2>5, <2>6
  <1> QED
    BY <1>2, <1>4, <1>5, EntryKinds

-----------------------------------------------------------------------------
(* The theorems.                                                           *)

\* The invariant holds initially: nothing was made.
LEMMA InitInvariant == Init => IndInv
  <1> SUFFICES ASSUME Init
               PROVE  IndInv
    OBVIOUS
  <1>1. /\ traces = <<>> /\ spans = <<>> /\ opener = <<>> /\ exports = <<>> /\ openThen = <<>>
        /\ late = {} /\ ctx = [t \in Tasks |-> NoContext] /\ stack = [t \in Tasks |-> <<>>]
        /\ runs = [r \in Runs |-> NoRun] /\ base = ctx /\ fresh = Tasks /\ used = {}
    BY DEF Init
  <1>2. TraceIds = {} /\ SpanIds = {}
    BY <1>1 DEF TraceIds, SpanIds
  <1>3. Shape
    <2>1. NoContext \in Context
      BY DEF NoContext, Context
    <2>2. \A X : <<>> \in Seq(X)
      OBVIOUS
    <2>3. Tables
      BY <1>1, <1>2, <2>2 DEF Tables
    <2>4. ctx \in [Tasks -> Context] /\ base \in [Tasks -> Context]
      BY <1>1, <2>1
    <2>5. stack \in [Tasks -> Seq(Entry)]
      BY <1>1, <2>2
    <2>6. runs \in [Runs -> [span : {None} \cup SpanIds, root : BOOLEAN, chain : BOOLEAN]]
      BY <1>1 DEF NoRun
    <2> QED
      BY <1>1, <2>3, <2>4, <2>5, <2>6 DEF Shape, Locals
  <1>4. \A t \in Tasks : /\ stack[t] = <<>> /\ DOMAIN stack[t] = {} /\ Len(stack[t]) = 0
                         /\ ctx[t] = NoContext /\ base[t] = NoContext
    BY <1>1
  <1>5. ContextsConsistent /\ ContextFollowsStack /\ BaseForeign
    BY <1>4 DEF ContextsConsistent, Consistent, ContextFollowsStack, BaseForeign, NoContext
  <1>6. /\ SavedBelow /\ FreshIdle /\ StackOpened /\ OwnsRoot /\ RunningHeld /\ OwnerAround
    BY <1>1, <1>2, <1>4 DEF SavedBelow, FreshIdle, StackOpened, OwnsRoot, RunningHeld, OwnerAround
  <1>7. RunsOpenOne
    BY <1>1, <1>2 DEF RunsOpenOne, NoRun
  <1>8. Rooted /\ HandOvers /\ ActiveUntilExported /\ HandedOverComplete /\ NoLateSpan
    BY <1>1, <1>2 DEF Rooted, HandOvers, ActiveUntilExported, HandedOverComplete, NoLateSpan
  <1>9. ParentsExplained
    <2>1. ForeignParentExplained
      BY <1>2 DEF ForeignParentExplained
    <2>2. SpansStayTogether
      BY <1>4 DEF SpansStayTogether
    <2> QED
      BY <2>1, <2>2 DEF ParentsExplained
  <1> QED
    BY <1>3, <1>5, <1>6, <1>7, <1>8, <1>9, TypesOfShape DEF IndInv

\* Every step preserves the invariant.
LEMMA StepInvariant == IndInv /\ [Next]_vars => IndInv'
  <1> SUFFICES ASSUME IndInv, [Next]_vars
               PROVE  IndInv'
    OBVIOUS
  <1>1. Shape' => TypeOK'
    BY TypesOfShape, PTL
  <1>2. Shape' /\ TypeOK'
    BY <1>1, ShapeStep
  <1>3. /\ Rooted' /\ ContextsConsistent' /\ ContextFollowsStack' /\ SavedBelow' /\ FreshIdle'
        /\ StackOpened' /\ OwnsRoot' /\ RunningHeld' /\ RunsOpenOne' /\ HandOvers'
    BY RootedStep, ContextsConsistentStep, ContextFollowsStep, SavedBelowStep, FreshIdleStep,
       StackOpenedStep, OwnsRootStep, RunningHeldStep, RunsOpenOneStep, HandOversStep
  <1>4. /\ BaseForeign' /\ OwnerAround' /\ ActiveUntilExported' /\ HandedOverComplete'
        /\ NoLateSpan' /\ ParentsExplained'
    BY BaseForeignStep, OwnerAroundStep, ActiveUntilExportedStep, HandedOverCompleteStep,
       NoLateSpanStep, ForeignParentStep, SpansStayTogetherStep DEF ParentsExplained
  <1> QED
    BY <1>2, <1>3, <1>4 DEF IndInv

\* Two hand-overs of a trace are by its opener and by a chain inside it.
LEMMA OnceUnlessCutShort == IndInv => ExportedOnce
  <1> SUFFICES ASSUME IndInv, NEW T \in TraceIds, ~(Len(exports[T]) <= 1)
               PROVE  Len(exports[T]) <= 2 /\ CutShort(T)
    BY DEF ExportedOnce
  <1> DEFINE s == exports[T]
             n == Len(s)
  <1>1. s \in Seq(Actors) /\ n <= 2 /\ HandOvers /\ T \in TraceIds
    BY Types DEF IndInv, HandOvers
  <1>2. n = 2 /\ DOMAIN s = 1..n /\ \A k \in 1..n : s[k] \in Actors
    <2>1. n \in Nat /\ ~(n <= 1) /\ DOMAIN s = 1..n /\ \A k \in 1..n : s[k] \in Actors
      BY <1>1
    <2> HIDE DEF n
    <2> QED
      BY <1>1, <2>1
  <1>3. 1 \in DOMAIN s /\ 2 \in DOMAIN s
    BY <1>2
  <1>4. s[1] \in Tasks <=> s[2] \in Runs
    BY <1>1, <1>3 DEF HandOvers
  <1>5. \A k \in DOMAIN s : s[k] \in Tasks => s[k] = opener[Root(T)]
    BY <1>1 DEF HandOvers
  <1>6. \E k, l \in {1, 2} : s[k] \in Tasks /\ s[l] \in Runs
    BY <1>2, <1>3, <1>4 DEF Actors
  <1>7. \E l \in DOMAIN s : s[l] \in Runs /\ s[l] # opener[Root(T)]
    BY <1>3, <1>5, <1>6, TracerAssumption
  <1> QED
    BY <1>1, <1>7 DEF CutShort

\* The inductive invariant holds in every state.
THEOREM Invariance == Spec => []IndInv
  BY InitInvariant, StepInvariant, PTL DEF Spec

\* Traces, spans, contexts and managers have their types in every state.
THEOREM TypeCorrect == Spec => []TypeOK
  <1>1. IndInv => TypeOK
    BY DEF IndInv
  <1> QED
    BY <1>1, Invariance, PTL

\* Whatever tasks do in between, a task's contextvars are those its innermost
\* manager set, and the ones it started with after the last is left.
THEOREM ContextRestored == Spec => []ContextFollowsStack
  <1>1. IndInv => ContextFollowsStack
    BY DEF IndInv
  <1> QED
    BY <1>1, Invariance, PTL

\* A trace leaves the registry and reaches the exporter together, with all
\* its opener did, and a second time only through a chain run inside it.
THEOREM HandOversExplained == Spec => []HandOverExplained
  <1>1. IndInv => HandOverExplained
    BY OnceUnlessCutShort DEF IndInv, HandOverExplained
  <1> QED
    BY <1>1, Invariance, PTL

\* A span lies apart from its parent, or from the manager around it, only
\* when the outer trace was handed over before.
THEOREM ParentsAreExplained == Spec => []ParentsExplained
  <1>1. IndInv => ParentsExplained
    BY DEF IndInv
  <1> QED
    BY <1>1, Invariance, PTL

=============================================================================
