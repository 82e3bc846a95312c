------------------------------- MODULE Tracer -------------------------------
(***************************************************************************)
(* The SDK's Tracer: traces and spans opened by context managers and by    *)
(* the @trace decorator in asyncio tasks and threads, each with its own    *)
(* contextvars, over registries they share; and the LangChain callback     *)
(* handler, which starts and ends traces and spans without a context.      *)
(*                                                                         *)
(* An operation is one step: its registry accesses are single dictionary   *)
(* operations, and an asyncio task gives way only at an await.             *)
(* Traces and spans are numbered 1, 2, ... in the order they are created.  *)
(***************************************************************************)
EXTENDS Integers, Sequences, FiniteSets

CONSTANTS
    Tasks,      \* asyncio tasks and threads
    Runs,       \* LangChain run ids
    MaxTraces,  \* bound: traces in a behaviour
    MaxSpans    \* bound: spans in a behaviour

ASSUME TracerAssumption ==
    /\ Tasks \cap Runs = {}
    /\ MaxTraces \in Nat /\ MaxSpans \in Nat

VARIABLES
    traces,     \* [status, spans, active, kept]: active in
                \*   _ACTIVE_TRACES_REGISTRY, kept in Tracer.traces
    spans,      \* [trace, parent, status]
    ctx,        \* per task: the two contextvars
    stack,      \* per task: the context managers entered and not yet left
    runs,       \* per run id: its entry in the handler's _runs
    \* History:
    base,       \* per task: its contextvars when it started
    fresh,      \* tasks that have done nothing yet
    used,       \* runs that were started
    opener,     \* per span: the task or run that opened it
    exports,    \* per trace: the tasks and runs that handed it to the exporter
    openThen,   \* per trace: its spans still running when it was handed over
    late        \* spans that joined a trace handed over before

store == <<traces, spans>>
log == <<opener, exports, openThen, late>>
vars == <<store, ctx, stack, runs, base, fresh, used, log>>

None == 0
NoContext == [trace |-> None, span |-> None]
NoRun == [span |-> None, root |-> FALSE, chain |-> FALSE]
NewTrace == Len(traces) + 1
NewSpan == Len(spans) + 1
Active(T) == T # None /\ traces[T].active
Top(t) == stack[t][Len(stack[t])]
Pop(t) == SubSeq(stack[t], 1, Len(stack[t]) - 1)

Init ==
    /\ traces = <<>> /\ spans = <<>>
    /\ ctx = [t \in Tasks |-> NoContext] /\ stack = [t \in Tasks |-> <<>>]
    /\ runs = [r \in Runs |-> NoRun]
    /\ base = ctx /\ fresh = Tasks /\ used = {}
    /\ opener = <<>> /\ exports = <<>> /\ openThen = <<>> /\ late = {}

-----------------------------------------------------------------------------
(* Building blocks.                                                        *)

\* start_trace, with the spans given.
Started(trs, ss) ==
    Append(trs, [status |-> "running", spans |-> ss, active |-> TRUE, kept |-> TRUE])

\* A trace is started, or the span given joins the trace T.
Joins(starts, T, S) ==
    /\ traces' = IF starts THEN Started(traces, {S})
                           ELSE [traces EXCEPT ![T].spans = @ \cup {S}]
    /\ exports' = IF starts THEN Append(exports, <<>>) ELSE exports
    /\ openThen' = IF starts THEN Append(openThen, {}) ELSE openThen
    /\ late' = IF ~starts /\ exports[T] # <<>> THEN late \cup {S} ELSE late

\* OpensSpan: the span is made current before its parent is read. (Faulty variant.)
OpensSpanBelowItself(T, parent, who) ==
    /\ Len(spans) < MaxSpans
    /\ spans' = Append(spans, [trace |-> T, parent |-> NewSpan, status |-> "running"])
    /\ opener' = Append(opener, who)

\* A new Span.
OpensSpan(T, parent, who) ==
    /\ Len(spans) < MaxSpans
    /\ spans' = Append(spans, [trace |-> T, parent |-> parent, status |-> "running"])
    /\ opener' = Append(opener, who)

\* Span.fail or Span.finish; Trace.fail or Trace.finish.
SpanEnd(S, failed) ==
    [spans EXCEPT ![S].status =
        IF failed THEN "error" ELSE IF @ = "running" THEN "ok" ELSE @]
TraceEnd(T, failed) ==
    IF failed THEN "error"
    ELSE IF traces[T].status # "running" THEN traces[T].status
    ELSE IF \E S \in traces[T].spans : spans'[S].status = "error" THEN "error"
    ELSE "ok"

\* _export.
Exports(T, who) ==
    /\ exports' = [exports EXCEPT ![T] = Append(@, who)]
    /\ openThen' = [openThen EXCEPT
                      ![T] = {S \in traces[T].spans : spans'[S].status = "running"}]

Acts(t) == fresh' = fresh \ {t}

\* __enter__ sets the contextvars and keeps what to put back.
Push(t, kind, own, T, S) ==
    /\ stack' = [stack EXCEPT ![t] =
                   Append(@, [kind |-> kind, own |-> own, span |-> S, saved |-> ctx[t]])]
    /\ ctx' = [ctx EXCEPT ![t] = [trace |-> T, span |-> S]]

-----------------------------------------------------------------------------
(* Context managers.                                                       *)

\* TraceContextManager.__enter__: a trace with a root span, both current.
EnterTrace(t) ==
    /\ Len(traces) < MaxTraces
    /\ OpensSpan(NewTrace, None, t)
    /\ Joins(TRUE, NewTrace, NewSpan)
    /\ Push(t, "trace", NewTrace, NewTrace, NewSpan)
    /\ Acts(t)
    /\ UNCHANGED <<runs, base, used>>

\* EnterSpan: always a trace of its own. (Faulty variant.)
EnterSpanAlone(t) ==
    /\ Len(traces) < MaxTraces
    /\ OpensSpan(NewTrace, None, t)
    /\ Joins(TRUE, NewTrace, NewSpan)
    /\ Push(t, "span", NewTrace, NewTrace, NewSpan)
    /\ Acts(t)
    /\ UNCHANGED <<runs, base, used>>

\* SpanContextManager.__enter__: below the current span, in the current trace
\* if that is active, else in a trace made for it.
EnterSpan(t) ==
    LET auto == ~Active(ctx[t].trace)
        T == IF auto THEN NewTrace ELSE ctx[t].trace
    IN  /\ auto => Len(traces) < MaxTraces
        /\ OpensSpan(T, ctx[t].span, t)
        /\ Joins(auto, T, NewSpan)
        /\ Push(t, "span", IF auto THEN T ELSE None, T, NewSpan)
        /\ Acts(t)
        /\ UNCHANGED <<runs, base, used>>

\* A function under @trace runs inside a trace of its own when none is in
\* context, be it active or not, and inside a span otherwise.
CallTraced(t) ==
    \/ ctx[t].trace = None /\ EnterTrace(t)
    \/ ctx[t].trace # None /\ EnterSpan(t)

\* __exit__ of the innermost manager, with or without an exception: the span
\* ends, and then the trace it owns, which is handed over.
Leaves(t, failed, restored, active) ==
    /\ stack[t] # <<>>
    /\ spans' = SpanEnd(Top(t).span, failed)
    /\ IF Top(t).own = None
         THEN UNCHANGED <<traces, exports, openThen>>
         ELSE /\ traces' = [traces EXCEPT ![Top(t).own].status = TraceEnd(Top(t).own, failed),
                                          ![Top(t).own].active = active]
              /\ Exports(Top(t).own, t)
    /\ ctx' = [ctx EXCEPT ![t] = restored]
    /\ stack' = [stack EXCEPT ![t] = Pop(t)]
    /\ UNCHANGED <<runs, base, fresh, used, opener, late>>

\* Exit: the contextvars are cleared, not reset. (Faulty variant.)
ExitClears(t, failed) == Leaves(t, failed, NoContext, FALSE)

\* Exit: the span is ended last. (Faulty variant.)
ExitSpanLast(t, failed) ==
    /\ stack[t] # <<>>
    /\ spans' = SpanEnd(Top(t).span, failed)
    /\ IF Top(t).own = None
         THEN UNCHANGED <<traces, exports, openThen>>
         ELSE /\ traces' = [traces EXCEPT ![Top(t).own].status = TraceEnd(Top(t).own, failed),
                                          ![Top(t).own].active = FALSE]
              /\ exports' = [exports EXCEPT ![Top(t).own] = Append(@, t)]
              /\ openThen' = [openThen EXCEPT ![Top(t).own] =
                     {S \in traces[Top(t).own].spans : spans[S].status = "running"}]
    /\ ctx' = [ctx EXCEPT ![t] = Top(t).saved]
    /\ stack' = [stack EXCEPT ![t] = Pop(t)]
    /\ UNCHANGED <<runs, base, fresh, used, opener, late>>

Exit(t, failed) == Leaves(t, failed, Top(t).saved, FALSE)

\* A task is created with a copy of the creator's context; a thread starts
\* with an empty one, which is what every task has at first here.
Spawn(t, u) ==
    /\ u \in fresh /\ t # u /\ t \notin fresh
    /\ ctx' = [ctx EXCEPT ![u] = ctx[t]]
    /\ base' = [base EXCEPT ![u] = ctx[t]]
    /\ Acts(u)
    /\ UNCHANGED <<store, stack, runs, used, log>>

-----------------------------------------------------------------------------
(* LangChain callbacks, called in some task's context.                     *)

\* _get_or_create_span. The handler does not set the contextvars, and a trace that is
\* no longer kept does not get the span.
RunStart(t, r, parent, chain) ==
    /\ r \notin used
    /\ parent # None => parent \in used
    /\ LET below == parent # None /\ runs[parent].span # None
           starts == ~below /\ ctx[t].trace = None
           T == IF below THEN spans[runs[parent].span].trace
                ELSE IF starts THEN NewTrace ELSE ctx[t].trace
           up == IF below THEN runs[parent].span ELSE ctx[t].span
       IN  /\ starts => Len(traces) < MaxTraces
           /\ OpensSpan(T, up, r)
           /\ IF starts \/ traces[T].kept
                THEN Joins(starts, T, NewSpan)
                ELSE UNCHANGED <<traces, exports, openThen, late>>
           /\ runs' = [runs EXCEPT ![r] = [span |-> NewSpan, root |-> parent = None,
                                           chain |-> chain]]
    /\ used' = used \cup {r} /\ Acts(t)
    /\ UNCHANGED <<ctx, stack, base>>

\* end_trace.
EndTrace(T, who) ==
    /\ traces' = [traces EXCEPT
                    ![T].active = FALSE, ![T].kept = FALSE,
                    ![T].status = IF traces[T].kept THEN TraceEnd(T, FALSE) ELSE @]
    /\ IF traces[T].kept THEN Exports(T, who) ELSE UNCHANGED <<exports, openThen>>

\* on_chain_start; on_llm_start, on_tool_start and on_retriever_start.
ChainStart(t, r, parent) == RunStart(t, r, parent, TRUE)
LeafStart(t, r, parent) == RunStart(t, r, parent, FALSE)

\* The handler forgets the run, and its span ends.
RunEnd(r, failed) ==
    /\ runs[r].span # None
    /\ spans' = SpanEnd(runs[r].span, failed)
    /\ runs' = [runs EXCEPT ![r] = NoRun]
    /\ UNCHANGED <<ctx, stack, base, fresh, used, opener, late>>

\* on_chain_end and on_chain_error: a chain without a parent ends its trace.
ChainEnd(r, failed) ==
    /\ runs[r].chain
    /\ RunEnd(r, failed)
    /\ IF runs[r].root
         THEN EndTrace(spans[runs[r].span].trace, r)
         ELSE UNCHANGED <<traces, exports, openThen>>

\* on_llm_end, on_tool_end, on_retriever_end and their on_*_error: a trace
\* that such a run started without a parent is never ended.
LeafEnd(r, failed) ==
    /\ ~runs[r].chain
    /\ RunEnd(r, failed)
    /\ UNCHANGED <<traces, exports, openThen>>

-----------------------------------------------------------------------------

Next ==
    \/ \E t \in Tasks :
         \/ EnterTrace(t) \/ EnterSpan(t) \/ CallTraced(t)
         \/ \E failed \in BOOLEAN : Exit(t, failed)
         \/ \E u \in Tasks : Spawn(t, u)
         \/ \E r \in Runs, parent \in Runs \cup {None} :
              ChainStart(t, r, parent) \/ LeafStart(t, r, parent)
    \/ \E r \in Runs, failed \in BOOLEAN : ChainEnd(r, failed) \/ LeafEnd(r, failed)

Spec == Init /\ [][Next]_vars

-----------------------------------------------------------------------------
(* Properties.                                                             *)

TraceIds == 1..Len(traces)
SpanIds == 1..Len(spans)

TypeOK ==
    /\ \A T \in TraceIds :
         /\ traces[T].status \in {"running", "ok", "error"}
         /\ traces[T].spans \subseteq SpanIds
         /\ traces[T].active \in BOOLEAN /\ traces[T].kept \in BOOLEAN
    /\ \A S \in SpanIds :
         /\ spans[S].trace \in TraceIds
         /\ spans[S].parent \in 0..(S - 1)
         /\ spans[S].status \in {"running", "ok", "error"}
    /\ ctx \in [Tasks -> [trace : {None} \cup TraceIds, span : {None} \cup SpanIds]]
    /\ \A t \in Tasks : \A i \in DOMAIN stack[t] :
         stack[t][i].span \in SpanIds /\ stack[t][i].own \in {None} \cup TraceIds
    /\ Len(exports) = Len(traces) /\ Len(opener) = Len(spans)

\* A task's contextvars are those of its innermost manager, and after the
\* last one is left those it started with, however tasks interleave.
ContextFollowsStack ==
    \A t \in Tasks :
        IF stack[t] = <<>>
          THEN ctx[t] = base[t]
          ELSE /\ ctx[t].span = Top(t).span
               /\ ctx[t].trace = spans[Top(t).span].trace

Root(T) == CHOOSE S \in traces[T].spans : \A R \in traces[T].spans : S <= R

\* A chain without a parent run ends the trace it runs in, also one that it
\* did not start: T was handed over by such a chain.
CutShort(T) ==
    \E k \in DOMAIN exports[T] : exports[T][k] \in Runs /\ exports[T][k] # opener[Root(T)]

\* A trace is handed to the exporter once, or a second time by a chain that
\* ran inside it.
ExportedOnce ==
    \A T \in TraceIds : Len(exports[T]) <= IF CutShort(T) THEN 2 ELSE 1

\* A trace is registered as active exactly until it is handed over, so spans
\* of any task find it while it lives and none finds it afterwards.
ActiveUntilExported == \A T \in TraceIds : traces[T].active <=> exports[T] = <<>>

\* When a trace is handed over, the spans still running in it were opened by
\* others than the opener of its root span: children that outlive it.
HandedOverComplete ==
    \A T \in TraceIds : \A S \in openThen[T] : opener[S] # opener[Root(T)] \/ CutShort(T)

\* No context manager puts a span into a trace that was handed over.
NoLateSpan == \A S \in late : opener[S] \in Runs

\* A span's parent lies in another trace only when that trace was handed
\* over before: a child task outlived it and got a trace of its own.
ForeignParentExplained ==
    \A S \in SpanIds :
        LET P == spans[S].parent IN
        P # None /\ spans[P].trace # spans[S].trace => exports[spans[P].trace] # <<>>

\* What a task does inside a trace stays in it: a span entered in it gets a
\* trace of its own only when the outer one was handed over, by another task
\* that opened it or by a chain that ran inside it.
SpansStayTogether ==
    \A t \in Tasks : \A i \in 2..Len(stack[t]) :
        LET outer == spans[stack[t][i - 1].span].trace IN
        stack[t][i].kind = "span" =>
            \/ spans[stack[t][i].span].trace = outer
            \/ exports[outer] # <<>> /\ (opener[Root(outer)] # t \/ CutShort(outer))

\* A trace leaves the registry and reaches the exporter together, once, with
\* all that its opener did.  (__exit__, tracer.py:204-226, and end_trace.)
HandOverExplained ==
    ExportedOnce /\ ActiveUntilExported /\ HandedOverComplete /\ NoLateSpan

\* Which trace a span lands in, and when its parent lies in another.
\* (SpanContextManager.__enter__, tracer.py:76-100.)
ParentsExplained == ForeignParentExplained /\ SpansStayTogether
=============================================================================
