------------------------------ MODULE TraceViewer ------------------------------
(***************************************************************************)
(* One execution trace on the screen: what TraceDetailPage shows once the  *)
(* trace is loaded, its three views (TraceTimeline, TraceMindMap and       *)
(* SpanTree), the SpanInspector beside them, and the totals that these and *)
(* the TraceComparisonModal compute, each in its own way.                  *)
(*                                                                         *)
(* A span is known by its place in the list the server sends, in the order *)
(* it sends them.  Its parent is another span, or 0 when it has none or    *)
(* has one that is not in the trace.  Nothing keeps a client from sending  *)
(* spans that are their own ancestors, and the timeline provides for them. *)
(* Times are in half milliseconds, zoom levels in quarters.                *)
(***************************************************************************)
EXTENDS Integers, Sequences, FiniteSets, SequencesExt, FiniteSetsExt

CONSTANTS
    Loads,       \* the traces that may be loaded
    MaxClicks    \* bound on user actions

VARIABLES
    trace,    \* [spans, duration, tokens, cost]: the trace as the server sums it up
    screen,   \* the state of the components
    clicks
vars == <<trace, screen, clicks>>

\* A value a span may lack: undefined, null.
Undefined == -1
Or(x, y) == IF x \in {Undefined, 0} THEN y ELSE x        \* x || y
Else(x, y) == IF x = Undefined THEN y ELSE x             \* x ?? y
Num(x) == Or(x, 0)                                       \* Number(x || 0)
Bigger(x, y) == IF x > y THEN x ELSE y

Spans == DOMAIN trace.spans
Span(i) == trace.spans[i]

\* What the server sends, and nothing is asked of the hierarchy.
Amounts == Nat \cup {Undefined}
AnySpan(parents) ==
    [parent : parents, kind : STRING, failed : BOOLEAN, start : Nat, dur : Amounts, end : Amounts,
     tokens : Amounts, prompt : Amounts, completion : Amounts, cost : Amounts]
IsTrace(t) ==
    /\ {t.duration, t.tokens, t.prompt, t.completion, t.cost} \subseteq Nat
    /\ t.spans \in Seq(AnySpan(0..Len(t.spans)))

-----------------------------------------------------------------------------
(* The hierarchy, which every view builds for itself.                       *)

\* The elements of S in an order given as the set of its pairs: what has the
\* place k has k - 1 elements before it.
Arranged(S, order) ==
    LET rank(x) == Cardinality({y \in S : <<y, x>> \in order})
    IN  [k \in 1..Cardinality(S) |-> CHOOSE x \in S : rank(x) = k - 1]
Listed == {p \in Spans \X Spans : p[1] < p[2]}

Children(i) == Arranged({j \in Spans : Span(j).parent = i}, Listed)
Roots == Arranged({j \in Spans : Span(j).parent = 0}, Listed)

\* Reference: the spans on the way up from i, as far as it leads, i excluded.
Up[n \in Nat] ==
    [i \in Spans |-> IF n = 0 \/ Span(i).parent = 0 THEN {}
                     ELSE {Span(i).parent} \cup Up[n - 1][Span(i).parent]]
Ancestors(i) == Up[Len(trace.spans)][i]
Below(i) == {j \in Spans : i \in Ancestors(j)}
Circular == {i \in Spans : \E a \in Ancestors(i) \cup {i} : a \in Ancestors(a)}

-----------------------------------------------------------------------------
(* TraceTimeline.                                                           *)

\* minStart: the timeline begins with the earliest span.
MinStart == Min({Span(i).start : i \in Spans})
Ends == {Else(Span(i).end, Span(i).start + Or(Span(i).dur, 20)) : i \in Spans}
TotalDuration == Bigger(2, Or(trace.duration, Max(Ends) - MinStart))

\* Children by their start; those that start together stay in order.
Earlier == {p \in Spans \X Spans : \/ Span(p[1]).start < Span(p[2]).start
                                   \/ Span(p[1]).start = Span(p[2]).start /\ p[1] < p[2]}
ByStart(is) == Arranged(Range(is), Earlier)

\* traverse: a span, then its children with what is below them.
Traverse[n \in Nat] ==
    [i \in Spans |->
        LET cs == ByStart(Children(i))
        IN <<[span |-> i, depth |-> Len(trace.spans) - n]>> \o
               (IF n = 0 THEN <<>> ELSE FlattenSeq([k \in DOMAIN cs |-> Traverse[n - 1][cs[k]]]))]
Walk(roots) == FlattenSeq([k \in DOMAIN roots |-> Traverse[Len(trace.spans)][roots[k]]])

\* Faulty variant: spans that no root leads to are not added.
WalkedOnly == Walk(Roots)

\* orderedSpans: the walk from the roots, then whatever it missed.
OrderedSpans ==
    LET walked == Walk(Roots)
        rest == Arranged(Spans \ {walked[k].span : k \in DOMAIN walked}, Listed)
    IN walked \o [k \in DOMAIN rest |-> [span |-> rest[k], depth |-> 0]]

\* criticalPathIds: the three longest, the first ones among equals.
CriticalPath ==
    LET dur(i) == Num(Span(i).dur)
        longer == {p \in Spans \X Spans : \/ dur(p[1]) > dur(p[2])
                                          \/ dur(p[1]) = dur(p[2]) /\ p[1] < p[2]}
        longest == Arranged(Spans, longer)
    IN {longest[k] : k \in 1..(IF Len(longest) < 3 THEN Len(longest) ELSE 3)}

DisplayedList ==
    IF screen.critical THEN SelectSeq(OrderedSpans, LAMBDA r : r.span \in CriticalPath)
                       ELSE OrderedSpans

\* The bar of a row, on the scale of TotalDuration; how far the least width of
\* 0.75 % widens it is layout.
Bar(i) ==
    LET s == Span(i)
        end == Else(s.end, s.start + Or(s.dur, 2))
    IN [left |-> Bigger(0, s.start - MinStart), width |-> Bigger(1, Or(s.dur, end - s.start))]

-----------------------------------------------------------------------------
(* TraceMindMap: the tree of the first span that is a root, or of the first *)
(* span if none is. d3.hierarchy follows the children of a span that is its *)
(* own ancestor for ever; below a cycle it ends.                            *)
MindMapRoot == IF Roots # <<>> THEN Roots[1] ELSE 1
MindMapSpans == IF Spans = {} THEN {} ELSE {MindMapRoot} \cup Below(MindMapRoot)
MindMapHangs == \E i \in MindMapSpans : i \in Ancestors(i)

-----------------------------------------------------------------------------
(* SpanTree.                                                                *)

\* renderNode: like traverse, with the children in the order of the list.
RenderNode[n \in Nat] ==
    [i \in Spans |->
        <<i>> \o (IF n = 0 THEN <<>> ELSE
                     LET cs == Children(i)
                     IN FlattenSeq([k \in DOMAIN cs |-> RenderNode[n - 1][cs[k]]]))]
TreeRows == FlattenSeq([k \in DOMAIN Roots |-> RenderNode[Len(trace.spans)][Roots[k]]])

Sums(i) == Span(i).kind \in {"agent", "chain"}
OwnTokens == [i \in Spans |-> Or(Span(i).tokens, Num(Span(i).prompt) + Num(Span(i).completion))]
OwnCost == [i \in Spans |-> Else(Span(i).cost, 0)]
SumOf(own, spans) == MapThenSumSet(LAMBDA i : own[i], spans)

\* getSubtreeMetrics, of the tokens and of the cost: an agent or a chain adds
\* all its children; any other span without an amount of its own takes them in
\* only until it has one.
Subtree(own, i) ==
    LET below[n \in Nat] ==
            [j \in Spans |->
                IF n = 0 THEN own[j]
                ELSE FoldLeft(LAMBDA sum, c : IF sum = 0 \/ Sums(j) THEN sum + below[n - 1][c] ELSE sum,
                              own[j], Children(j))]
    IN below[Len(trace.spans)][i]

-----------------------------------------------------------------------------
(* SpanInspector.                                                           *)

\* The amount of span i: its own, or that of all its descendants, each taken
\* once however they are connected.
Rollup(own, i) == IF own[i] > 0 THEN own[i] ELSE SumOf(own, Below(i) \ {i})

IsRollup(i) == (OwnTokens[i] = 0 /\ SumOf(OwnTokens, Below(i) \ {i}) > 0) \/ Sums(i)

\* The tabs it offers; what a tab shows is left to the span.
InspectorTabs(i) ==
    {"overview", "input", "output", "attributes", "events"} \cup
        (IF Span(i).failed THEN {"error"} ELSE {})

-----------------------------------------------------------------------------
(* The sums over the whole trace.                                           *)

\* Faulty variant: what the server has summed up is added to what the spans say.
SpendTwice == trace.cost + SumOf(OwnCost, Spans)

\* The spend TraceDetailPage shows.
Spend == IF trace.cost > 0 THEN trace.cost ELSE SumOf(OwnCost, Spans)

\* extractMetrics of TraceComparisonModal: the server's sums, or those of the
\* spans where the server has none.
ExtractMetrics ==
    LET prompt == [i \in Spans |-> Else(Span(i).prompt, 0)]
        completion == [i \in Spans |-> Else(Span(i).completion, 0)]
        tokens == [i \in Spans |-> Else(Span(i).tokens, prompt[i] + completion[i])]
        summed == Or(trace.tokens, trace.prompt + trace.completion)
        fallBack == summed = 0 /\ SumOf(tokens, Spans) > 0
        cost == SumOf(OwnCost, Spans)
    IN [prompt     |-> IF fallBack THEN SumOf(prompt, Spans) ELSE trace.prompt,
        completion |-> IF fallBack THEN SumOf(completion, Spans) ELSE trace.completion,
        tokens     |-> IF fallBack THEN SumOf(tokens, Spans) ELSE summed,
        cost       |-> IF trace.cost = 0 /\ cost > 0 THEN cost ELSE trace.cost,
        errors     |-> Cardinality({i \in Spans : Span(i).failed})]

-----------------------------------------------------------------------------
(* The components.                                                          *)

\* The first failing span is selected, or the first of all.
FirstSelected(spans) ==
    LET failing == {j \in DOMAIN spans : spans[j].failed}
    IN CASE spans = <<>>   -> 0
         [] failing # {}   -> Min(failing)
         [] OTHER          -> 1

\* The timeline as it is when it is shown anew.
FreshTimeline(s) == [s EXCEPT !.critical = FALSE, !.zoom = 4]

Init ==
    /\ trace \in Loads
    /\ screen = [view |-> "timeline", selected |-> FirstSelected(trace.spans), tab |-> "overview",
                 split |-> 50, dragging |-> FALSE, critical |-> FALSE, zoom |-> 4]
    /\ clicks = 0

Click == clicks < MaxClicks /\ clicks' = clicks + 1 /\ UNCHANGED trace

\* Faulty variant: the timeline keeps its state while another view is shown.
SetViewKeeps(v) ==
    /\ Click /\ v # screen.view
    /\ screen' = [screen EXCEPT !.view = v]

\* The switch above the views; the timeline that is left forgets its state.
SetActiveView(v) ==
    /\ Click /\ v # screen.view
    /\ screen' = FreshTimeline([screen EXCEPT !.view = v])

\* The spans that can be clicked in the view that is active.
Clickable ==
    CASE screen.view = "timeline" -> {DisplayedList[k].span : k \in DOMAIN DisplayedList}
      [] screen.view = "mindmap"  -> IF MindMapHangs THEN {} ELSE MindMapSpans
      [] screen.view = "tree"     -> Range(TreeRows)

SelectSpan(i) ==
    /\ Click /\ i \in Clickable
    /\ screen' = [screen EXCEPT !.selected = i]

\* The toolbar of the timeline.
ToggleCriticalPath ==
    /\ Click /\ screen.view = "timeline"
    /\ screen' = [screen EXCEPT !.critical = ~@]
Zoom ==
    /\ Click /\ screen.view = "timeline"
    /\ \E z \in {Bigger(2, screen.zoom - 1), Min({12, screen.zoom + 1}), 4} :
          screen' = [screen EXCEPT !.zoom = z]

\* A tab of the inspector.  It stays when another span is selected, also the
\* tab for an error when that span has none.
SetInspectorTab(t) ==
    /\ Click /\ screen.selected # 0 /\ t \in InspectorTabs(screen.selected)
    /\ screen' = [screen EXCEPT !.tab = t]

\* The bar between the panels: pressed, moved to p per cent of the width,
\* released, or clicked twice.
Splitter(p) ==
    /\ Click
    /\ \/ ~screen.dragging /\ screen' = [screen EXCEPT !.dragging = TRUE]
       \/ /\ screen.dragging /\ p >= 20 /\ p <= 80
          /\ screen' = [screen EXCEPT !.split = p]
       \/ screen.dragging /\ screen' = [screen EXCEPT !.dragging = FALSE]
       \/ ~screen.dragging /\ screen' = [screen EXCEPT !.split = 50]

Next ==
    \/ \E v \in {"timeline", "mindmap", "tree"} : SetActiveView(v)
    \/ \E i \in Spans : SelectSpan(i)
    \/ ToggleCriticalPath \/ Zoom
    \/ \E t \in {"overview", "input", "output", "attributes", "events", "error"} :
          SetInspectorTab(t)
    \/ \E p \in {10, 35, 90} : Splitter(p)

Spec == Init /\ [][Next]_vars

-----------------------------------------------------------------------------
\* The state has the shape the components give it.
TypeOK ==
    /\ screen.selected \in Spans \cup {0}
    /\ (screen.selected = 0) = (trace.spans = <<>>)
    /\ screen.zoom \in 2..12 /\ screen.split \in 20..80
    /\ screen.view # "timeline" => ~screen.critical

Once(s) == \A k, l \in DOMAIN s : s[k] = s[l] => k = l

\* The timeline has one row for every span.  The tree has one for every span
\* whose ancestors end, the mind map shows the ones below the first root, and
\* hangs only when no span is one.  In the timeline a span is indented by its
\* ancestors and only what is below its parent stands between it and its
\* parent, siblings by their start.  (TraceTimeline.tsx:55, SpanTree.tsx:69,
\* TraceMindMap.tsx:32.)
RowsComplete ==
    LET rows == OrderedSpans
        ids == [k \in DOMAIN rows |-> rows[k].span]
        at(i) == CHOOSE k \in DOMAIN ids : ids[k] = i
    IN /\ Once(ids) /\ Range(ids) = Spans
       /\ Once(TreeRows) /\ Range(TreeRows) = Spans \ Circular
       /\ Roots # <<>> => MindMapSpans \subseteq Range(TreeRows)
       /\ MindMapHangs => Circular = Spans
       /\ \A i \in Spans \ Circular :
             /\ rows[at(i)].depth = Cardinality(Ancestors(i))
             /\ Span(i).parent # 0 =>
                   /\ at(Span(i).parent) < at(i)
                   /\ \A k \in at(Span(i).parent) + 1 .. at(i) : Span(i).parent \in Ancestors(ids[k])
             /\ \A j \in Spans \ Circular :
                   Span(i).parent = Span(j).parent /\ Span(i).parent # 0 /\ Span(i).start < Span(j).start
                        => at(i) < at(j)

\* A bar stays inside the timeline, unless the trace says it is shorter than
\* its spans, a span says it took longer than from its start to its end, or
\* the span took no time at all.  (TraceTimeline.tsx:50 and 206.)
BarsFit ==
    (Spans # {} /\ (trace.duration = 0 \/ trace.duration >= Max(Ends) - MinStart)) =>
        \A i \in Spans :
            \/ Bar(i).left + Bar(i).width <= TotalDuration
            \/ Bar(i).width = 1
            \/ Span(i).end # Undefined /\ Num(Span(i).dur) > Span(i).end - Span(i).start

\* The tree and the inspector show at most what the spans below used, never
\* nothing when one of them used something, and the tree shows all of it where
\* every span that has children is an agent or a chain.  Tokens that the
\* inspector does not mark as summed up are the span's own.  (getSubtreeMetrics,
\* SpanTree.tsx:32, and the rollup, SpanInspector.tsx:53.)
TotalsBounded ==
    \A i \in Spans \ Circular :
        LET family == Below(i) \cup {i}
            bounded(own) ==
                LET all == SumOf(own, family)
                IN /\ Subtree(own, i) <= all /\ Rollup(own, i) <= all
                   /\ all > 0 => Subtree(own, i) > 0 /\ Rollup(own, i) > 0
                   /\ (\A j \in family : Sums(j) \/ Children(j) = <<>>)
                           => Subtree(own, i) = all
        IN /\ bounded(OwnTokens) /\ bounded(OwnCost)
           /\ ~IsRollup(i) => Rollup(OwnTokens, i) = OwnTokens[i]

\* The detail page and the comparison show the same spend for a trace, and
\* the comparison loses no tokens that a span reports as such.
\* (TraceDetailPage.tsx:235 and extractMetrics, TraceComparisonModal.tsx:39.)
SpendAgrees ==
    /\ ExtractMetrics.cost = Spend
    /\ (\E i \in Spans : Num(Span(i).tokens) > 0) => ExtractMetrics.tokens > 0
=============================================================================
