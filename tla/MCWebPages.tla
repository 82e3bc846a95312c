----------------------------- MODULE MCWebPages -----------------------------
(***************************************************************************)
(* Instances of TraceViewer and Settings for TLC.  App.tsx:376-493 renders *)
(* one page at a time and the two share no state, so a behaviour is one of *)
(* either page, while the other stays as it is at first.                   *)
(***************************************************************************)
EXTENDS Integers, Settings, TLC

CONSTANTS
    Loads, MaxClicks,
    gpt4o, mini, llama, w1, w2, w3   \* three models, three workspaces

VARIABLES
    open,                    \* the page that is shown
    trace, screen, clicks    \* of TraceViewer
viewerVars == <<trace, screen, clicks>>
webVars == <<open, viewerVars, vars>>

Viewer == INSTANCE TraceViewer

ASSUME LoadsAssumption == \A t \in Loads : Viewer!IsTrace(t)

-----------------------------------------------------------------------------
(* The traces that are loaded: four spans in every hierarchy that a client  *)
(* can send up to renaming, circular ones and orphans among them, and a     *)
(* trace without a span.                                                    *)

Nothing == [tokens |-> -1, prompt |-> -1, completion |-> -1, cost |-> -1]
Total == [tokens |-> 3, prompt |-> -1, completion |-> -1, cost |-> 2]
Parts == [tokens |-> 0, prompt |-> 1, completion |-> 1, cost |-> 0]

Empty == [duration |-> 0, tokens |-> 0, prompt |-> 0, completion |-> 0, cost |-> 0, spans |-> <<>>]

Loaded(parents, kinds, usages, starts, durs, running, failing, sums) ==
    [sums EXCEPT !.spans =
        [i \in 1..4 |->
            [parent |-> parents[i], kind |-> kinds[i], failed |-> i \in failing,
             start |-> starts[i], dur |-> durs[i],
             end |-> IF i \in running THEN -1 ELSE starts[i] + (IF durs[i] = -1 THEN 0 ELSE durs[i])]
            @@ usages[i]]]

Summed == [Empty EXCEPT !.duration = 12, !.tokens = 9, !.prompt = 4, !.completion = 5, !.cost = 7]

Hierarchies == {p \in [1..4 -> 0..4] : /\ p[1] \in {0, 2} /\ p[2] \in {0, 1, 3}
                                       /\ p[3] \in {0, 1, 2, 4} /\ p[4] \in {0, 1, 3, 4}}

MCLoads ==
    {Empty} \cup
    UNION {{Loaded(p, <<"agent", "llm", "tool", "llm">>, <<Nothing, Total, Nothing, Parts>>,
                   <<0, 4, 2, 4>>, <<6, 2, -1, 4>>, {3}, {}, Empty),
            Loaded(p, <<"tool", "agent", "llm", "llm">>, <<Nothing, Nothing, Total, Total>>,
                   <<2, 0, 0, 6>>, <<-1, 6, 6, 0>>, {}, {2, 4}, Empty),
            Loaded(p, <<"agent", "chain", "llm", "chain">>, <<Nothing, Nothing, Total, Parts>>,
                   <<0, 0, 2, 8>>, <<12, 0, 4, 2>>, {4}, {3}, Summed),
            Loaded(p, <<"tool", "llm", "llm", "chain">>, <<Parts, Nothing, Total, Nothing>>,
                   <<6, 2, 2, 0>>, <<2, 4, -1, 10>>, {}, {}, Empty)} : p \in Hierarchies}

MCDefaults == <<[model |-> gpt4o, price |-> 2, custom |-> FALSE],
                [model |-> mini, price |-> 1, custom |-> FALSE]>>
MCWithin == {<<gpt4o, mini>>}
MCSimulated == gpt4o

\* The workspaces there are at first are interchangeable.
Symmetry == Permutations(Existing)

-----------------------------------------------------------------------------
WebInit ==
    /\ Init
    /\ \/ open = "trace" /\ Viewer!Init /\ app.settled /\ app.older = {}
       \/ open = "settings" /\ trace = None /\ screen = None /\ clicks = 0

WebNext ==
    \/ open = "trace" /\ Viewer!Next /\ UNCHANGED <<open, vars>>
    \/ open = "settings" /\ Next /\ UNCHANGED <<open, viewerVars>>

WebSpec == WebInit /\ [][WebNext]_webVars

-----------------------------------------------------------------------------
\* Each page has its shape.
PagesTyped == TypeOK /\ (open = "trace" => Viewer!TypeOK)

\* What follows is about the trace, which clicks leave alone: it is enough to
\* look at it before the first one.
TraceOpened == open = "trace" /\ clicks = 0

\* Viewer!RowsComplete and Viewer!BarsFit: each view shows the spans it can
\* reach, once, and no bar leaves the timeline but for the reasons there are.
RowsComplete == TraceOpened => Viewer!RowsComplete /\ Viewer!BarsFit

\* Viewer!TotalsBounded and Viewer!SpendAgrees: tree, inspector, detail page
\* and comparison never show more than was used, nor nothing for something.
TotalsBounded == TraceOpened => Viewer!TotalsBounded /\ Viewer!SpendAgrees
=============================================================================
