---------------------------- MODULE TracesExplorer ----------------------------
(***************************************************************************)
(* Finding, comparing and deleting traces in the dashboard: the navigation *)
(* of App.tsx, Sidebar.tsx and CommandPalette.tsx, the pages TracesPage,   *)
(* TraceDetailPage and ErrorsPage, and the TraceComparisonModal, together  *)
(* with the deletions of the server (api/admin.py).                        *)
(*                                                                         *)
(* A fetch of the lists is asked for, is read by the server and answers,   *)
(* or fails; several may be under way, and their answers may cross.  Which *)
(* filters and order it was asked for is not kept: an answer lists what    *)
(* was read under some setting of them (module Dashboard says which).  A   *)
(* request of a page and its answer are two steps.  An overlay takes the   *)
(* clicks, but not the keys: whatever is a button, a box or a field can be *)
(* used behind it, and only a row or a group, which are neither, cannot.   *)
(* The workspace stays the same: another one remounts every page.          *)
(***************************************************************************)
EXTENDS Naturals, Sequences, FiniteSets, SequencesExt

CONSTANTS
    Traces,      \* ids of traces
    Newest,      \* all of them, newest first
    Views,       \* what each setting of filters and order lists of them all
    Groups,      \* sequence of error fingerprints
    FailsAs,     \* the fingerprint of a trace that failed, or None
    Stored,      \* the traces the server has at first
    Limit,       \* how many traces a list has at most
    None,        \* no trace; also undefined and null
    MaxEvents    \* bound on user actions, deletions elsewhere and failures

ASSUME ExplorerAssumption ==
    /\ Newest \in Seq(Traces) /\ Range(Newest) = Traces
    /\ Views \subseteq Seq(Traces) /\ Newest \in Views
    /\ \A view \in Views : IsInjective(view)
    /\ Groups \in Seq(Range(Groups))
    /\ FailsAs \in [Traces -> Range(Groups) \cup {None}]
    /\ Stored \subseteq Traces /\ MaxEvents \in Nat /\ Limit \in Nat
    /\ None \notin Traces /\ None \notin [fp : Range(Groups), traces : SUBSET Traces]
    /\ None \notin [id : Traces, last : BOOLEAN]

VARIABLES
    net,     \* the server, the feed, and the fetches of the lists
    app,     \* App.tsx
    page,    \* TracesPage, while it is mounted
    calls,   \* deletions asked for and not yet answered
    cmp,     \* TraceComparisonModal, or None
    events
vars == <<net, app, page, calls, cmp, events>>

\* The elements of sequence s that are in S, in their order: what has the
\* place n among them has n - 1 of them before it.
Filtered(s, S) ==
    LET kept == {i \in DOMAIN s : s[i] \in S}
        at(n) == CHOOSE i \in kept : Cardinality({j \in kept : j < i}) = n - 1
    IN [n \in 1..Cardinality(kept) |-> s[at(n)]]

\* The first of them that a view lists.
Listing(db, view) ==
    LET all == Filtered(view, db)
    IN [i \in {j \in DOMAIN all : j <= Limit} |-> all[i]]

\* The error groups of a set of traces (of the newest fifty failed spans; an
\* instance has fewer).
ErrorsOf(db) ==
    LET failing == Filtered(Groups, {FailsAs[t] : t \in db})
    IN [i \in DOMAIN failing |->
           [fp |-> failing[i], traces |-> {t \in db : FailsAs[t] = failing[i]}]]

\* A TracesPage that is just mounted.
\* typedFor: what was ticked when the words were typed; behind: ticks changed
\* since, behind the modal.
FreshPage == [batch |-> <<>>, modal |-> FALSE, text |-> FALSE, typedFor |-> {}, behind |-> FALSE]

\* ErrorsPage shows the first group when it has groups and shows none.
WithSelection(a) ==
    IF a.tab = "errors" /\ a.inspected = None /\ a.errors # <<>>
    THEN [a EXCEPT !.inspected = a.errors[1]] ELSE a

\* TracesPage with one trace ticked, and the words typed to delete it.
Ticked(t) == [FreshPage EXCEPT !.batch = <<t>>]
Confirmed(t) == [Ticked(t) EXCEPT !.modal = TRUE, !.text = TRUE, !.typedFor = {t}]

\* The lists are there, and the user has a trace open, or is on TracesPage.
Init ==
    /\ net = [db |-> Stored, silent |-> {}, socket |-> "open", wire |-> 0, timers |-> 0,
              asked |-> 0, fetches |-> {}]
    /\ \E t \in Stored \cup {None} :
          /\ app = [listed |-> Listing(Stored, Newest), errors |-> ErrorsOf(Stored), from |-> 0,
                    tab |-> "traces", trace |-> t, open |-> {},
                    detail |-> IF t = None THEN "away" ELSE "shown", inspected |-> None]
          /\ \/ page = FreshPage
             \/ t = None /\ \E u \in Stored : page \in {Ticked(u), Confirmed(u)}
    /\ calls = {} /\ cmp = None /\ events = 0

Event == events < MaxEvents /\ events' = events + 1

\* The overlay that takes the clicks: each covers the window, and the last in
\* the document lies on top.  None of them keeps the keys to itself.
Top ==
    IF cmp # None THEN "comparison"
    ELSE IF "shortcuts" \in app.open THEN "shortcuts"
    ELSE IF "palette" \in app.open THEN "palette"
    ELSE IF page.modal THEN "batch"
    ELSE IF "drawer" \in app.open THEN "drawer" ELSE "page"

-----------------------------------------------------------------------------
(* The lists: the feed, and fetchData.                                      *)

\* A fetch is under way, numbered in the order of asking.
Asking(n) ==
    [n EXCEPT !.asked = @ + 1,
              !.fetches = @ \cup {[n |-> n.asked + 1, read |-> FALSE, db |-> {}]}]

\* fetchData: on a notice, after the timer of a socket that closed, or because
\* somebody refreshes or a trace arrives.
FetchData ==
    /\ \/ net.wire > 0 /\ net' = Asking([net EXCEPT !.wire = @ - 1]) /\ UNCHANGED events
       \/ net.timers > 0 /\ net' = Asking([net EXCEPT !.timers = @ - 1]) /\ UNCHANGED events
       \/ Event /\ net' = Asking(net)
    /\ UNCHANGED <<app, page, calls, cmp>>

\* A filter, a search, the order or the pause of the feed changes: the socket
\* is closed, what it had for us is lost, and another one is opened.  All but
\* the pause ask for the lists as well.  Each socket that closes sets a timer.
Reconnect(asks) ==
    LET anew == [net EXCEPT !.socket = "opening", !.wire = 0,
                            !.timers = IF net.socket = "closed" THEN @ ELSE @ + 1]
    IN /\ Event
       /\ net' = IF asks THEN Asking(anew) ELSE anew
       /\ UNCHANGED <<app, page, calls, cmp>>

SocketOpens ==
    /\ net.socket = "opening" /\ net' = [net EXCEPT !.socket = "open"]
    /\ UNCHANGED <<app, page, calls, cmp, events>>

\* The connection is lost, or cannot be made; it is not made again before the
\* next Reconnect.
SocketDrops ==
    /\ Event /\ net.socket # "closed"
    /\ net' = [net EXCEPT !.socket = "closed", !.wire = 0, !.timers = @ + 1]
    /\ UNCHANGED <<app, page, calls, cmp>>

\* The server reads the database for a fetch, the traces and the errors at once.
FetchReads(f) ==
    /\ f \in net.fetches /\ ~f.read
    /\ net' = [net EXCEPT !.fetches = (@ \ {f}) \cup {[f EXCEPT !.read = TRUE, !.db = net.db]}]
    /\ UNCHANGED <<app, page, calls, cmp, events>>

\* Faulty variant: an answer also leaves a trace that is no longer listed.
AnswerCloses(f, view) ==
    LET got == Listing(f.db, view)
        a == [app EXCEPT !.listed = got, !.errors = ErrorsOf(f.db), !.from = f.n]
    IN /\ f \in net.fetches /\ f.read
       /\ app' = WithSelection(IF a.trace \in Range(got) THEN a
                               ELSE [a EXCEPT !.trace = None, !.detail = "away"])
       /\ net' = [net EXCEPT !.fetches = @ \ {f}]
       /\ UNCHANGED <<page, calls, cmp, events>>

\* Its answer is shown, also if a later fetch answered before.
FetchAnswered(f, view) ==
    /\ f \in net.fetches /\ f.read
    /\ app' = WithSelection([app EXCEPT !.listed = Listing(f.db, view),
                                        !.errors = ErrorsOf(f.db), !.from = f.n])
    /\ net' = [net EXCEPT !.fetches = @ \ {f}]
    /\ UNCHANGED <<page, calls, cmp, events>>

\* A fetch fails, which only the console hears of.
FetchFails(f) ==
    /\ Event /\ f \in net.fetches
    /\ net' = [net EXCEPT !.fetches = @ \ {f}]
    /\ UNCHANGED <<app, page, calls, cmp>>

-----------------------------------------------------------------------------
(* The server.                                                              *)

\* This tab will fetch again when somebody deletes now: the socket tells it,
\* or a timer is due.
Listens(n) == n.socket = "open" \/ n.timers > 0

\* A deletion that is broadcast.
Removed(n, ids) ==
    [n EXCEPT !.db = @ \ ids, !.wire = IF n.socket = "open" THEN @ + 1 ELSE @,
              !.silent = IF Listens(n) THEN @ ELSE @ \cup ids]

\* batch_delete_traces takes what is there, delete_single_trace wants it there.
Served(c) ==
    LET missing == c.kind # "batch" /\ c.ids \cap net.db = {}
    IN /\ c \in calls /\ c.state = "asked"
       /\ net' = IF missing THEN net ELSE Removed(net, c.ids)
       /\ calls' = (calls \ {c}) \cup
                       {[c EXCEPT !.state = IF missing THEN "failed" ELSE "done"]}
       /\ UNCHANGED <<app, page, cmp, events>>

\* A deletion call that does not reach the server.
CallFails(c) ==
    /\ c \in calls /\ c.state = "asked" /\ Event
    /\ calls' = (calls \ {c}) \cup {[c EXCEPT !.state = "failed"]}
    /\ UNCHANGED <<net, app, page, cmp>>

\* Somebody else deletes a trace.
DeletedElsewhere(t) ==
    /\ Event /\ t \in net.db
    /\ net' = Removed(net, {t})
    /\ UNCHANGED <<app, page, calls, cmp>>

\* purge_expired_traces, which tells nobody; the server does not start the
\* RetentionWorker, so somebody has to.
Expires(t) ==
    /\ Event /\ t \in net.db
    /\ net' = [net EXCEPT !.db = @ \ {t}, !.silent = @ \cup {t}]
    /\ UNCHANGED <<app, page, calls, cmp>>

\* A new trace; it is listed by the next fetch.
Ingested(t) ==
    /\ Event /\ t \notin net.db
    /\ net' = [net EXCEPT !.db = @ \cup {t}, !.silent = @ \ {t}]
    /\ UNCHANGED <<app, page, calls, cmp>>

-----------------------------------------------------------------------------
(* Going from page to page.                                                 *)

\* The page that is left is unmounted, with its state; the deletions it asked
\* for go on, and what they do to its state afterwards is lost.
Leaving == {[c EXCEPT !.here = FALSE] : c \in calls}

\* Faulty variant: the ticks survive a visit to another page.
GoToKeepsPage(a, tab, t) ==
    /\ app' = WithSelection(
          [a EXCEPT !.tab = tab, !.trace = t,
                    !.detail = IF t = None THEN "away" ELSE "loading",
                    !.inspected = IF tab = "errors" /\ a.tab = "errors" THEN @ ELSE None])
    /\ UNCHANGED <<page, calls>>

\* setActiveTab and setSelectedTraceId together.
GoTo(a, tab, t) ==
    /\ app' = WithSelection(
          [a EXCEPT !.tab = tab, !.trace = t,
                    !.detail = IF t = None THEN "away" ELSE "loading",
                    !.inspected = IF tab = "errors" /\ a.tab = "errors" THEN @ ELSE None])
    /\ IF tab = "traces" /\ t = None /\ a.tab = "traces" /\ a.trace = None
       THEN UNCHANGED <<page, calls>>
       ELSE page' = FreshPage /\ calls' = Leaving

Tabs == {"traces", "errors", "other"}

\* handleNavigate, from a link of a page; its filters are a later Reconnect.
HandleNavigate(tab) ==
    /\ Event /\ app.tab = "other"
    /\ GoTo(app, tab, None)
    /\ UNCHANGED <<net, cmp>>

\* The rail of the sidebar, and its drawer on a small window.
SidebarRail(tab) ==
    /\ Event
    /\ GoTo(app, tab, None)
    /\ UNCHANGED <<net, cmp>>
SidebarDrawer(tab) ==
    /\ Event /\ "drawer" \in app.open
    /\ GoTo([app EXCEPT !.open = @ \ {"drawer"}], tab, None)
    /\ UNCHANGED <<net, cmp>>

\* handleSelectTrace.
HandleSelectTrace(t) == GoTo(app, "traces", t)

\* A trace of one of the other pages.
OpenFromOther(t) ==
    /\ Event /\ app.tab = "other"
    /\ HandleSelectTrace(t)
    /\ UNCHANGED <<net, cmp>>

\* setSelectedTraceId(null) of the arrow on the detail page.
Back ==
    /\ Event /\ app.trace # None /\ app.detail # "loading"
    /\ GoTo(app, app.tab, None)
    /\ UNCHANGED <<net, cmp>>

\* The menu button opens the drawer, a click beside it closes it; the button
\* of the top bar opens the palette.
MenuButton ==
    /\ Event
    /\ app' = [app EXCEPT !.open = @ \cup {"drawer"}]
    /\ UNCHANGED <<net, page, calls, cmp>>
CloseTop ==
    /\ Event /\ Top \in {"drawer", "palette", "shortcuts"}
    /\ app' = [app EXCEPT !.open = @ \ {Top}]
    /\ UNCHANGED <<net, page, calls, cmp>>

\* Ctrl-K, the question mark and Escape work over any overlay.
KeyDown(key) ==
    /\ Event
    /\ app' = [app EXCEPT !.open =
                  CASE key = "ctrl-k" ->
                          IF "palette" \in @ THEN @ \ {"palette"} ELSE @ \cup {"palette"}
                    [] key = "?"      -> @ \cup {"shortcuts"}
                    [] key = "escape" -> @ \ {"palette", "shortcuts"}]
    /\ cmp' = IF key = "escape" THEN None ELSE cmp
    /\ UNCHANGED <<net, page, calls>>

\* A result of the palette.  For a trace it calls onSelectTrace and then
\* onNavigate('traces'), which takes the selection back.
PaletteResult(tab) ==
    /\ Event /\ "palette" \in app.open
    /\ GoTo([app EXCEPT !.open = @ \ {"palette"}], tab, None)
    /\ UNCHANGED <<net, cmp>>

-----------------------------------------------------------------------------
(* TracesPage.                                                              *)

OnTracesPage == app.tab = "traces" /\ app.trace = None
Batch == Range(page.batch)

\* setSelectedBatch; the boxes can be reached while the modal is open.
Ticks(b) == page' = [page EXCEPT !.batch = b, !.behind = @ \/ page.modal]

\* toggleBatch: a JavaScript Set keeps the order in which traces were ticked.
ToggleBatch(t) ==
    /\ Ticks(IF t \in Batch THEN Filtered(page.batch, Batch \ {t}) ELSE Append(page.batch, t))
    /\ UNCHANGED <<app, calls>>

\* The box in the header is ticked when as many are ticked as listed; a click
\* on it ticks all that are listed, or none.
ToggleAll ==
    LET checked == Len(page.batch) = Len(app.listed) /\ app.listed # <<>>
    IN /\ Event /\ OnTracesPage
       /\ Ticks(IF checked THEN <<>> ELSE app.listed)
       /\ UNCHANGED <<net, app, calls, cmp>>

Ask(kind, ids) ==
    calls' = calls \cup {[kind |-> kind, ids |-> ids, here |-> TRUE, state |-> "asked"]}

\* A row: its box ticks, its bin asks for a deletion once confirm() is
\* answered, a click on anything else opens the trace.
ClickRow(t) ==
    /\ Event /\ OnTracesPage /\ t \in Range(app.listed)
    /\ \/ ToggleBatch(t)
       \/ Ask("row", {t}) /\ UNCHANGED <<app, page>>
       \/ Top = "page" /\ HandleSelectTrace(t)
    /\ UNCHANGED <<net, cmp>>

\* Faulty variant: the modal opens with the text that was typed before.
OpenKeepsText ==
    /\ Event /\ OnTracesPage /\ page.batch # <<>>
    /\ page' = [page EXCEPT !.modal = TRUE, !.behind = FALSE]
    /\ UNCHANGED <<net, app, calls, cmp>>

\* "Delete Selected" opens the confirmation with an empty text.
OpenBatchModal ==
    /\ Event /\ OnTracesPage /\ page.batch # <<>>
    /\ page' = [page EXCEPT !.modal = TRUE, !.text = FALSE, !.typedFor = {}, !.behind = FALSE]
    /\ UNCHANGED <<net, app, calls, cmp>>

\* In the modal: the words "delete selected" are typed, or no longer there, or
\* it is cancelled.
TypeOrCancel ==
    /\ Event /\ page.modal
    /\ \/ ~page.text /\ page' = [page EXCEPT !.text = TRUE, !.typedFor = Batch, !.behind = FALSE]
       \/ page.text /\ page' = [page EXCEPT !.text = FALSE, !.typedFor = {}]
       \/ page' = [page EXCEPT !.modal = FALSE]
    /\ UNCHANGED <<net, app, calls, cmp>>

\* handleBatchDelete up to its await; the button stays enabled meanwhile.
HandleBatchDelete ==
    /\ Event /\ page.modal /\ page.text
    /\ Ask("batch", Batch)
    /\ UNCHANGED <<net, app, page, cmp>>

\* Its rest: the ticks of now are dropped, also those made in between.
BatchAnswered(c) ==
    /\ c \in calls /\ c.kind = "batch" /\ c.state # "asked"
    /\ page' = IF c.here /\ c.state = "done" THEN FreshPage ELSE page
    /\ calls' = calls \ {c}
    /\ UNCHANGED <<net, app, cmp, events>>

\* The rest of handleDeleteSingle: TracesPage is given no onRefresh.
RowAnswered(c) ==
    /\ c \in calls /\ c.kind = "row" /\ c.state # "asked"
    /\ calls' = calls \ {c}
    /\ UNCHANGED <<net, app, page, cmp, events>>

-----------------------------------------------------------------------------
(* TraceDetailPage and ErrorsPage.                                          *)

\* A request for a trace fails for a reason of its own, or because the trace is
\* not in the database.  A trace that was deleted may still be found: the
\* server then looks into the memory of the process that took it in.
Unanswered(t) == IF t \in net.db THEN Event ELSE UNCHANGED events

\* The answer to getTraceDetail; a page that was left does not see it.
DetailLoads ==
    /\ app.detail = "loading"
    /\ \/ app' = [app EXCEPT !.detail = "shown"] /\ UNCHANGED events
       \/ app' = [app EXCEPT !.detail = "missing"] /\ Unanswered(app.trace)
    /\ UNCHANGED <<net, page, calls, cmp>>

\* handleDeleteTrace up to its await.
HandleDeleteTrace ==
    /\ Event /\ app.detail = "shown"
    /\ Ask("detail", {app.trace})
    /\ UNCHANGED <<net, app, page, cmp>>

\* Its rest: onBack() leaves whatever trace is open by now.
DetailAnswered(c) ==
    /\ c \in calls /\ c.kind = "detail" /\ c.state # "asked"
    /\ IF c.state = "done" /\ app.trace # None
       THEN /\ app' = [app EXCEPT !.trace = None, !.detail = "away"]
            /\ page' = FreshPage
       ELSE UNCHANGED <<app, page>>
    /\ calls' = calls \ {c}
    /\ UNCHANGED <<net, cmp, events>>

\* A click on an error group shows it, as it was listed.
SelectError(e) ==
    /\ Event /\ Top = "page" /\ app.tab = "errors" /\ e \in Range(app.errors)
    /\ app' = [app EXCEPT !.inspected = e]
    /\ UNCHANGED <<net, page, calls, cmp>>

\* "Investigate", and the traces of the group that is shown, which may be
\* older than the list.
OpenFromError(t) ==
    /\ Event /\ app.tab = "errors"
    /\ \/ app.errors # <<>> /\ t \in app.errors[1].traces
       \/ app.inspected # None /\ t \in app.inspected.traces
    /\ HandleSelectTrace(t)
    /\ UNCHANGED <<net, cmp>>

-----------------------------------------------------------------------------
(* TraceComparisonModal.                                                    *)

\* It opens for baseline a, with b if two traces were ticked.  load is how far
\* loadTraces has come; given is selectedBId as its closure sees it.
OpenCompare(a, b) ==
    cmp' = [a |-> a, given |-> b, selectedB |-> b, available |-> <<>>, load |-> "list",
            shownA |-> None, shownB |-> None, loads |-> {}, picked |-> None]

\* The buttons "Compare" of the two pages.
Compare ==
    /\ Event
    /\ \/ /\ OnTracesPage /\ page.batch # <<>>
          /\ OpenCompare(page.batch[1], IF Len(page.batch) > 1 THEN page.batch[2] ELSE None)
       \/ app.detail = "shown" /\ OpenCompare(app.trace, None)
    /\ UNCHANGED <<net, app, page, calls>>

CloseCompare ==
    /\ Event /\ cmp # None /\ cmp' = None
    /\ UNCHANGED <<net, app, page, calls>>

\* getTraces({limit: 100}) answers: the newest traces, unfiltered, and no others.
CompareListed ==
    /\ cmp # None /\ cmp.load = "list"
    /\ cmp' = [cmp EXCEPT !.available = Listing(net.db, Newest), !.load = "a"]
    /\ UNCHANGED <<net, app, page, calls, events>>

\* What the select shows: the target, or the first of its options when the
\* target is none of them.
Named(m) ==
    IF m.selectedB \in Range(m.available) THEN m.selectedB
    ELSE IF m.available = <<>> THEN None ELSE m.available[1]

\* What is on the screen, and what is under way, is no longer asked for last.
Overtaken(x) == IF x = None THEN None ELSE [x EXCEPT !.last = FALSE]
AskForB(m, id) ==
    [m EXCEPT !.selectedB = id, !.shownB = Overtaken(@),
              !.loads = {Overtaken(l) : l \in @} \cup {[id |-> id, last |-> TRUE]}]

\* The target loadTraces settles on: the one given, or the first other trace.
Candidate(m) ==
    LET others == {i \in DOMAIN m.available : m.available[i] # m.a}
    IN IF m.given # None THEN m.given
       ELSE IF others = {} THEN None ELSE m.available[Min(others)]

\* Faulty variant: the target that is chosen for the user is not put into the select.
LoadKeepsSelect ==
    LET b == Candidate(cmp)
        got == [cmp EXCEPT !.shownA = cmp.a, !.load = "done"]
    IN /\ cmp # None /\ cmp.load = "a"
       /\ cmp' = IF b = None THEN got
                  ELSE [AskForB(got, b) EXCEPT !.selectedB = cmp.selectedB, !.picked = None]
       /\ UNCHANGED <<net, app, page, calls, events>>

\* The baseline answers, and the target is settled; a choice made in the
\* meantime is overridden.
BaselineLoads ==
    LET b == Candidate(cmp)
        got == [cmp EXCEPT !.shownA = cmp.a, !.load = "done"]
    IN /\ cmp # None /\ cmp.load = "a"
       /\ cmp' = IF b = None THEN got ELSE [AskForB(got, b) EXCEPT !.picked = None]
       /\ UNCHANGED <<net, app, page, calls, events>>

\* The baseline is gone, or one of the first two requests fails.
BaselineFails ==
    /\ cmp # None /\ cmp.load \in {"list", "a"}
    /\ IF cmp.load = "a" THEN Unanswered(cmp.a) ELSE Event
    /\ cmp' = [cmp EXCEPT !.load = "failed"]
    /\ UNCHANGED <<net, app, page, calls>>

\* handleSelectB: another option than the one that is shown.
HandleSelectB(id) ==
    /\ Event /\ cmp # None /\ id \in Range(cmp.available) /\ id # Named(cmp)
    /\ cmp' = [AskForB(cmp, id) EXCEPT !.picked = id]
    /\ UNCHANGED <<net, app, page, calls>>

\* The target answers, in any order, and is shown; or it is gone or the request
\* fails, and what was shown stays.
TargetLoads(l) ==
    /\ cmp # None /\ l \in cmp.loads
    /\ \/ cmp' = [cmp EXCEPT !.loads = @ \ {l}, !.shownB = l] /\ UNCHANGED events
       \/ cmp' = [cmp EXCEPT !.loads = @ \ {l}] /\ Unanswered(l.id)
    /\ UNCHANGED <<net, app, page, calls>>

-----------------------------------------------------------------------------
Next ==
    \/ FetchData \/ SocketOpens \/ SocketDrops
    \/ \E asks \in BOOLEAN : Reconnect(asks)
    \/ \E f \in net.fetches : FetchReads(f) \/ FetchFails(f) \/ \E v \in Views : FetchAnswered(f, v)
    \/ \E c \in calls : Served(c) \/ CallFails(c) \/ BatchAnswered(c) \/ RowAnswered(c)
                            \/ DetailAnswered(c)
    \/ \E t \in Traces : DeletedElsewhere(t) \/ Expires(t) \/ Ingested(t)
    \/ \E tab \in Tabs : HandleNavigate(tab) \/ SidebarRail(tab) \/ SidebarDrawer(tab)
                             \/ PaletteResult(tab)
    \/ Back \/ MenuButton \/ CloseTop
    \/ \E key \in {"ctrl-k", "?", "escape"} : KeyDown(key)
    \/ ToggleAll \/ OpenBatchModal \/ TypeOrCancel \/ HandleBatchDelete
    \/ \E t \in Traces : ClickRow(t) \/ OpenFromError(t) \/ OpenFromOther(t) \/ HandleSelectB(t)
    \/ DetailLoads \/ HandleDeleteTrace
    \/ \E e \in Range(app.errors) : SelectError(e)
    \/ Compare \/ CloseCompare \/ CompareListed \/ BaselineLoads \/ BaselineFails
    \/ IF cmp = None THEN FALSE ELSE \E l \in cmp.loads : TargetLoads(l)

Spec == Init /\ [][Next]_vars

-----------------------------------------------------------------------------
\* The state has the shape the components give it, and a page that is not
\* mounted keeps nothing.
TypeOK ==
    /\ net.db \subseteq Traces /\ net.silent \cap net.db = {}
    /\ net.socket \in {"open", "opening", "closed"} /\ net.wire \in Nat /\ net.timers \in Nat
    /\ net.wire > 0 => net.socket = "open"
    /\ \A f \in net.fetches : f.n \in 1..net.asked /\ f.db \subseteq Traces
    /\ app.from \in 0..net.asked
    /\ app.listed \in Seq(Traces) /\ app.tab \in Tabs
    /\ app.trace \in Traces \cup {None}
    /\ app.trace # None => app.tab = "traces"
    /\ app.detail \in {"away", "loading", "shown", "missing"}
    /\ (app.detail = "away") = (app.trace = None)
    /\ app.inspected # None => app.tab = "errors"
    /\ IsInjective(page.batch) /\ Batch \subseteq Traces
    /\ ~OnTracesPage => page = FreshPage
    /\ \A c \in calls : c.ids \subseteq Traces

\* A batch deletion asks for exactly the traces that were ticked when its
\* words were typed: no answer, refresh or second opening of the modal in
\* between changes them.  (handleBatchDelete, TracesPage.tsx:126.)  Ticks made
\* behind the modal do, a known defect tolerated by name: the boxes keep the
\* focus they had (TracesPage.tsx:271).
DeletesWhatWasConfirmed ==
    page.modal /\ page.text /\ ~page.behind => page.typedFor = Batch

\* The lists are the answer to the fetch that was asked for last, and no notice
\* and no timer is due.
AtRest == net.wire = 0 /\ net.timers = 0 /\ app.from = net.asked

\* At rest a listed trace is on the server, unless it was removed where this
\* tab could not hear of it: as too old, or with no socket open.  (TracesPage
\* is given no onRefresh: the row of a deleted trace goes with the broadcast,
\* App.tsx:254, admin.py:92,119.)  Known defects tolerated by name: while an
\* earlier fetch overtakes the last one, or the last one has failed, the lists
\* stay older than that (App.tsx:230).
DeletedGoes ==
    AtRest => Range(app.listed) \ net.db \subseteq net.silent

\* What a deletion removes, from the server and from the list.
DeletionsExplained == DeletesWhatWasConfirmed /\ DeletedGoes

\* The detail page closes when the user goes elsewhere, or when a deletion
\* asked for on a detail page is answered; a refresh never closes it.
\* (onBack after the await, TraceDetailPage.tsx:129.)
ClosesExplained ==
    [][(/\ app.trace # None /\ app'.trace # app.trace /\ app'.trace = None
        /\ events' = events)
            => \E c \in calls \ calls' : c.kind = "detail"]_vars

\* ErrorsPage shows a group whenever it has one to show, also when the first
\* fetch comes after it was mounted.  (ErrorsPage.tsx:31.)
InspectorFilled ==
    app.tab = "errors" /\ app.errors # <<>> => app.inspected # None

\* A comparison whose last answer came last and did not fail is with the target
\* that is selected, and the select names it, unless it is not among the newest
\* traces that are listed: then the select names another one, a known defect
\* tolerated by name (TraceComparisonModal.tsx:134 and 223), and so are answers
\* that cross.  The target is another trace than the baseline unless the user
\* chose it, and a choice made once the baseline is there stays.
\* (TraceComparisonModal.tsx:130 and 155.)
ComparisonExplained ==
    (cmp # None) =>
        /\ (cmp.shownB # None /\ cmp.shownB.last) =>
               /\ cmp.shownB.id = cmp.selectedB
               /\ Named(cmp) = cmp.shownB.id \/ cmp.shownB.id \notin Range(cmp.available)
        /\ cmp.selectedB = cmp.a => cmp.picked = cmp.a
        /\ cmp.picked # None => cmp.selectedB = cmp.picked

\* What the two panels beside a list show.  (ErrorsPage and
\* TraceComparisonModal.)
PanelsExplained == InspectorFilled /\ ComparisonExplained
=============================================================================
