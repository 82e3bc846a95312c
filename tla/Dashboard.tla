------------------------------ MODULE Dashboard ------------------------------
(***************************************************************************)
(* The shell of the web dashboard (App.tsx with TopBar.tsx and             *)
(* api/client.ts): which workspace and filters a browser tab has selected, *)
(* the fetches it has under way, the live feed over a websocket            *)
(* (server/ws.py) and what is on the screen.                               *)
(*                                                                         *)
(* One tab is modelled in full; the other tabs of the browser, which share *)
(* localStorage, and other people are an environment.  A render and the    *)
(* effects it causes are one step with the event that caused them.  What   *)
(* the server answers is abstracted to the workspace and the filters it    *)
(* was asked for.  The server finds a workspace by id or by name and       *)
(* creates one for a name it does not know (auth.py), so a request that    *)
(* still names a deleted workspace w brings Ghost(w), a new workspace      *)
(* *named* w, to life.  Nobody deletes a ghost here: that is a bound.      *)
(***************************************************************************)
EXTENDS Naturals, Sequences, FiniteSets, SequencesExt

CONSTANTS
    Workspaces,    \* ids of the workspaces people make
    Existing,      \* sequence of those that exist at first, newest first
    Default,       \* the one the server knows by the name 'default'
    None,          \* the empty string: no workspace selected
    Filters,       \* environment, time range, status, span type, search, order
    Parts,         \* the requests of one fetchData
    MaxEvents      \* bound on what happens to the tab: what users do,
                   \* broadcasts, failed requests and dropped sockets

Ghost(w) == <<"named", w>>
Ids == Workspaces \cup {Ghost(w) : w \in Workspaces}

ASSUME DashboardAssumption ==
    /\ Existing \in Seq(Workspaces) /\ Existing # <<>> /\ IsInjective(Existing)
    /\ Default \in Workspaces /\ None \notin Ids
    /\ \A w \in Ids : Ghost(w) \notin Workspaces
    /\ Parts \subseteq {"traces", "errors", "overview"} /\ Parts # {}
    /\ MaxEvents \in Nat

VARIABLES
    listed,         \* the server's workspaces, newest first
    stored,         \* localStorage: the selected workspace, and which tab wrote it
    storedFilters,  \* localStorage: the filters
    tab,            \* the tab
    news,           \* broadcasts so far
    events          \* events so far
vars == <<listed, stored, storedFilters, tab, news, events>>

\* Whether a workspace of ps has x as its id or its name, and the first that
\* has: projs.find.
IsCalled(p, x) == p = x \/ p = Ghost(x)
Known(ps, x) == \E i \in DOMAIN ps : IsCalled(ps[i], x)
Find(ps, x) ==
    ps[CHOOSE i \in DOMAIN ps : /\ IsCalled(ps[i], x)
                               /\ \A j \in DOMAIN ps : IsCalled(ps[j], x) => i <= j]

\* ps without w, which it lists at most once: ids are unique.
Without(ps, w) ==
    IF w \in Range(ps) THEN RemoveAt(ps, CHOOSE i \in DOMAIN ps : ps[i] = w) ELSE ps

\* The server's workspaces after a request that names x.
Resolved(x) == IF Known(listed, x) THEN listed ELSE <<Ghost(x)>> \o listed

-----------------------------------------------------------------------------
(* fetchData and the effects that depend on it.  A closure of fetchData     *)
(* is the workspace and the filters of the render that made it.             *)

Sees(s) == [project |-> s.selected, filters |-> s.filters]

\* Who calls fetchData: an effect, a broadcast or the user, with the closure of
\* the current render ("now"), or one of the three handlers that keep that of an
\* older render ("old"): the timer of onclose, the timer of handlePurge on the
\* settings page, and the key P.
Callers == {"now", "old"}

\* The workspace the requests name in their headers.
Header(s, c) == IF c.project # None THEN c.project ELSE s.client

\* A fetch that is not the last any more.  Who made it, and when, is not told
\* apart from now on.
Overtaken(f) == [f EXCEPT !.last = FALSE, !.by = "now", !.asOf = 0]

\* fetchData() of closure c: setProject, then one request per part, sent with
\* the headers of that moment.  It is now the last fetch there was.
IssueFetch(s, c, by) ==
    [s EXCEPT !.client = Header(s, c),
              !.clientOld = IF c.project # None THEN by = "old" ELSE @,
              !.shown = IF @ = None THEN None ELSE Overtaken(@),
              !.fetches = {Overtaken(f) : f \in @} \cup
                  {[last |-> TRUE, by |-> by,
                    header |-> Header(s, c), filters |-> c.filters,
                    asOf |-> news, waiting |-> Parts]}]

\* What setProject(id) leaves in localStorage.
Stores(id) == IF id \in {None, stored.id} THEN stored ELSE [id |-> id, by |-> "own"]

\* The socket effect runs again: the old socket is closed, and its onclose,
\* which sees closure c, comes later.
Reconnect(s, c) ==
    [s EXCEPT !.socket = "opening",
              !.wire = <<>>,
              !.closing = IF s.socket = "closed" THEN @ ELSE Append(@, c)]

\* s with the effects of a render in which fetchData is a new function.
Rerender(s, old) == Reconnect(IssueFetch(s, Sees(s), "now"), Sees(old))

\* A tab that loads the application.
Loaded(saved, f, chosen) ==
    LET s == [client |-> IF saved = None THEN Default ELSE saved, clientOld |-> FALSE,
              selected |-> saved, projects |-> <<>>, listing |-> "asked", answer |-> <<>>, savedBy |-> "own",
              filters |-> f, paused |-> FALSE, buffered |-> 0,
              fetches |-> {}, shown |-> None,
              socket |-> "opening", wire |-> <<>>, closing |-> <<>>,
              keySees |-> [project |-> saved, filters |-> f],
              calling |-> None, purging |-> None, chosen |-> chosen, heard |-> 0]
    IN IssueFetch(s, Sees(s), "now")

Init ==
    \E w \in Range(Existing) \cup {None} : \E f \in Filters :
        /\ news = 0 /\ events = 0
        /\ listed = Existing
        /\ stored = [id |-> w, by |-> "own"]
        /\ storedFilters = f
        /\ tab = Loaded(w, f, None)

Event == events < MaxEvents /\ events' = events + 1

-----------------------------------------------------------------------------
(* The list of workspaces.                                                  *)

\* The server answers getProjects.
ListServed ==
    /\ tab.listing = "asked"
    /\ tab' = [tab EXCEPT !.listing = "answered", !.answer = listed]
    /\ UNCHANGED <<listed, stored, storedFilters, news, events>>

\* Which workspace fetchProjects settles on.
Target(ps, s) ==
    IF Known(ps, stored.id) THEN Find(ps, stored.id)
    ELSE IF Known(ps, s.selected) THEN Find(ps, s.selected) ELSE ps[1]

\* fetchProjects goes on with the list; a new selection is a new fetchData.
ListSettles ==
    LET s == tab
        ps == s.answer
        got == [s EXCEPT !.projects = ps, !.answer = <<>>, !.listing = "done",
                         !.savedBy = stored.by]
        w == Target(ps, s)
        set == [got EXCEPT !.selected = w, !.client = w, !.clientOld = FALSE]
    IN /\ s.listing = "answered"
       /\ IF ps = <<>>
          THEN tab' = got /\ UNCHANGED stored
          ELSE /\ tab' = IF w = s.selected THEN set ELSE Rerender(set, s)
               /\ stored' = Stores(w)
       /\ UNCHANGED <<listed, storedFilters, news, events>>

\* getProjects fails: the tab stays with what localStorage said.
ListFails ==
    /\ tab.listing = "asked" /\ Event
    /\ tab' = [tab EXCEPT !.listing = "done"]
    /\ UNCHANGED <<listed, stored, storedFilters, news>>

-----------------------------------------------------------------------------
(* Fetches.                                                                 *)

\* The server answers one part, and makes the workspace if it has to.  The last
\* part resolves Promise.all: whatever was asked first, this is now shown.
Answered(f, p) ==
    LET rest == f.waiting \ {p}
    IN /\ f \in tab.fetches /\ p \in f.waiting
       /\ tab' = IF rest = {}
                 THEN [tab EXCEPT !.fetches = @ \ {f}, !.shown = f]
                 ELSE [tab EXCEPT !.fetches = (@ \ {f}) \cup {[f EXCEPT !.waiting = rest]}]
       /\ listed' = Resolved(f.header)
       /\ UNCHANGED <<stored, storedFilters, news, events>>

\* One request fails: the parts that were answered are dropped with it.
FetchFails(f) ==
    /\ f \in tab.fetches /\ f.waiting # {} /\ Event
    /\ tab' = [tab EXCEPT !.fetches = @ \ {f}]
    /\ UNCHANGED <<listed, stored, storedFilters, news>>

-----------------------------------------------------------------------------
(* The live feed.                                                           *)

\* ConnectionManager.connect, and onopen.
SocketOpens ==
    /\ tab.socket = "opening"
    /\ tab' = [tab EXCEPT !.socket = "open"]
    /\ UNCHANGED <<listed, stored, storedFilters, news, events>>

\* The tab will learn of a broadcast: from its socket, or because a socket it
\* closed, or lost, or a purge, still has a fetch to come.
Listens(s) == s.socket = "open" \/ s.closing # <<>>

\* ConnectionManager.broadcast: every open socket, whatever its workspace.
Told(s, m) ==
    [s EXCEPT !.wire = IF s.socket = "open" THEN Append(@, m) ELSE @,
              !.heard = IF Listens(s) THEN news + 1 ELSE @]

\* Somebody's batch arrives, or somebody deletes traces.
Broadcast(m) ==
    /\ Event /\ news' = news + 1
    /\ tab' = Told(tab, m)
    /\ UNCHANGED <<listed, stored, storedFilters>>

\* onmessage: a deletion is always fetched, anything else waits for the feed.
MessageArrives ==
    LET s == [tab EXCEPT !.wire = Tail(@)]
        fetch == Head(tab.wire) = "deleted" \/ ~s.paused
    IN /\ tab.wire # <<>>
       /\ tab' = IF fetch THEN IssueFetch(s, Sees(s), "now")
                          ELSE [s EXCEPT !.buffered = @ + 1]
       /\ stored' = IF fetch THEN Stores(s.selected) ELSE stored
       /\ UNCHANGED <<listed, storedFilters, news, events>>

\* Faulty variant: onclose does not fetch.
SocketDropsSilently ==
    /\ tab.socket = "open" /\ Event
    /\ tab' = [tab EXCEPT !.socket = "closed", !.wire = <<>>]
    /\ UNCHANGED <<listed, stored, storedFilters, news>>

\* The server's end goes away: onclose, and nothing connects again.
SocketDrops ==
    /\ tab.socket = "open" /\ Event
    /\ tab' = [tab EXCEPT !.socket = "closed", !.wire = <<>>,
                          !.closing = Append(@, Sees(tab))]
    /\ UNCHANGED <<listed, stored, storedFilters, news>>

\* Four seconds after the onclose of a socket, or one after a purge, its
\* fetchData runs.  Sockets close in any order.
TimerFires(i) ==
    LET c == tab.closing[i]
    IN /\ i \in DOMAIN tab.closing
       /\ tab' = IssueFetch([tab EXCEPT !.closing = RemoveAt(@, i)], c, "old")
       /\ stored' = Stores(c.project)
       /\ UNCHANGED <<listed, storedFilters, news, events>>

-----------------------------------------------------------------------------
(* What a user does.                                                        *)

\* Faulty variant: the filter is missing among the dependencies of fetchData.
SetFiltersUnseen(f) ==
    /\ Event /\ f # tab.filters
    /\ tab' = [tab EXCEPT !.filters = f]
    /\ storedFilters' = f
    /\ UNCHANGED <<listed, stored, news>>

\* A picker, a search or a link that carries filters.
SetFilters(f) ==
    /\ Event /\ f # tab.filters
    /\ tab' = Rerender([tab EXCEPT !.filters = f], tab)
    /\ stored' = Stores(tab.selected)
    /\ storedFilters' = f
    /\ UNCHANGED <<listed, news>>

\* The refresh button.
ManualRefresh ==
    /\ Event
    /\ tab' = IssueFetch(tab, Sees(tab), "now")
    /\ stored' = Stores(tab.selected)
    /\ UNCHANGED <<listed, storedFilters, news>>

\* Faulty variant: resuming leaves the count of buffered events.
ToggleKeepsBuffer(c, by) ==
    LET s == tab
        next == IF s.paused THEN IssueFetch([s EXCEPT !.paused = FALSE], c, by)
                            ELSE [s EXCEPT !.paused = TRUE]
    IN /\ Event
       /\ tab' = [Reconnect(next, Sees(s)) EXCEPT !.keySees = Sees(s)]
       /\ stored' = IF s.paused THEN Stores(c.project) ELSE stored
       /\ UNCHANGED <<listed, storedFilters, news>>

\* handleToggleFeedPause, whose fetchData is that of closure c.
ToggleFeedPause(c, by) ==
    LET s == tab
        resumed == IssueFetch([s EXCEPT !.paused = FALSE, !.buffered = 0], c, by)
        next == IF s.paused THEN resumed ELSE [s EXCEPT !.paused = TRUE]
    IN /\ Event
       /\ tab' = [Reconnect(next, Sees(s)) EXCEPT !.keySees = Sees(s)]
       /\ stored' = IF s.paused THEN Stores(c.project) ELSE stored
       /\ UNCHANGED <<listed, storedFilters, news>>

\* The pill in the top bar is drawn with the current handler; the key P calls
\* the one of the render in which the feed was last paused or resumed.
PauseButton == ToggleFeedPause(Sees(tab), "now")
PauseKey == ToggleFeedPause(tab.keySees, "old")

\* window.location.reload(), with id in localStorage.
Reload(id, chosen) == tab' = Loaded(id, storedFilters, chosen)

\* The user loads the page again.  A choice that was gone, or that another
\* tab wrote over, is no longer expected to be kept.
ReloadPage ==
    /\ Event
    /\ Reload(stored.id, IF stored.by = "own" /\ tab.selected = tab.chosen
                         THEN tab.chosen ELSE None)
    /\ UNCHANGED <<listed, stored, storedFilters, news>>

\* Faulty variant: the choice is not written to localStorage before the reload.
SelectProjectUnsaved(w) ==
    /\ Event /\ w \in Range(tab.projects)
    /\ Reload(stored.id, w)
    /\ UNCHANGED <<listed, stored, storedFilters, news>>

\* handleSelectProject: from the workspace list, then a reload.
SelectProject(w) ==
    /\ Event /\ w \in Range(tab.projects)
    /\ stored' = Stores(w)
    /\ Reload(w, w)
    /\ UNCHANGED <<listed, storedFilters, news>>

\* handleCreateProject, first half: the server makes the workspace.
CreateProject(w) ==
    /\ Event /\ tab.calling = None
    /\ w \in Workspaces \ (Range(listed) \cup Range(Existing))
    /\ listed' = <<w>> \o listed
    /\ tab' = [tab EXCEPT !.calling = [op |-> "create", id |-> w]]
    /\ UNCHANGED <<stored, storedFilters, news>>

\* Second half: the answer selects it.
ProjectCreated ==
    LET w == tab.calling.id
    IN /\ tab.calling # None /\ tab.calling.op = "create"
       /\ stored' = Stores(w)
       /\ Reload(w, w)
       /\ UNCHANGED <<listed, storedFilters, news, events>>

\* handleDeleteProject, first half: the button is there when the tab lists
\* more than one workspace, and the server refuses to delete the last one.
DeleteProject(w) ==
    /\ Event /\ tab.calling = None
    /\ Len(tab.projects) > 1 /\ w \in Range(tab.projects) \cap Workspaces
    /\ w \in Range(listed) /\ Len(listed) > 1
    /\ listed' = Without(listed, w)
    /\ tab' = [tab EXCEPT !.calling = [op |-> "delete", id |-> w]]
    /\ UNCHANGED <<stored, storedFilters, news>>

\* Second half: the tab moves to the first of the others it knows of.
ProjectDeleted ==
    LET s == tab
        remaining == Without(s.projects, s.calling.id)
        moved == s.selected = s.calling.id /\ remaining # <<>>
    IN /\ s.calling # None /\ s.calling.op = "delete"
       /\ stored' = IF moved THEN Stores(Head(remaining)) ELSE stored
       /\ Reload(IF moved THEN Head(remaining) ELSE stored.id, None)
       /\ UNCHANGED <<listed, storedFilters, news, events>>

\* handlePurge, first half: the server empties the workspace that the header
\* names, and tells everybody.
Purge ==
    /\ Event /\ tab.purging = None
    /\ news' = news + 1 /\ listed' = Resolved(tab.client)
    /\ tab' = [Told(tab, "deleted") EXCEPT !.purging = Sees(tab)]
    /\ UNCHANGED <<stored, storedFilters>>

\* Second half: a timer will call the fetchData of the render that was clicked.
Purged ==
    /\ tab.purging # None
    /\ tab' = [tab EXCEPT !.closing = Append(@, tab.purging), !.purging = None]
    /\ UNCHANGED <<listed, stored, storedFilters, news, events>>

PurgeFails ==
    /\ tab.purging # None /\ Event
    /\ tab' = [tab EXCEPT !.purging = None]
    /\ UNCHANGED <<listed, stored, storedFilters, news>>

-----------------------------------------------------------------------------
(* Other tabs of the browser, and other people.                             *)

\* A tab on w fetches: it stores w, and the server makes it if it is gone.
OtherFetches(w) ==
    /\ Event /\ w \in Range(Existing) \cup Range(listed)
    /\ stored' = IF w = stored.id THEN stored ELSE [id |-> w, by |-> "other"]
    /\ listed' = Resolved(w)
    /\ UNCHANGED <<storedFilters, tab, news>>

\* Somebody deletes w.
OtherDeletes(w) ==
    /\ Event /\ w \in Range(listed) /\ Len(listed) > 1
    /\ listed' = Without(listed, w)
    /\ UNCHANGED <<stored, storedFilters, tab, news>>

-----------------------------------------------------------------------------
Next ==
    \/ ListServed \/ ListSettles \/ ListFails
    \/ \E f \in tab.fetches :
          \/ \E p \in Parts : Answered(f, p)
          \/ FetchFails(f)
    \/ SocketOpens \/ MessageArrives \/ SocketDrops
    \/ \E i \in DOMAIN tab.closing : TimerFires(i)
    \/ \E m \in {"ingested", "deleted"} : Broadcast(m)
    \/ ManualRefresh \/ PauseButton \/ PauseKey \/ ReloadPage
    \/ \E f \in Filters : SetFilters(f)
    \/ ProjectCreated \/ ProjectDeleted \/ Purge \/ Purged \/ PurgeFails
    \/ \E w \in Ids : SelectProject(w) \/ OtherFetches(w)
    \/ \E w \in Workspaces : CreateProject(w) \/ DeleteProject(w) \/ OtherDeletes(w)

Spec == Init /\ [][Next]_vars

-----------------------------------------------------------------------------
\* The state has the shape App.tsx gives it.
TypeOK ==
    /\ listed \in Seq(Ids) /\ IsInjective(listed)
    /\ stored \in [id : Ids \cup {None}, by : {"own", "other"}]
    /\ storedFilters \in Filters
    /\ LET s == tab IN
        /\ s.client \in Ids /\ s.selected \in Ids \cup {None}
        /\ s.projects \in Seq(Ids) /\ s.filters \in Filters
        /\ s.paused \in BOOLEAN /\ s.socket \in {"opening", "open", "closed"}
        /\ s.socket # "open" => s.wire = <<>>
        /\ ~s.paused => s.buffered = 0
        /\ \A f \in s.fetches : f.header \in Ids /\ f.asOf <= news
        /\ Cardinality({f \in s.fetches : f.last}) <= 1

\* What is on the screen when nothing is under way belongs to the workspace
\* and the filters the controls show, unless an answer was overtaken or lost,
\* or came from one of the three handlers that keep an old fetchData: the
\* timers of onclose and handlePurge, and the key P.  (These are known defects,
\* tolerated here by name.  fetchData and its effects, App.tsx:208.)
ShownExplained ==
    LET s == tab IN
        (/\ s.fetches = {} /\ s.shown # None /\ s.selected # None
         /\ s.shown.last /\ s.shown.by = "now")
            => s.shown.header = s.selected /\ s.shown.filters = s.filters

\* Once the list is there, requests name the selected workspace, unless
\* such a timer or the key P has put an older one back.  (setProject,
\* client.ts:20, against selectedProject, App.tsx:43.)
HeaderExplained ==
    LET s == tab IN
        s.listing = "done" /\ s.projects # <<>> /\ s.client # s.selected
            => s.clientOld

\* Neither the screen nor a request belongs to another workspace than the one
\* the controls show, but for the reasons there are.
ScreenExplained == ShownExplained /\ HeaderExplained

\* A tab in which a user picked a workspace shows that one after the reload,
\* unless it is gone or another tab wrote localStorage in between.
\* (handleSelectProject and fetchProjects, App.tsx:161 and 140.)
ChoiceKept ==
    LET s == tab IN
        (/\ s.listing = "done" /\ s.chosen # None /\ s.chosen \in Range(s.projects)
         /\ s.savedBy = "own")
            => s.selected = s.chosen

\* A tab at rest whose feed is not paused has asked the server again since
\* the last broadcast that reached it: nothing that came while it was paused,
\* or between one socket and the next, is forgotten.  (The effects of
\* App.tsx:245, the onclose timer and handleToggleFeedPause.)
CaughtUp ==
    LET s == tab IN
        (/\ ~s.paused /\ s.wire = <<>> /\ s.closing = <<>>
         /\ s.fetches = {} /\ s.shown # None /\ s.shown.last)
            => s.shown.asOf >= s.heard

=============================================================================
