-------------------------------- MODULE Settings --------------------------------
(***************************************************************************)
(* The settings page of the dashboard (SettingsPage.tsx with               *)
(* utils/formatters.ts and utils/pricing.ts): the display currency and its *)
(* exchange rate, the catalog of model prices, the API keys of the         *)
(* workspaces, and the two deletions that want some words typed.           *)
(*                                                                         *)
(* One tab of the browser is modelled, and what other tabs write over what *)
(* is kept: the currency, the catalog, the keys, the selected workspace.   *)
(* What is kept lies in localStorage; SUPPORTED_CURRENCIES, which a sync   *)
(* of the live rates changes, lives as long as the loaded page.  A request *)
(* and its answer are two steps, between which the page may be left,       *)
(* opened again or loaded anew.  Rates and prices are small numbers, 0 is  *)
(* what parseFloat or the test > 0 refuses.                                *)
(***************************************************************************)
EXTENDS Naturals, Sequences, FiniteSets, SequencesExt

CONSTANTS
    Currencies,   \* codes; the first supported one is "USD"
    Live,         \* rates the sources may name, rounded to three places
    Typed,        \* rates users may type, 0 among them
    Prices,       \* prices users may type
    Sources,      \* how many sources of live rates are tried
    Defaults,     \* DEFAULT_MODEL_CATALOG: [model, price, custom]
    Models,       \* names a user may add
    Simulated,    \* the model the calculator is set to at first
    Within,       \* <<a, b>>: the name a is a part of the name b
    Workspaces,   \* ids of workspaces
    Existing,     \* those that exist at first
    None,         \* null
    MaxEvents     \* bound on user actions, failures and other tabs

ModelNames == Models \cup {Defaults[i].model : i \in DOMAIN Defaults}
Rows == [model : ModelNames, price : Nat, custom : BOOLEAN]

\* A catalog lists a model at most once.
Distinct(catalog) ==
    \A i, j \in DOMAIN catalog : catalog[i].model = catalog[j].model => i = j

ASSUME SettingsAssumption ==
    /\ "USD" \in Currencies /\ None \notin Currencies
    /\ Live \subseteq Nat \ {0} /\ Typed \subseteq Nat /\ Prices \subseteq Nat
    /\ Sources \in Nat \ {0} /\ MaxEvents \in Nat
    /\ Defaults \in Seq(Rows) /\ Distinct(Defaults) /\ Simulated \in ModelNames
    /\ Existing \subseteq Workspaces

VARIABLES
    store,    \* localStorage
    table,    \* SUPPORTED_CURRENCIES: the rate of each
    exists,   \* the server's workspaces
    page,     \* SettingsPage, and the workspaces App gives it
    app,      \* the workspace that is selected, kept and sent in headers
    calls,    \* requests and timers under way
    kept,     \* the rate of each currency the user saved last, 0 once it was picked anew
    events
vars == <<store, table, exists, page, app, calls, kept, events>>

BuiltIn == [c \in Currencies |-> 1]
NoKeys == [w \in Workspaces |-> 0]
Closed == [ws |-> None, words |-> FALSE, wordsFor |-> None, says |-> "nothing"]

-----------------------------------------------------------------------------
(* formatters.ts and pricing.ts.                                            *)

\* Faulty variant: the live rate goes before the one the user saved.
ActiveLiveFirst(s, t) ==
    LET c == IF s.code = None THEN "USD" ELSE s.code
    IN [code |-> c,
        rate |-> IF s.code # None /\ c \in DOMAIN s.live THEN s.live[c]
                 ELSE IF s.code # None /\ s.custom[c] > 0 THEN s.custom[c] ELSE t[c]]

\* getActiveCurrency.
ActiveCurrency(s, t) ==
    LET c == IF s.code = None THEN "USD" ELSE s.code
    IN [code |-> c,
        rate |-> IF s.code # None /\ s.custom[c] > 0 THEN s.custom[c]
                 ELSE IF s.code # None /\ c \in DOMAIN s.live THEN s.live[c] ELSE t[c]]

\* getCustomPricing: an empty catalog counts as none, so one stands for both.
StoredCatalog(s) == IF s.pricing = <<>> THEN Defaults ELSE s.pricing

\* calculateEstimatedCost, the price it finds for m: the row of that name, or
\* the first whose name is a part of m or has m as a part, or none.
PriceOf(m, catalog) ==
    LET named == {i \in DOMAIN catalog : catalog[i].model = m}
        alike == {i \in DOMAIN catalog : \/ <<catalog[i].model, m>> \in Within
                                         \/ <<m, catalog[i].model>> \in Within}
    IN IF named # {} THEN catalog[Min(named)].price
       ELSE IF alike # {} THEN catalog[Min(alike)].price ELSE None

HasRow(catalog, m) == \E i \in DOMAIN catalog : catalog[i].model = m

\* The rows of catalog that are not of model m, in their order: what has the
\* place n among them has n - 1 of them before it.
Without(catalog, m) ==
    LET others == {i \in DOMAIN catalog : catalog[i].model # m}
        at(n) == CHOOSE i \in others : Cardinality({j \in others : j < i}) = n - 1
    IN [n \in 1..Cardinality(others) |-> catalog[at(n)]]

\* A new row in front, in place of the one the model had.
Added(m, r, catalog) == <<[model |-> m, price |-> r, custom |-> TRUE]>> \o Without(catalog, m)

-----------------------------------------------------------------------------
(* The page is mounted, left and loaded.                                    *)

\* What the page shows of the currency, after an event or a call of its own.
Shows(p, s, t) == [p EXCEPT !.currency = ActiveCurrency(s, t),
                            !.text = ActiveCurrency(s, t).rate, !.foreign = FALSE]

\* SettingsPage as it is mounted; no answer to an earlier mount reaches it.
\* The catalog is apart when prices were typed and not saved or when another
\* tab has saved since; lost is a calculator whose model was removed.
Mounted(s, t, projects) ==
    Shows([on |-> TRUE, projects |-> projects, currency |-> None, text |-> 0,
           foreign |-> FALSE, syncing |-> FALSE, source |-> "stored",
           catalog |-> StoredCatalog(s), apart |-> FALSE,
           sim |-> Simulated, lost |-> ~HasRow(StoredCatalog(s), Simulated),
           revealed |-> s.keys, given |-> {}, loading |-> None, overwritten |-> FALSE,
           delete |-> Closed, purge |-> Closed], s, t)

\* Nothing is kept but the workspace; the list of workspaces has arrived, and
\* may have selected another one than the tab was loaded with, or is awaited.
Init ==
    /\ store = [code |-> None, custom |-> [c \in Currencies |-> 0], live |-> [c \in {} |-> 1],
                pricing |-> <<>>, keys |-> NoKeys]
    /\ table = BuiltIn /\ exists = Existing /\ calls = {} /\ events = 0
    /\ kept = [c \in Currencies |-> 0]
    /\ \E w, v \in Existing :
          \/ /\ app = [active |-> w, header |-> w, saved |-> w, older |-> {v} \ {w}, settled |-> TRUE]
             /\ page = Mounted(store, table, exists)
          \/ /\ w # v
             /\ app = [active |-> w, header |-> w, saved |-> v, older |-> {}, settled |-> FALSE]
             /\ page = Mounted(store, table, {})

Event == events < MaxEvents /\ events' = events + 1

\* What is under way goes on without the page.
Unmounts ==
    calls' = {IF c.here THEN [c EXCEPT !.here = FALSE, !.seen = page.revealed] ELSE c : c \in calls}

\* Another page is chosen.
Leave ==
    /\ Event /\ page.on
    /\ page' = [page EXCEPT !.on = FALSE]
    /\ Unmounts
    /\ UNCHANGED <<store, table, exists, app, kept>>
Return ==
    /\ Event /\ ~page.on
    /\ page' = Mounted(store, table, page.projects)
    /\ UNCHANGED <<store, table, exists, app, calls, kept>>

\* window.location.reload(); the active page is one of the things kept, and so
\* is the workspace, which the list of workspaces may not have any more.
LoadsAnew(s, there, w) ==
    /\ store' = s /\ exists' = there
    /\ table' = BuiltIn /\ calls' = {}
    /\ page' = IF page.on THEN Mounted(s, BuiltIn, {}) ELSE [page EXCEPT !.projects = {}]
    /\ app' = [active |-> w, header |-> w, saved |-> w, older |-> {}, settled |-> FALSE]
ReloadPage == Event /\ LoadsAnew(store, exists, app.saved) /\ UNCHANGED kept

\* fetchProjects, once a load: the workspace that is kept by now, or the one
\* that is selected, or the first there is.  Where that selects another, the
\* page is mounted again; the timer of the old socket, and key P, keep the
\* fetchData of the one before.
ProjectsArrive ==
    /\ ~app.settled
    /\ \E w \in IF app.saved \in exists THEN {app.saved}
                 ELSE IF app.active \in exists THEN {app.active} ELSE exists :
          /\ app' = [active |-> w, header |-> w, saved |-> w, older |-> {app.active} \ {w},
                     settled |-> TRUE]
          /\ \/ /\ ~page.on \/ w = app.active
                /\ page' = [page EXCEPT !.projects = exists] /\ UNCHANGED calls
             \/ /\ page.on /\ w # app.active
                /\ page' = Mounted(store, table, exists) /\ Unmounts
    /\ UNCHANGED <<store, table, exists, kept, events>>

\* fetchData of a render in which w was selected, up to its await: every later
\* request is for w.
Fetches(w) == app' = [app EXCEPT !.header = w, !.saved = w]

\* A broadcast, a filter: fetchData as it is now.
FetchData == Fetches(app.active) /\ UNCHANGED <<store, table, exists, page, calls, kept, events>>

\* The timer of the socket that was closed, and key P: an older one.
OlderFetch(w) ==
    /\ Event /\ w \in app.older /\ Fetches(w)
    /\ UNCHANGED <<store, table, exists, page, calls, kept>>

\* handleSelectProject, from the page or the sidebar.
SelectProject(w) ==
    /\ Event /\ w \in page.projects /\ w # app.active
    /\ LoadsAnew(store, exists, w) /\ UNCHANGED kept

\* Another tab selects a workspace.
OtherSelectsProject(w) ==
    /\ Event /\ w \in exists
    /\ app' = [app EXCEPT !.saved = w]
    /\ UNCHANGED <<store, table, exists, page, calls, kept>>

\* A request of this page; n tells those of the same kind apart, by is the
\* workspace that was selected in the render that asks.
Ask(kind, w) ==
    calls' = calls \cup {[kind |-> kind, ws |-> w, n |-> events + 1, here |-> TRUE, by |-> app.active,
                          seen |-> page.revealed, source |-> 1, timer |-> FALSE]}

-----------------------------------------------------------------------------
(* Currency.                                                                *)

\* setActiveCurrency, with the listener of feenion_currency_changed.
SetActiveCurrency(c, rate) ==
    /\ store' = [store EXCEPT !.code = c, !.custom[c] = rate]
    /\ page' = Shows(page, store', table)
    /\ UNCHANGED <<table, exists, app, calls>>

\* handleSelectCurrency: its rate of the table becomes a rate of the user's.
SelectCurrency(c) ==
    /\ Event /\ page.on
    /\ SetActiveCurrency(c, table[c])
    /\ kept' = [kept EXCEPT ![c] = 0]

TypeRate(r) ==
    /\ Event /\ page.on /\ r # page.text
    /\ page' = [page EXCEPT !.text = r]
    /\ UNCHANGED <<store, table, exists, app, calls, kept>>

\* handleSaveFxRate, for the currency this page shows.
SaveFxRate ==
    /\ Event /\ page.on /\ page.text > 0
    /\ SetActiveCurrency(page.currency.code, page.text)
    /\ kept' = [kept EXCEPT ![page.currency.code] = page.text]

\* handleSyncLiveFx up to its await.
SyncLiveFx ==
    /\ Event /\ page.on /\ ~page.syncing
    /\ page' = [page EXCEPT !.syncing = TRUE]
    /\ Ask("fx", None)
    /\ UNCHANGED <<store, table, exists, app, kept>>

\* The end of handleSyncLiveFx, if its page is still there.
Synced(p, c, s, t, source) ==
    IF c.here THEN [Shows(p, s, t) EXCEPT !.syncing = FALSE, !.source = source] ELSE p

\* fetchLiveExchangeRates: a source names the rates of some currencies.  They
\* replace all that were kept, and those of the table; every page is told.
FxAnswers(c, got) ==
    LET live == [x \in DOMAIN got \cup {"USD"} |-> IF x = "USD" THEN 1 ELSE got[x]]
        t == [x \in Currencies |-> IF x \in DOMAIN live THEN live[x] ELSE table[x]]
        s == [store EXCEPT !.live = live]
        told == IF page.on THEN Shows(page, s, t) ELSE page
    IN /\ c \in calls /\ c.kind = "fx"
       /\ store' = s /\ table' = t
       /\ page' = Synced(told, c, s, t, "live")
       /\ calls' = calls \ {c}
       /\ UNCHANGED <<exists, app, kept, events>>

\* A source fails, answers late or with something else: the next one is tried;
\* after the last one nothing is changed, and nobody is told.
FxSourceFails(c) ==
    /\ Event /\ c \in calls /\ c.kind = "fx"
    /\ calls' = (calls \ {c}) \cup (IF c.source = Sources THEN {} ELSE {[c EXCEPT !.source = @ + 1]})
    /\ page' = IF c.source = Sources THEN Synced(page, c, store, table, "fallback") ELSE page
    /\ UNCHANGED <<store, table, exists, app, kept>>

\* Another tab picks a currency; this one hears nothing of it.
OtherSelects(c) ==
    /\ Event
    /\ store' = [store EXCEPT !.code = c, !.custom[c] = 1]
    /\ page' = [page EXCEPT !.foreign = TRUE]
    /\ kept' = [kept EXCEPT ![c] = 0]
    /\ UNCHANGED <<table, exists, app, calls>>

-----------------------------------------------------------------------------
(* Model prices.                                                            *)

Saves(catalog, s, lost) ==
    /\ Event /\ page.on
    /\ page' = [page EXCEPT !.catalog = catalog, !.apart = FALSE, !.lost = lost]
    /\ store' = [store EXCEPT !.pricing = s]
    /\ UNCHANGED <<table, exists, app, calls, kept>>

\* handleUpdateModelRate: on the screen only, and the row now is a custom one.
UpdateModelRate(i, r) ==
    /\ Event /\ page.on /\ i \in DOMAIN page.catalog
    /\ page' = [page EXCEPT !.catalog[i].price = r, !.catalog[i].custom = TRUE, !.apart = TRUE]
    /\ UNCHANGED <<store, table, exists, app, calls, kept>>

SaveCatalog == Saves(page.catalog, page.catalog, page.lost)
ResetCatalog == Saves(Defaults, <<>>, ~HasRow(Defaults, page.sim))

\* Faulty variant: a model that is added twice is listed twice.
AddAgain(m, r) ==
    LET updated == <<[model |-> m, price |-> r, custom |-> TRUE]>> \o page.catalog
    IN Saves(updated, updated, page.lost /\ m # page.sim)

\* handleAddNewModel saves with it what was edited on the screen.
AddNewModel(m, r) ==
    LET updated == Added(m, r, page.catalog)
    IN Saves(updated, updated, page.lost /\ m # page.sim)

\* handleDeleteCustomModel, which only a custom row offers; an edited row is
\* one.  The calculator stays set to the model even if it was this.
DeleteCustomModel(i) ==
    LET updated == Without(page.catalog, page.catalog[i].model)
    IN /\ i \in DOMAIN page.catalog /\ page.catalog[i].custom
       /\ Saves(updated, updated, page.lost \/ page.catalog[i].model = page.sim)

\* What the select of the calculator shows: its model, or, while that has no
\* row, the first there is; to choose what is shown changes nothing.
ShownModel == IF HasRow(page.catalog, page.sim) THEN page.sim ELSE page.catalog[1].model

\* setSimModel.
SelectSimModel(i) ==
    /\ Event /\ page.on /\ i \in DOMAIN page.catalog /\ page.catalog[i].model # ShownModel
    /\ page' = [page EXCEPT !.sim = page.catalog[i].model, !.lost = FALSE]
    /\ UNCHANGED <<store, table, exists, app, calls, kept>>

\* Another tab resets, extends or cuts the catalog that is kept.
OtherSaves(m, r) ==
    /\ Event
    /\ \E s \in {<<>>, Added(m, r, StoredCatalog(store)), Without(StoredCatalog(store), m)} :
          store' = [store EXCEPT !.pricing = s]
    /\ page' = [page EXCEPT !.apart = TRUE]
    /\ UNCHANGED <<table, exists, app, calls, kept>>

-----------------------------------------------------------------------------
(* API keys.                                                                *)

\* handleFetchApiKey up to its await; its button is disabled for the one
\* workspace that loadingKeyId names.
FetchApiKey(w) ==
    /\ Event /\ page.on /\ w \in page.projects
    /\ page.revealed[w] = 0 /\ page.loading # w
    /\ page' = [page EXCEPT !.loading = w]
    /\ Ask("key", w)
    /\ UNCHANGED <<store, table, exists, app, kept>>

\* Faulty variant: the keys are those of the render in which the button was clicked.
KeyAnswersSeen(c) ==
    LET keys == [c.seen EXCEPT ![c.ws] = c.n]
    IN /\ c \in calls /\ c.kind = "key" /\ c.ws \in exists
       /\ calls' = calls \ {c}
       /\ store' = [store EXCEPT !.keys = keys]
       /\ page' = IF c.here
                  THEN [page EXCEPT !.revealed = keys, !.given = @ \cup {c.ws}, !.loading = None]
                  ELSE [page EXCEPT !.overwritten = TRUE]
       /\ UNCHANGED <<table, exists, app, kept, events>>

\* The server makes a new key.  After the page was left React may still run
\* the update, on the keys that page had, or drop it.
KeyAnswers(c) ==
    LET keys == [(IF c.here THEN page.revealed ELSE c.seen) EXCEPT ![c.ws] = c.n]
    IN /\ c \in calls /\ c.kind = "key" /\ c.ws \in exists
       /\ calls' = calls \ {c}
       /\ \/ /\ store' = [store EXCEPT !.keys = keys]
             /\ page' = IF c.here
                        THEN [page EXCEPT !.revealed = keys, !.given = @ \cup {c.ws}, !.loading = None]
                        ELSE [page EXCEPT !.overwritten = TRUE]
          \/ ~c.here /\ UNCHANGED <<store, page>>
       /\ UNCHANGED <<table, exists, app, kept, events>>

\* It fails, or the workspace is gone.
KeyFails(c) ==
    /\ c \in calls /\ c.kind = "key"
    /\ IF c.ws \in exists THEN Event ELSE UNCHANGED events
    /\ calls' = calls \ {c}
    /\ page' = IF c.here THEN [page EXCEPT !.loading = None] ELSE page
    /\ UNCHANGED <<store, table, exists, app, kept>>

\* Another tab keeps a key, with those it knew: none, or what is kept.
OtherKeys(w) ==
    /\ Event /\ w \in exists
    /\ \E keys \in {NoKeys, store.keys} :
          store' = [store EXCEPT !.keys = [keys EXCEPT ![w] = events + 1]]
    /\ page' = [page EXCEPT !.overwritten = TRUE]
    /\ UNCHANGED <<table, exists, app, calls, kept>>

-----------------------------------------------------------------------------
(* Workspaces, and the two modals.                                          *)

\* handleCreate; the page that would show the new key is loaded anew, before
\* or after the key has reached the cache.
Create(w) ==
    /\ Event /\ page.on /\ w \in Workspaces \ (exists \cup Existing)
    /\ \/ LoadsAnew([store EXCEPT !.keys = [page.revealed EXCEPT ![w] = events + 1]], exists \cup {w}, w)
       \/ LoadsAnew(store, exists \cup {w}, w)
    /\ UNCHANGED kept

DeletedElsewhere(w) ==
    /\ Event /\ w \in exists /\ Cardinality(exists) > 1
    /\ exists' = exists \ {w}
    /\ UNCHANGED <<store, table, page, app, calls, kept>>

NoModal == page.delete.ws = None /\ page.purge.ws = None

\* The bin of a workspace, and "Purge Workspace Data", which names the one
\* that is selected (before the list has arrived, as the active one).
OpenModal(kind, w) ==
    /\ Event /\ page.on /\ NoModal
    /\ \/ kind = "delete" /\ w \in page.projects /\ Cardinality(page.projects) > 1
       \/ kind = "purge" /\ w = app.active
    /\ page' = [page EXCEPT ![kind] = [Closed EXCEPT !.ws = w]]
    /\ UNCHANGED <<store, table, exists, app, calls, kept>>

\* In a modal: the words are typed, or it is cancelled.
TypeOrCancel(kind) ==
    /\ Event /\ page.on /\ page[kind].ws # None
    /\ \/ /\ ~page[kind].words
          /\ page' = [page EXCEPT ![kind].words = TRUE, ![kind].wordsFor = page[kind].ws]
       \/ page' = [page EXCEPT ![kind].ws = None]
    /\ UNCHANGED <<store, table, exists, app, calls, kept>>

\* handleConfirmDeleteProject and handlePurge up to their awaits: a deletion
\* names its workspace, a purge is for the one in the headers.  The buttons
\* stay enabled.
Confirm(kind) ==
    /\ Event /\ page.on /\ page[kind].ws # None /\ page[kind].words
    /\ Ask(kind, IF kind = "purge" THEN app.header ELSE page[kind].ws)
    /\ page' = [page EXCEPT ![kind].says = "busy"]
    /\ UNCHANGED <<store, table, exists, app, kept>>

\* The message of success in the modal, and the timer that will close it.
Done(c) ==
    /\ calls' = (calls \ {c}) \cup {[c EXCEPT !.timer = TRUE]}
    /\ page' = IF c.here THEN [page EXCEPT ![c.kind].says = "done"] ELSE page

\* handleDeleteProject of App: deleted, it selects another if this one was
\* and loads the page anew; refused or failed, it shows an alert and returns
\* as if it had not.
DeleteAnswers(c) ==
    /\ c \in calls /\ c.kind = "delete" /\ ~c.timer
    /\ \/ /\ c.ws \in exists /\ Cardinality(exists) > 1
          /\ \E w \in IF c.by = c.ws THEN page.projects \ {c.ws} ELSE {app.saved} :
                LoadsAnew(store, exists \ {c.ws}, w)
          /\ UNCHANGED <<kept, events>>
       \/ /\ IF c.ws \in exists /\ Cardinality(exists) > 1 THEN Event ELSE UNCHANGED events
          /\ Done(c)
          /\ UNCHANGED <<store, table, exists, app, kept>>

\* The answer to handlePurge.
PurgeAnswers(c) ==
    /\ c \in calls /\ c.kind = "purge" /\ ~c.timer
    /\ \/ Done(c) /\ UNCHANGED events
       \/ /\ Event /\ calls' = calls \ {c}
          /\ page' = IF c.here THEN [page EXCEPT !.purge.says = "error"] ELSE page
    /\ UNCHANGED <<store, table, exists, app, kept>>

\* The timers close the modal that is open by then, whatever it is open for;
\* that of a purge also calls onRefreshData, the fetchData of its render.
ModalTimer(c) ==
    /\ c \in calls /\ c.timer
    /\ calls' = calls \ {c}
    /\ page' = IF c.here THEN [page EXCEPT ![c.kind] = Closed] ELSE page
    /\ IF c.kind = "purge" THEN Fetches(c.by) ELSE UNCHANGED app
    /\ UNCHANGED <<store, table, exists, kept, events>>

-----------------------------------------------------------------------------
\* What a source may name: the rates of some of the currencies.
Rates == UNION {[cs -> Live] : cs \in SUBSET (Currencies \ {"USD"})}

Next ==
    \/ Leave \/ Return \/ ReloadPage \/ ProjectsArrive \/ FetchData
    \/ \E c \in Currencies : SelectCurrency(c) \/ OtherSelects(c)
    \/ \E r \in Typed : TypeRate(r)
    \/ SaveFxRate \/ SyncLiveFx
    \/ \E c \in calls :
          \/ \E got \in Rates : FxAnswers(c, got)
          \/ FxSourceFails(c)
          \/ KeyAnswers(c) \/ KeyFails(c)
          \/ DeleteAnswers(c) \/ PurgeAnswers(c) \/ ModalTimer(c)
    \/ \E i \in 1..(Len(Defaults) + Cardinality(Models)) :
          \/ \E r \in Prices : UpdateModelRate(i, r)
          \/ DeleteCustomModel(i) \/ SelectSimModel(i)
    \/ SaveCatalog \/ ResetCatalog
    \/ \E m \in Models, r \in Prices : AddNewModel(m, r)
    \/ \E m \in ModelNames, r \in Prices : OtherSaves(m, r)
    \/ \E w \in Workspaces :
          \/ FetchApiKey(w) \/ OtherKeys(w) \/ Create(w) \/ DeletedElsewhere(w)
          \/ SelectProject(w) \/ OtherSelectsProject(w) \/ OlderFetch(w)
    \/ \E kind \in {"delete", "purge"} :
          \/ \E w \in Workspaces : OpenModal(kind, w)
          \/ TypeOrCancel(kind) \/ Confirm(kind)

Spec == Init /\ [][Next]_vars

-----------------------------------------------------------------------------
Kinds == {"delete", "purge"}
Keys == [Workspaces -> Nat]
LiveRates == UNION {[cs -> Live \cup {1}] : cs \in SUBSET Currencies}
Stores ==
    [code : Currencies \cup {None}, custom : [Currencies -> Nat], live : LiveRates, pricing : Seq(Rows),
     keys : Keys]
Modals ==
    [ws : Workspaces \cup {None}, words : BOOLEAN, wordsFor : Workspaces \cup {None},
     says : {"nothing", "busy", "done", "error"}]
Pages ==
    [on : BOOLEAN, projects : SUBSET Workspaces, currency : [code : Currencies, rate : Nat],
     text : Nat, foreign : BOOLEAN, syncing : BOOLEAN, source : {"stored", "live", "fallback"},
     catalog : Seq(Rows), apart : BOOLEAN, sim : ModelNames, lost : BOOLEAN,
     revealed : Keys, given : SUBSET Workspaces,
     loading : Workspaces \cup {None}, overwritten : BOOLEAN, delete : Modals, purge : Modals]
Requests ==
    [kind : {"fx", "key"} \cup Kinds, ws : Workspaces \cup {None}, n : Nat \ {0}, here : BOOLEAN,
     by : Workspaces, seen : Keys, source : 1..Sources, timer : BOOLEAN]

Apps ==
    [active : Workspaces, header : Workspaces, saved : Workspaces, older : SUBSET Workspaces,
     settled : BOOLEAN]

\* The state but for app has the shape the components give it.
PageTyped ==
    /\ store \in Stores /\ table \in [Currencies -> Live \cup {1}]
    /\ exists \subseteq Workspaces /\ page \in Pages /\ calls \subseteq Requests
    /\ kept \in [Currencies -> Nat] /\ events \in Nat
    /\ \A c \in calls : c.timer => c.kind \in Kinds

TypeOK == PageTyped /\ app \in Apps

\* A rate the user saved stays the rate amounts are shown in until that
\* currency is picked again, whatever rates a sync that is late or repeated
\* brings; the page shows the currency that formatCost uses, unless another
\* tab has picked one.  A currency that was picked always has a rate of its
\* own, so the cached live rates are never reached.  (formatters.ts:45, 51
\* and 155, SettingsPage.tsx:137, 153 and 222.)
MoneyExplained ==
    /\ \A c \in Currencies : kept[c] # 0 =>
          /\ store.custom[c] = kept[c]
          /\ store.code = c => ActiveCurrency(store, table).rate = kept[c]
    /\ page.on /\ ~page.foreign => page.currency = ActiveCurrency(store, table)
    /\ store.code # None => store.custom[store.code] > 0

\* The catalog on the screen is the one that is kept, unless prices were
\* typed and not saved, another tab has saved, or everything was removed; it
\* has a model at most once, so each is priced by its own row.  What the
\* calculator shows is the price of the row its select names, whatever is
\* added, edited, saved or reset, by this tab or another.  Known defect: once
\* its own model was removed, simModel still names it, the select shows the
\* first row, and the price is that of a row with a similar name.
\* (pricing.ts:31 and 62, SettingsPage.tsx:102, 244, 275, 291 and 576-583.)
CatalogExplained ==
    /\ page.on => page.catalog = StoredCatalog(store) \/ page.apart \/ page.catalog = <<>>
    /\ \A i \in DOMAIN page.catalog : PriceOf(page.catalog[i].model, page.catalog) = page.catalog[i].price
    /\ page.lost \/ \E i \in DOMAIN page.catalog :
                       /\ page.catalog[i].model = ShownModel
                       /\ page.catalog[i].price = PriceOf(page.sim, page.catalog)

\* A key that was shown stays on the page and in the cache, however the
\* answers for several workspaces interleave, unless an answer to an earlier
\* visit or another tab has replaced the cache; a button that waits waits for
\* an answer that can still come.  (handleFetchApiKey, SettingsPage.tsx:116-134.)
KeysStay ==
    page.on =>
        /\ \A w \in page.given : page.revealed[w] # 0
        /\ page.overwritten \/ store.keys = page.revealed
        /\ page.loading # None => \E c \in calls : c.here /\ c.kind = "key"
        /\ page.syncing <=> \E c \in calls : c.here /\ c.kind = "fx"

\* The words that unlock a deletion were typed while the modal named the
\* workspace that is deleted; the modal of a purge names the selected one, and
\* the purge is for the one in the headers.  Known defect: these may be of the
\* workspace that was selected before the list of workspaces arrived, which
\* the fetchData of an older render puts back; nothing else sets them apart,
\* no reload, deletion or other tab.  (SettingsPage.tsx:187, 205, 760 and 889,
\* client.ts:183, App.tsx:208-211 and 271.)
WordsTyped ==
    /\ \A kind \in Kinds :
          page[kind].ws # None /\ page[kind].words => page[kind].wordsFor = page[kind].ws
    /\ page.on /\ page.purge.ws # None => page.purge.ws = app.active
    /\ app.header # app.active => app.settled /\ app.header \in app.older
    /\ \A c \in calls : c.kind = "purge" /\ c.ws # c.by => c.ws \in app.older

\* Shown keys stay, and a deletion is of what the words were typed for.
KeysKept == KeysStay /\ WordsTyped
=============================================================================
