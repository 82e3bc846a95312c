------------------------- MODULE TracesExplorerProofs -------------------------
(***************************************************************************)
(* Proofs about TracesExplorer, for any traces, views and error groups and *)
(* any bound on the events.                                                *)
(***************************************************************************)
EXTENDS TracesExplorer, FiniteSetTheorems, SequenceTheorems, TLAPS

-----------------------------------------------------------------------------
(* Filtered sequences.                                                     *)

\* The elements of a set of numbers that come before i, and how many.
Before(kept, i) == {j \in kept : j < i}
Rank(kept, i) == Cardinality(Before(kept, i))

\* Ranks number the elements of a finite set of numbers from 0 upwards.
LEMMA Ranks ==
    ASSUME NEW kept \in SUBSET Nat, IsFiniteSet(kept)
    PROVE  /\ \A i \in kept : Rank(kept, i) \in 0..(Cardinality(kept) - 1)
           /\ \A i, k \in kept : Rank(kept, i) = Rank(kept, k) => i = k
           /\ \A n \in 1..Cardinality(kept) : \E i \in kept : Rank(kept, i) = n - 1
  <1> DEFINE c == Cardinality(kept)
             rank == [i \in kept |-> Rank(kept, i)]
  <1>0. c \in Nat /\ \A i \in kept : i \in Nat
    BY FS_CardinalityType
  <1>1. ASSUME NEW i \in kept
        PROVE  IsFiniteSet(Before(kept, i)) /\ Rank(kept, i) \in Nat
    <2>1. Before(kept, i) \in SUBSET kept
      BY DEF Before
    <2>2. IsFiniteSet(Before(kept, i))
      BY <2>1, FS_Subset
    <2> QED
      BY <2>2, FS_CardinalityType DEF Rank
  <1>2. ASSUME NEW i \in kept, NEW k \in kept, i < k
        PROVE  Rank(kept, i) < Rank(kept, k)
    <2>1. Before(kept, i) \cup {i} \in SUBSET Before(kept, k) /\ i \notin Before(kept, i)
      <3>1. \A j \in kept : j < i => j < k
        BY <1>0, <1>2
      <3>2. ~(i < i)
        BY <1>0
      <3> QED
        BY <1>2, <3>1, <3>2 DEF Before
    <2>2. Cardinality(Before(kept, i) \cup {i}) = Rank(kept, i) + 1
      BY <1>1, <2>1, FS_AddElement DEF Rank
    <2>3. Cardinality(Before(kept, i) \cup {i}) <= Rank(kept, k)
      BY <1>1, <2>1, FS_Subset DEF Rank
    <2> QED
      BY <1>1, <2>2, <2>3
  <1>3. ASSUME NEW i \in kept
        PROVE  Rank(kept, i) \in 0..(c - 1)
    <2>1. Before(kept, i) \in SUBSET (kept \ {i})
      <3>1. ~(i < i)
        BY <1>0
      <3> QED
        BY <3>1 DEF Before
    <2>2. IsFiniteSet(kept \ {i}) /\ Cardinality(kept \ {i}) = c - 1
      BY FS_RemoveElement
    <2>3. Rank(kept, i) <= c - 1
      BY <2>1, <2>2, FS_Subset DEF Rank
    <2> QED
      BY <1>0, <1>1, <2>3
  <1>4. ASSUME NEW i \in kept, NEW k \in kept, Rank(kept, i) = Rank(kept, k)
        PROVE  i = k
    <2>1. i = k \/ i < k \/ k < i
      BY <1>0
    <2>2. Rank(kept, i) \in Nat /\ Rank(kept, k) \in Nat
      BY <1>1
    <2>3. ~(Rank(kept, i) < Rank(kept, k)) /\ ~(Rank(kept, k) < Rank(kept, i))
      BY <1>4, <2>2
    <2> QED
      BY <1>2, <2>1, <2>3
  <1> HIDE DEF c
  <1>5. rank \in Injection(kept, 0..(c - 1))
    BY <1>3, <1>4 DEF Injection, IsInjective
  <1>6. IsFiniteSet(0..(c - 1)) /\ Cardinality(0..(c - 1)) = c
    BY <1>0, FS_Interval
  <1>7. rank \in Surjection(kept, 0..(c - 1))
    <2> HIDE DEF rank
    <2> QED
      BY <1>5, <1>6, FS_Injection DEF c
  <1>8. ASSUME NEW n \in 1..c
        PROVE  \E i \in kept : Rank(kept, i) = n - 1
    <2>1. n - 1 \in 0..(c - 1)
      BY <1>0
    <2> QED
      BY <1>7, <2>1 DEF Surjection
  <1> QED
    BY <1>3, <1>4, <1>8 DEF c

\* What is filtered is a sequence of the elements that are kept, each as often
\* as it was there.
LEMMA FilteredFacts ==
    ASSUME NEW A, NEW s \in Seq(A), NEW S
    PROVE  /\ Filtered(s, S) \in Seq(A)
           /\ Range(Filtered(s, S)) = Range(s) \cap S
           /\ IsInjective(s) => IsInjective(Filtered(s, S))
  <1> DEFINE kept == {i \in DOMAIN s : s[i] \in S}
             c == Cardinality(kept)
             at(n) == CHOOSE i \in kept : Rank(kept, i) = n - 1
             f == Filtered(s, S)
  <1>0. DOMAIN s = 1..Len(s) /\ Len(s) \in Nat /\ \A i \in DOMAIN s : s[i] \in A
    BY LenProperties
  <1>1. kept \in SUBSET Nat /\ IsFiniteSet(kept) /\ c \in Nat
    <2>1. kept \in SUBSET (1..Len(s)) /\ IsFiniteSet(1..Len(s))
      BY <1>0, FS_Interval
    <2> QED
      BY <1>0, <2>1, FS_Subset, FS_CardinalityType
  <1>2. f = [n \in 1..c |-> s[at(n)]]
    BY DEF Filtered, Rank, Before
  <1>3. /\ \A i \in kept : Rank(kept, i) \in 0..(c - 1)
        /\ \A i, k \in kept : Rank(kept, i) = Rank(kept, k) => i = k
        /\ \A n \in 1..c : \E i \in kept : Rank(kept, i) = n - 1
    BY <1>1, Ranks
  <1>4. \A n \in 1..c : at(n) \in kept /\ Rank(kept, at(n)) = n - 1
    <2> HIDE DEF kept, c
    <2> QED
      BY <1>3
  <1>5. \A i \in kept : \E n \in 1..c : at(n) = i
    <2> SUFFICES ASSUME NEW i \in kept
                 PROVE  \E n \in 1..c : at(n) = i
      OBVIOUS
    <2>0. Rank(kept, i) \in 0..(c - 1)
      BY <1>3
    <2>1. PICK n \in 1..c : Rank(kept, i) = n - 1
      <3>1. Rank(kept, i) + 1 \in 1..c /\ Rank(kept, i) = (Rank(kept, i) + 1) - 1
        BY <1>1, <2>0
      <3> QED
        BY <3>1
    <2> HIDE DEF kept, c
    <2> QED
      BY <1>3, <1>4, <2>1
  <1>6. \A n \in 1..c : f[n] \in A /\ f[n] \in S /\ f[n] \in Range(s)
    BY <1>0, <1>2, <1>4 DEF Range
  <1>7. f \in Seq(A)
    <2>1. \A n \in 1..c : s[at(n)] \in A
      BY <1>0, <1>4
    <2> HIDE DEF at, c
    <2>2. [n \in 1..c |-> s[at(n)]] \in Seq(A)
      BY <1>1, <2>1
    <2> QED
      BY <1>2, <2>2
  <1>8. Range(f) = Range(s) \cap S
    <2>1. DOMAIN f = 1..c
      BY <1>2
    <2>2. Range(f) \subseteq Range(s) \cap S
      BY <1>6, <2>1 DEF Range
    <2>3. ASSUME NEW x \in Range(s) \cap S
          PROVE  x \in Range(f)
      <3>1. PICK i \in kept : s[i] = x
        BY DEF Range
      <3>2. PICK n \in 1..c : at(n) = i
        BY <1>5
      <3>3. f[n] = x
        BY <1>2, <3>1, <3>2
      <3> QED
        BY <2>1, <3>3 DEF Range
    <2> QED
      BY <2>2, <2>3
  <1>9. ASSUME IsInjective(s)
        PROVE  IsInjective(f)
    <2>1. DOMAIN f = 1..c
      BY <1>2
    <2> SUFFICES ASSUME NEW n \in 1..c, NEW m \in 1..c, f[n] = f[m]
                 PROVE  n = m
      BY <2>1 DEF IsInjective
    <2>2. s[at(n)] = s[at(m)]
      BY <1>2
    <2>3. at(n) = at(m)
      BY <1>4, <1>9, <2>2 DEF IsInjective
    <2>4. n - 1 = m - 1
      BY <1>4, <2>3
    <2> QED
      BY <1>1, <2>4
  <1> QED
    BY <1>7, <1>8, <1>9

-----------------------------------------------------------------------------
(* The inductive invariant.                                                *)

OrNone(S) == S \cup {None}

\* A group of errors, as it is listed and shown.
Panels == [fp : Range(Groups), traces : SUBSET Traces]

Apps ==
    [listed : Seq(Traces), errors : Seq(Panels), tab : Tabs, trace : OrNone(Traces),
     open : SUBSET {"drawer", "palette", "shortcuts"},
     detail : {"away", "loading", "shown", "missing"}, inspected : OrNone(Panels), from : Nat]

Pages ==
    [batch : Seq(Traces), modal : BOOLEAN, text : BOOLEAN, typedFor : SUBSET Traces,
     behind : BOOLEAN]

Requests ==
    [kind : {"row", "batch", "detail"}, ids : SUBSET Traces, here : BOOLEAN,
     state : {"asked", "done", "failed"}]

Answers == [id : Traces, last : BOOLEAN]

Comparisons ==
    [a : Traces, given : OrNone(Traces), selectedB : OrNone(Traces), available : Seq(Traces),
     load : {"list", "a", "done", "failed"}, shownA : OrNone(Traces), shownB : OrNone(Answers),
     loads : SUBSET Answers, picked : OrNone(Traces)]

Fetches == [n : Nat, read : BOOLEAN, db : SUBSET Traces]
Nets ==
    [db : SUBSET Traces, silent : SUBSET Traces, socket : {"open", "opening", "closed"},
     wire : Nat, timers : Nat, asked : Nat, fetches : SUBSET Fetches]

\* What is gone of the traces S was removed in silence, if no notice and no
\* timer is due.
Quiet(n) == n.wire = 0 /\ n.timers = 0
Current(n, S) == Quiet(n) => S \ n.db \subseteq n.silent

\* The server and the feed, the list l and the number i of the fetch it answers:
\* what the fetch asked for last has read, or shows, is current.
NetOf(n, l, i) ==
    /\ n \in Nets /\ n.silent \cap n.db = {}
    /\ n.wire > 0 => n.socket = "open"
    /\ \A f \in n.fetches : /\ f.n \in 1..n.asked
                            /\ (f.n = n.asked /\ f.read) => Current(n, f.db)
    /\ i \in 0..n.asked
    /\ i = n.asked => Current(n, Range(l))

\* App.tsx, before the effect of ErrorsPage and after it.
Unselected(a) ==
    /\ a \in Apps /\ IsInjective(a.listed)
    /\ a.trace # None => a.tab = "traces"
    /\ (a.detail = "away") = (a.trace = None)
    /\ a.inspected # None => a.tab = "errors"
AppOf(a) ==
    /\ Unselected(a)
    /\ a.tab = "errors" /\ a.errors # <<>> => a.inspected # None

\* TracesPage, which keeps nothing while it is not mounted.
PageOf(p, a) ==
    /\ p \in Pages /\ IsInjective(p.batch)
    /\ p.modal /\ p.text /\ ~p.behind => p.typedFor = Range(p.batch)
    /\ ~(a.tab = "traces" /\ a.trace = None) => p = FreshPage

\* TraceComparisonModal: what was asked last is what the select names.
CmpOf(m) ==
    /\ m \in Comparisons
    /\ m.given # m.a
    /\ \A l \in m.loads : l.last => l.id = m.selectedB
    /\ m.shownB # None /\ m.shownB.last => m.shownB.id = m.selectedB
    /\ m.selectedB = m.a => m.picked = m.a
    /\ m.picked # None => m.selectedB = m.picked

IndInv ==
    /\ NetOf(net, app.listed, app.from) /\ AppOf(app) /\ PageOf(page, app)
    /\ calls \subseteq Requests
    /\ cmp # None => CmpOf(cmp)
    /\ events \in Nat

-----------------------------------------------------------------------------
(* The lists.                                                              *)

\* A view of a set of traces, and the errors of it.
LEMMA ListFacts ==
    ASSUME NEW db \in SUBSET Traces, NEW view \in Views
    PROVE  /\ Listing(db, view) \in Seq(Traces) /\ IsInjective(Listing(db, view))
           /\ Range(Listing(db, view)) \subseteq db
           /\ ErrorsOf(db) \in Seq(Panels)
  <1>1. view \in Seq(Traces) /\ IsInjective(view) /\ Groups \in Seq(Range(Groups))
    BY ExplorerAssumption
  <1>2. /\ Listing(db, view) \in Seq(Traces) /\ IsInjective(Listing(db, view))
        /\ Range(Listing(db, view)) \subseteq db
    <2> DEFINE all == Filtered(view, db)
               c == IF Len(all) <= Limit THEN Len(all) ELSE Limit
               l == [i \in {j \in DOMAIN all : j <= Limit} |-> all[i]]
    <2>1. all \in Seq(Traces) /\ IsInjective(all) /\ Range(all) \subseteq db
      BY <1>1, FilteredFacts
    <2>2. l = Listing(db, view)
      BY DEF Listing
    <2> HIDE DEF all
    <2>3. DOMAIN all = 1..Len(all) /\ Len(all) \in Nat /\ \A i \in 1..Len(all) : all[i] \in Traces
      BY <2>1, LenProperties
    <2>4. c \in Nat /\ {j \in DOMAIN all : j <= Limit} = 1..c /\ 1..c \subseteq DOMAIN all
      BY <2>3, ExplorerAssumption
    <2> HIDE DEF c
    <2>5. l = [i \in 1..c |-> all[i]] /\ \A i \in 1..c : all[i] \in Traces
      BY <2>3, <2>4
    <2>6. l \in Seq(Traces) /\ DOMAIN l = 1..c /\ \A i \in 1..c : l[i] = all[i]
      <3> HIDE DEF l
      <3>1. DOMAIN l = 1..c /\ \A i \in 1..c : l[i] = all[i]
        BY <2>5
      <3>2. [i \in 1..c |-> all[i]] \in Seq(Traces)
        BY <2>4, <2>5
      <3> QED
        BY <2>5, <3>1, <3>2
    <2> HIDE DEF l
    <2>7. IsInjective(l)
      BY <2>1, <2>4, <2>6 DEF IsInjective
    <2>8. Range(l) \subseteq Range(all)
      BY <2>4, <2>6 DEF Range
    <2> QED
      BY <2>1, <2>2, <2>6, <2>7, <2>8
  <1>3. ErrorsOf(db) \in Seq(Panels)
    <2> DEFINE failing == Filtered(Groups, {FailsAs[t] : t \in db})
               group(i) == [fp |-> failing[i], traces |-> {t \in db : FailsAs[t] = failing[i]}]
    <2>1. failing \in Seq(Range(Groups))
      BY <1>1, FilteredFacts
    <2>2. ErrorsOf(db) = [i \in DOMAIN failing |-> group(i)]
      BY DEF ErrorsOf
    <2> HIDE DEF failing
    <2>3. DOMAIN failing = 1..Len(failing) /\ Len(failing) \in Nat
          /\ \A i \in 1..Len(failing) : failing[i] \in Range(Groups)
      BY <2>1, LenProperties
    <2>4. \A i \in 1..Len(failing) : group(i) \in Panels
      BY <2>3 DEF Panels
    <2> HIDE DEF group
    <2>5. [i \in 1..Len(failing) |-> group(i)] \in Seq(Panels)
      BY <2>3, <2>4
    <2> QED
      BY <2>2, <2>3, <2>5
  <1> QED
    BY <1>2, <1>3

\* Nothing is not an error group, nor an answer.
LEMMA NoneFacts == None \notin Traces /\ None \notin Panels /\ None \notin Answers
  BY ExplorerAssumption DEF Panels, Answers

-----------------------------------------------------------------------------
(* App.tsx.                                                                *)

\* Apart from the group that is shown.
SameApp(a, b) ==
    /\ b.listed = a.listed /\ b.errors = a.errors /\ b.tab = a.tab /\ b.trace = a.trace
    /\ b.open = a.open /\ b.detail = a.detail /\ b.from = a.from

\* The effect of ErrorsPage.
LEMMA Selects ==
    ASSUME NEW a, Unselected(a)
    PROVE  AppOf(WithSelection(a)) /\ SameApp(a, WithSelection(a))
  <1>0. a \in Apps
    BY DEF Unselected
  <1>1. CASE a.tab = "errors" /\ a.inspected = None /\ a.errors # <<>>
    <2>1. a.errors \in Seq(Panels)
      BY <1>0 DEF Apps
    <2>2. a.errors[1] \in Panels
      BY <1>1, <2>1, EmptySeq, LenProperties
    <2>3. WithSelection(a) = [a EXCEPT !.inspected = a.errors[1]]
      BY <1>1 DEF WithSelection
    <2>4. /\ WithSelection(a) \in Apps /\ SameApp(a, WithSelection(a))
          /\ WithSelection(a).inspected = a.errors[1]
      BY <1>0, <2>2, <2>3 DEF Apps, SameApp, OrNone
    <2> QED
      BY <1>1, <2>2, <2>4, NoneFacts DEF AppOf, Unselected, SameApp
  <1>2. CASE ~(a.tab = "errors" /\ a.inspected = None /\ a.errors # <<>>)
    <2>1. WithSelection(a) = a
      BY <1>2 DEF WithSelection
    <2> QED
      BY <1>2, <2>1 DEF AppOf, Unselected, SameApp
  <1> QED
    BY <1>1, <1>2

\* setActiveTab and setSelectedTraceId.  The page that is left forgets.
LEMMA GoToStep ==
    ASSUME NEW a, Unselected(a), a.tab = app.tab, a.trace = app.trace, a.listed = app.listed,
           NEW tab \in Tabs, NEW t \in OrNone(Traces), t # None => tab = "traces",
           PageOf(page, app), calls \subseteq Requests, GoTo(a, tab, t)
    PROVE  /\ AppOf(app') /\ PageOf(page', app') /\ calls' \subseteq Requests
           /\ app'.listed = app.listed /\ app'.from = a.from
  <1> DEFINE d == IF t = None THEN "away" ELSE "loading"
             i == IF tab = "errors" /\ a.tab = "errors" THEN a.inspected ELSE None
             b == [a EXCEPT !.tab = tab, !.trace = t, !.detail = d, !.inspected = i]
  <1>0. a \in Apps /\ IsInjective(a.listed) /\ a.inspected \in OrNone(Panels)
    BY DEF Unselected, Apps
  <1>1. app' = WithSelection(b)
    BY <1>0 DEF GoTo, Apps
  <1>2. d \in {"away", "loading"} /\ (d = "away") = (t = None) /\ i \in OrNone(Panels)
        /\ (i # None => tab = "errors")
    BY <1>0 DEF OrNone
  <1> HIDE DEF d, i
  <1>3. /\ b \in Apps /\ b.listed = a.listed /\ b.tab = tab /\ b.trace = t /\ b.detail = d /\ b.inspected = i
        /\ b.from = a.from
    BY <1>0, <1>2 DEF Apps
  <1> HIDE DEF b
  <1>4. Unselected(b)
    BY <1>0, <1>2, <1>3 DEF Unselected
  <1>5. AppOf(app') /\ app'.listed = app.listed /\ app'.from = a.from /\ app'.tab = tab /\ app'.trace = t
    BY <1>1, <1>3, <1>4, Selects DEF SameApp
  <1>6. PageOf(FreshPage, app')
    <2>1. FreshPage \in Pages
      BY EmptySeq DEF FreshPage, Pages
    <2> QED
      BY <2>1 DEF PageOf, FreshPage, IsInjective
  <1>7. PageOf(page', app') /\ calls' \subseteq Requests
    <2>1. CASE tab = "traces" /\ t = None /\ a.tab = "traces" /\ a.trace = None
      BY <1>5, <2>1 DEF GoTo, PageOf
    <2>2. CASE ~(tab = "traces" /\ t = None /\ a.tab = "traces" /\ a.trace = None)
      <3>1. page' = FreshPage /\ calls' = Leaving
        BY <2>2 DEF GoTo
      <3>2. Leaving \subseteq Requests
        BY DEF Leaving, Requests
      <3> QED
        BY <1>6, <3>1, <3>2
    <2> QED
      BY <2>1, <2>2
  <1> QED
    BY <1>5, <1>7

-----------------------------------------------------------------------------
(* The lists and the server.                                               *)

\* At most one event happens.
Counts == UNCHANGED events \/ Event

\* It is counted as a number.
LEMMA CountsUp == events \in Nat /\ Counts => events' \in Nat
  BY DEF Counts, Event

\* Only the feed and the fetches change, or the server and maybe the requests.
LEMMA NetStep ==
    ASSUME IndInv, NetOf(net', app.listed, app.from), calls' \subseteq Requests,
           UNCHANGED <<app, page, cmp>>, Counts
    PROVE  IndInv'
  BY CountsUp DEF IndInv

\* One more fetch: what is shown and what was read is of an earlier one now.
LEMMA AskingFacts ==
    ASSUME NEW n \in Nets, NEW i \in 0..n.asked, NEW l,
           n.silent \cap n.db = {}, n.wire > 0 => n.socket = "open",
           \A f \in n.fetches : f.n \in 1..n.asked
    PROVE  NetOf(Asking(n), l, i)
  <1> DEFINE f == [n |-> n.asked + 1, read |-> FALSE, db |-> {}]
             a == Asking(n)
  <1>0. n.asked \in Nat /\ n.fetches \in SUBSET Fetches
    BY DEF Nets
  <1>1. f \in Fetches /\ f.n = n.asked + 1 /\ ~f.read
    BY <1>0 DEF Fetches
  <1>5. a = [n EXCEPT !.asked = n.asked + 1, !.fetches = n.fetches \cup {f}]
    BY <1>0 DEF Asking, Nets
  <1> HIDE DEF f, a
  <1>6. n.fetches \cup {f} \in SUBSET Fetches /\ n.asked + 1 \in Nat
    BY <1>0, <1>1
  <1>2. /\ a \in Nets /\ a.db = n.db /\ a.silent = n.silent /\ a.socket = n.socket /\ a.wire = n.wire
        /\ a.asked = n.asked + 1 /\ a.fetches = n.fetches \cup {f}
    BY <1>5, <1>6 DEF Nets
  <1>3. \A g \in a.fetches : g.n \in 1..a.asked /\ ~(g.n = a.asked /\ g.read)
    BY <1>0, <1>1, <1>2
  <1>4. i \in 0..a.asked /\ i # a.asked
    BY <1>0, <1>2
  <1> QED
    BY <1>2, <1>3, <1>4 DEF NetOf, a

\* One more fetch is made, after the feed has changed.
LEMMA AskStep ==
    ASSUME IndInv, NEW n \in Nets, net' = Asking(n),
           n.db = net.db, n.silent = net.silent, n.asked = net.asked, n.fetches = net.fetches,
           n.wire > 0 => n.socket = "open",
           UNCHANGED <<app, page, calls, cmp>>, Counts
    PROVE  IndInv'
  <1>1. /\ n.silent \cap n.db = {} /\ app.from \in 0..n.asked
        /\ \A f \in n.fetches : f.n \in 1..n.asked
        /\ calls \subseteq Requests
    BY DEF IndInv, NetOf
  <1>2. NetOf(net', app.listed, app.from)
    BY <1>1, AskingFacts
  <1> QED
    BY <1>1, <1>2, NetStep

\* The ways to ask for the lists.
LEMMA AskSteps ==
    ASSUME IndInv, FetchData \/ \E asks \in BOOLEAN : Reconnect(asks)
    PROVE  IndInv'
  <1> DEFINE read == [net EXCEPT !.wire = @ - 1]
             due == [net EXCEPT !.timers = @ - 1]
             anew == [net EXCEPT !.socket = "opening", !.wire = 0,
                                 !.timers = IF net.socket = "closed" THEN @ ELSE @ + 1]
  <1>0. /\ net \in Nets /\ net.wire \in Nat /\ net.timers \in Nat
        /\ net.wire > 0 => net.socket = "open"
        /\ net.silent \cap net.db = {}
        /\ app.from \in 0..net.asked /\ \A f \in net.fetches : f.n \in 1..net.asked
        /\ net.asked \in Nat /\ calls \subseteq Requests
    BY DEF IndInv, NetOf, Nets
  <1>1. CASE net.wire > 0 /\ net' = Asking(read) /\ UNCHANGED <<app, page, calls, cmp>> /\ Counts
    <2>1. net.wire - 1 \in Nat
      BY <1>0, <1>1
    <2>2. /\ read \in Nets /\ read.db = net.db /\ read.silent = net.silent /\ read.asked = net.asked
          /\ read.fetches = net.fetches /\ read.socket = net.socket
      BY <1>0, <2>1 DEF Nets
    <2> HIDE DEF read
    <2> QED
      BY <1>0, <1>1, <2>2, AskStep
  <1>2. CASE net.timers > 0 /\ net' = Asking(due) /\ UNCHANGED <<app, page, calls, cmp>> /\ Counts
    <2>1. net.timers - 1 \in Nat
      BY <1>0, <1>2
    <2>2. /\ due \in Nets /\ due.db = net.db /\ due.silent = net.silent /\ due.asked = net.asked
          /\ due.fetches = net.fetches /\ due.socket = net.socket /\ due.wire = net.wire
      BY <1>0, <2>1 DEF Nets
    <2> HIDE DEF due
    <2> QED
      BY <1>0, <1>2, <2>2, AskStep
  <1>3. CASE net' = Asking(net) /\ UNCHANGED <<app, page, calls, cmp>> /\ Counts
    BY <1>0, <1>3, AskStep
  <1>4. ASSUME NEW asks \in BOOLEAN, Reconnect(asks)
        PROVE  IndInv'
    <2> DEFINE t == IF net.socket = "closed" THEN net.timers ELSE net.timers + 1
    <2>1. t \in Nat /\ (t = 0 => net.timers = 0 /\ net.socket = "closed")
      BY <1>0
    <2>2. anew = [net EXCEPT !.socket = "opening", !.wire = 0, !.timers = t]
      BY <1>0 DEF Nets
    <2> HIDE DEF t
    <2>3. /\ anew \in Nets /\ anew.db = net.db /\ anew.silent = net.silent /\ anew.asked = net.asked
          /\ anew.fetches = net.fetches /\ anew.wire = 0 /\ anew.timers = t
      BY <1>0, <2>1, <2>2 DEF Nets
    <2>4. /\ net' = (IF asks THEN Asking(anew) ELSE anew)
          /\ UNCHANGED <<app, page, calls, cmp>> /\ Counts
      BY <1>4 DEF Reconnect, Counts
    <2> HIDE DEF anew
    <2>5. CASE asks
      BY <2>3, <2>4, <2>5, AskStep
    <2>6. CASE ~asks
      <3>1. net' = anew
        BY <2>4, <2>6
      <3>2. Quiet(anew) => Quiet(net)
        BY <1>0, <2>1, <2>3 DEF Quiet
      <3>3. \A S : Current(net, S) => Current(anew, S)
        BY <2>3, <3>2 DEF Current
      <3>4. NetOf(anew, app.listed, app.from)
        <4>1. NetOf(net, app.listed, app.from)
          BY DEF IndInv
        <4> QED
          BY <2>3, <3>3, <4>1 DEF NetOf
      <3> QED
        BY <1>0, <2>4, <3>1, <3>4, NetStep
    <2> QED
      BY <2>5, <2>6
  <1> QED
    BY <1>1, <1>2, <1>3, <1>4 DEF FetchData, Counts

\* The feed is there, or is lost; a fetch is read, or fails; the server loses a
\* trace or gets one, and maybe tells of it: what was current stays so, as long
\* as what is due is told or was removed in silence.
LEMMA FeedStep ==
    ASSUME IndInv, net' \in Nets, net'.asked = net.asked, net'.silent \cap net'.db = {},
           net'.wire > 0 => net'.socket = "open",
           \A S : Current(net, S) => Current(net', S),
           \A g \in net'.fetches :
               \/ g \in net.fetches
               \/ \E f \in net.fetches : g.n = f.n /\ Current(net', g.db),
           calls' \subseteq Requests, UNCHANGED <<app, page, cmp>>, Counts
    PROVE  IndInv'
  <1>1. NetOf(net, app.listed, app.from)
    BY DEF IndInv
  <1>2. ASSUME NEW g \in net'.fetches
        PROVE  g.n \in 1..net.asked /\ (g.n = net.asked /\ g.read => Current(net', g.db))
    BY <1>1 DEF NetOf
  <1>3. app.from \in 0..net.asked /\ (app.from = net.asked => Current(net', Range(app.listed)))
    BY <1>1 DEF NetOf
  <1>4. NetOf(net', app.listed, app.from)
    BY <1>2, <1>3 DEF NetOf
  <1> QED
    BY <1>4, NetStep

\* The steps of the feed and of a fetch, up to its answer.
LEMMA FeedSteps ==
    ASSUME IndInv,
           \/ SocketOpens \/ SocketDrops
           \/ \E f \in net.fetches : FetchReads(f) \/ FetchFails(f)
    PROVE  IndInv'
  <1>0. /\ net \in Nets /\ net.wire \in Nat /\ net.timers \in Nat /\ net.silent \cap net.db = {}
        /\ net.wire > 0 => net.socket = "open"
        /\ net.fetches \in SUBSET Fetches /\ net.db \in SUBSET Traces
        /\ calls \subseteq Requests
    BY DEF IndInv, NetOf, Nets
  <1>1. CASE SocketOpens
    <2>1. net' = [net EXCEPT !.socket = "open"] /\ UNCHANGED <<app, page, calls, cmp>> /\ Counts
      BY <1>1 DEF SocketOpens, Counts
    <2>2. /\ net' \in Nets /\ net'.db = net.db /\ net'.silent = net.silent /\ net'.asked = net.asked
          /\ net'.fetches = net.fetches /\ net'.wire = net.wire /\ net'.timers = net.timers
          /\ net'.socket = "open"
      BY <1>0, <2>1 DEF Nets
    <2>3. \A S : Current(net, S) => Current(net', S)
      BY <2>2 DEF Current, Quiet
    <2> QED
      BY <1>0, <2>1, <2>2, <2>3, FeedStep
  <1>2. CASE SocketDrops
    <2>1. /\ net' = [net EXCEPT !.socket = "closed", !.wire = 0, !.timers = net.timers + 1]
          /\ UNCHANGED <<app, page, calls, cmp>> /\ Counts
      BY <1>2 DEF SocketDrops, Counts
    <2>2. net.timers + 1 \in Nat /\ net.timers + 1 # 0
      BY <1>0
    <2>3. /\ net' \in Nets /\ net'.db = net.db /\ net'.silent = net.silent /\ net'.asked = net.asked
          /\ net'.fetches = net.fetches /\ net'.wire = 0 /\ net'.timers = net.timers + 1
      BY <1>0, <2>1, <2>2 DEF Nets
    <2>4. \A S : Current(net', S)
      BY <2>2, <2>3 DEF Current, Quiet
    <2> QED
      BY <1>0, <2>1, <2>3, <2>4, FeedStep
  <1>3. ASSUME NEW f \in net.fetches, FetchReads(f)
        PROVE  IndInv'
    <2> DEFINE g == [f EXCEPT !.read = TRUE, !.db = net.db]
    <2>1. f \in Fetches /\ g \in Fetches /\ g.n = f.n /\ g.db = net.db
      BY <1>0 DEF Fetches
    <2>2. /\ net' = [net EXCEPT !.fetches = (net.fetches \ {f}) \cup {g}]
          /\ UNCHANGED <<app, page, calls, cmp>> /\ Counts
      BY <1>3 DEF FetchReads, Counts
    <2> HIDE DEF g
    <2>3. /\ net' \in Nets /\ net'.db = net.db /\ net'.silent = net.silent /\ net'.asked = net.asked
          /\ net'.fetches = (net.fetches \ {f}) \cup {g}
          /\ net'.wire = net.wire /\ net'.timers = net.timers /\ net'.socket = net.socket
      BY <1>0, <2>1, <2>2 DEF Nets
    <2>4. /\ \A S : Current(net, S) => Current(net', S)
          /\ Current(net', g.db)
      BY <2>1, <2>3 DEF Current, Quiet
    <2>5. \A h \in net'.fetches : h \in net.fetches \/ h = g
      BY <2>3
    <2> QED
      BY <1>0, <2>1, <2>2, <2>3, <2>4, <2>5, FeedStep
  <1>4. ASSUME NEW f \in net.fetches, FetchFails(f)
        PROVE  IndInv'
    <2>1. net' = [net EXCEPT !.fetches = net.fetches \ {f}] /\ UNCHANGED <<app, page, calls, cmp>> /\ Counts
      BY <1>4 DEF FetchFails, Counts
    <2>2. /\ net' \in Nets /\ net'.db = net.db /\ net'.silent = net.silent /\ net'.asked = net.asked
          /\ net'.fetches = net.fetches \ {f}
          /\ net'.wire = net.wire /\ net'.timers = net.timers /\ net'.socket = net.socket
      BY <1>0, <2>1 DEF Nets
    <2>3. \A S : Current(net, S) => Current(net', S)
      BY <2>2 DEF Current, Quiet
    <2>4. \A h \in net'.fetches : h \in net.fetches
      BY <2>2
    <2> QED
      BY <1>0, <2>1, <2>2, <2>3, <2>4, FeedStep
  <1> QED
    BY <1>1, <1>2, <1>3, <1>4

\* An answer is shown.  That of the fetch asked for last is current.
LEMMA AnsweredStep ==
    ASSUME IndInv, NEW f \in net.fetches, NEW v \in Views, FetchAnswered(f, v)
    PROVE  IndInv'
  <1> DEFINE l == Listing(f.db, v)
             e == ErrorsOf(f.db)
             a == [app EXCEPT !.listed = l, !.errors = e, !.from = f.n]
             b == WithSelection(a)
  <1>0. /\ net \in Nets /\ f \in Fetches /\ f.db \in SUBSET Traces /\ f.n \in Nat
        /\ NetOf(net, app.listed, app.from) /\ AppOf(app) /\ PageOf(page, app)
    BY DEF IndInv, NetOf, Nets, Fetches
  <1>1. l \in Seq(Traces) /\ IsInjective(l) /\ Range(l) \subseteq f.db /\ e \in Seq(Panels)
    BY <1>0, ListFacts
  <1>2. /\ app' = b /\ net' = [net EXCEPT !.fetches = net.fetches \ {f}] /\ f.read
        /\ UNCHANGED <<page, calls, cmp>> /\ Counts
    BY DEF FetchAnswered, Counts
  <1> HIDE DEF l, e
  <1>3. AppOf(b) /\ b.listed = l /\ b.tab = app.tab /\ b.trace = app.trace /\ b.from = f.n
    <2>1. /\ a \in Apps /\ a.listed = l /\ a.tab = app.tab /\ a.trace = app.trace
          /\ a.detail = app.detail /\ a.inspected = app.inspected /\ a.from = f.n
      BY <1>0, <1>1 DEF AppOf, Unselected, Apps
    <2> HIDE DEF a
    <2>2. Unselected(a)
      BY <1>0, <1>1, <2>1 DEF AppOf, Unselected
    <2> QED
      BY <2>1, <2>2, Selects DEF SameApp
  <1> HIDE DEF b
  <1>4. /\ net' \in Nets /\ net'.db = net.db /\ net'.silent = net.silent /\ net'.asked = net.asked
        /\ net'.fetches = net.fetches \ {f}
        /\ net'.wire = net.wire /\ net'.timers = net.timers /\ net'.socket = net.socket
    BY <1>0, <1>2 DEF Nets
  <1>5. \A S : Current(net, S) => Current(net', S)
    BY <1>4 DEF Current, Quiet
  <1>6. f.n = net.asked => Current(net', Range(l))
    <2>1. f.n = net.asked => Current(net', f.db)
      BY <1>0, <1>2, <1>5 DEF NetOf
    <2> QED
      BY <1>1, <2>1 DEF Current
  <1>7. NetOf(net', l, f.n)
    <2>1. f.n \in 0..net.asked
      BY <1>0 DEF NetOf, Nets
    <2> QED
      BY <1>0, <1>4, <1>5, <1>6, <2>1 DEF NetOf
  <1>8. PageOf(page', app')
    BY <1>0, <1>2, <1>3 DEF PageOf
  <1> QED
    BY <1>2, <1>3, <1>7, <1>8, CountsUp DEF IndInv

\* Traces are removed with a broadcast, or in silence.
LEMMA RemovedFacts ==
    ASSUME NEW n \in Nets, NEW ids \in SUBSET Traces, n.silent \cap n.db = {},
           n.wire > 0 => n.socket = "open"
    PROVE  LET r == Removed(n, ids)
           IN /\ r \in Nets /\ r.asked = n.asked /\ r.fetches = n.fetches /\ r.silent \cap r.db = {}
              /\ r.wire > 0 => r.socket = "open"
              /\ \A S : Current(n, S) => Current(r, S)
  <1> DEFINE r == Removed(n, ids)
             w == IF n.socket = "open" THEN n.wire + 1 ELSE n.wire
             u == IF Listens(n) THEN n.silent ELSE n.silent \cup ids
  <1>0. n.wire \in Nat /\ n.timers \in Nat /\ n.silent \in SUBSET Traces /\ n.db \in SUBSET Traces
    BY DEF Nets
  <1>1. r = [n EXCEPT !.db = n.db \ ids, !.wire = w, !.silent = u]
    BY DEF Removed, Nets
  <1>2. /\ w \in Nat /\ u \in SUBSET Traces /\ (w > 0 => n.socket = "open")
        /\ n.silent \subseteq u /\ u \cap (n.db \ ids) = {}
    BY <1>0
  <1>3. w = 0 /\ n.timers = 0 => ~Listens(n) /\ n.wire = 0
    BY <1>0 DEF Listens
  <1>4. ~Listens(n) => ids \subseteq u
    OBVIOUS
  <1> HIDE DEF w, u, r
  <1>8. n.db \ ids \in SUBSET Traces
    BY <1>0
  <1>5. /\ r \in Nets /\ r.db = n.db \ ids /\ r.wire = w /\ r.silent = u /\ r.asked = n.asked
        /\ r.fetches = n.fetches /\ r.socket = n.socket /\ r.timers = n.timers
    BY <1>1, <1>2, <1>8 DEF Nets
  <1>6. ASSUME NEW S, Current(n, S), Quiet(r)
        PROVE  S \ r.db \subseteq r.silent
    <2>1. Quiet(n) /\ ids \subseteq u
      BY <1>3, <1>4, <1>5, <1>6 DEF Quiet
    <2> QED
      BY <1>2, <1>5, <1>6, <2>1 DEF Current
  <1>7. \A S : Current(n, S) => Current(r, S)
    BY <1>6 DEF Current
  <1> QED
    BY <1>2, <1>5, <1>7 DEF r

\* The server loses traces or gets one, and maybe answers a request.
LEMMA ServerChanges ==
    ASSUME IndInv, calls' \subseteq Requests, UNCHANGED <<app, page, cmp>>, Counts,
           \/ UNCHANGED net
           \/ \E ids \in SUBSET Traces : net' = Removed(net, ids)
           \/ \E t \in Traces : net' = [net EXCEPT !.db = @ \ {t}, !.silent = @ \cup {t}]
           \/ \E t \in Traces : net' = [net EXCEPT !.db = @ \cup {t}, !.silent = @ \ {t}]
    PROVE  IndInv'
  <1>0. /\ net \in Nets /\ net.silent \cap net.db = {} /\ (net.wire > 0 => net.socket = "open")
    BY DEF IndInv, NetOf
  <1>1. CASE UNCHANGED net
    BY <1>0, <1>1, FeedStep
  <1>2. ASSUME NEW ids \in SUBSET Traces, net' = Removed(net, ids)
        PROVE  IndInv'
    BY <1>0, <1>2, RemovedFacts, FeedStep
  <1>3. ASSUME NEW t \in Traces,
               \/ net' = [net EXCEPT !.db = net.db \ {t}, !.silent = net.silent \cup {t}]
               \/ net' = [net EXCEPT !.db = net.db \cup {t}, !.silent = net.silent \ {t}]
        PROVE  IndInv'
    <2>1. /\ net' \in Nets /\ net'.asked = net.asked /\ net'.fetches = net.fetches
          /\ net'.wire = net.wire /\ net'.timers = net.timers /\ net'.socket = net.socket
      <3>1. CASE net' = [net EXCEPT !.db = net.db \ {t}, !.silent = net.silent \cup {t}]
        BY <1>0, <3>1 DEF Nets
      <3>2. CASE net' = [net EXCEPT !.db = net.db \cup {t}, !.silent = net.silent \ {t}]
        BY <1>0, <3>2 DEF Nets
      <3> QED
        BY <1>3, <3>1, <3>2
    <2>2. \/ net'.db = net.db \ {t} /\ net'.silent = net.silent \cup {t}
          \/ net'.db = net.db \cup {t} /\ net'.silent = net.silent \ {t}
      BY <1>0, <1>3 DEF Nets
    <2>3. net'.silent \cap net'.db = {} /\ \A S : Current(net, S) => Current(net', S)
      BY <1>0, <2>1, <2>2 DEF Current, Quiet
    <2> QED
      BY <1>0, <2>1, <2>3, FeedStep
  <1> QED
    BY <1>1, <1>2, <1>3

\* The steps of the server.
LEMMA ServerSteps ==
    ASSUME IndInv,
           \/ \E c \in calls : Served(c) \/ CallFails(c)
           \/ \E t \in Traces : DeletedElsewhere(t) \/ Expires(t) \/ Ingested(t)
    PROVE  IndInv'
  <1>0. calls \subseteq Requests
    BY DEF IndInv
  <1>1. ASSUME NEW c \in calls, Served(c)
        PROVE  IndInv'
    <2>1. c.ids \in SUBSET Traces /\ [c EXCEPT !.state = "failed"] \in Requests /\ [c EXCEPT !.state = "done"] \in Requests
      BY <1>0 DEF Requests
    <2>2. calls' \subseteq Requests
      BY <1>0, <1>1, <2>1 DEF Served
    <2>3. (net' = net \/ net' = Removed(net, c.ids)) /\ UNCHANGED <<app, page, cmp>> /\ Counts
      BY <1>1 DEF Served, Counts
    <2> QED
      BY <2>1, <2>2, <2>3, ServerChanges
  <1>2. ASSUME NEW c \in calls, CallFails(c)
        PROVE  IndInv'
    <2>1. [c EXCEPT !.state = "failed"] \in Requests
      BY <1>0 DEF Requests
    <2>2. calls' \subseteq Requests /\ UNCHANGED <<net, app, page, cmp>> /\ Counts
      BY <1>0, <1>2, <2>1 DEF CallFails, Counts
    <2> QED
      BY <2>2, ServerChanges
  <1>3. ASSUME NEW t \in Traces, DeletedElsewhere(t)
        PROVE  IndInv'
    <2>1. /\ net' = Removed(net, {t}) /\ {t} \in SUBSET Traces
          /\ calls' \subseteq Requests /\ UNCHANGED <<app, page, cmp>> /\ Counts
      BY <1>0, <1>3 DEF DeletedElsewhere, Counts
    <2> QED
      BY <2>1, ServerChanges
  <1>4. ASSUME NEW t \in Traces, Expires(t)
        PROVE  IndInv'
    <2>1. /\ net' = [net EXCEPT !.db = @ \ {t}, !.silent = @ \cup {t}]
          /\ calls' \subseteq Requests /\ UNCHANGED <<app, page, cmp>> /\ Counts
      BY <1>0, <1>4 DEF Expires, Counts
    <2> QED
      BY <2>1, ServerChanges
  <1>5. ASSUME NEW t \in Traces, Ingested(t)
        PROVE  IndInv'
    <2>1. /\ net' = [net EXCEPT !.db = @ \cup {t}, !.silent = @ \ {t}]
          /\ calls' \subseteq Requests /\ UNCHANGED <<app, page, cmp>> /\ Counts
      BY <1>0, <1>5 DEF Ingested, Counts
    <2> QED
      BY <2>1, ServerChanges
  <1> QED
    BY <1>1, <1>2, <1>3, <1>4, <1>5

-----------------------------------------------------------------------------
(* Going from page to page.                                                *)

\* The other parts stay as they are.
LEMMA AppStep ==
    ASSUME IndInv, AppOf(app'), PageOf(page', app'), calls' \subseteq Requests,
           app'.listed = app.listed, app'.from = app.from, UNCHANGED net, cmp' \in {cmp, None}, Counts
    PROVE  IndInv'
  BY CountsUp DEF IndInv, NetOf

\* A link, the sidebar, the palette, a row, an error or the arrow goes somewhere.
LEMMA GoSteps ==
    ASSUME IndInv, NEW o \in {app.open, app.open \ {"drawer"}, app.open \ {"palette"}},
           NEW tab \in Tabs, NEW t \in OrNone(Traces), t # None => tab = "traces",
           GoTo([app EXCEPT !.open = o], tab, t), UNCHANGED <<net, cmp>>, Counts
    PROVE  IndInv'
  <1> DEFINE a == [app EXCEPT !.open = o]
  <1>0. AppOf(app) /\ PageOf(page, app) /\ calls \subseteq Requests /\ app \in Apps
    BY DEF IndInv, AppOf, Unselected
  <1>1. o \in SUBSET {"drawer", "palette", "shortcuts"}
    BY <1>0 DEF Apps
  <1>2. /\ a \in Apps /\ a.listed = app.listed /\ a.tab = app.tab /\ a.trace = app.trace
        /\ a.detail = app.detail /\ a.inspected = app.inspected /\ a.from = app.from
    BY <1>0, <1>1 DEF Apps
  <1> HIDE DEF a
  <1>3. Unselected(a)
    BY <1>0, <1>2 DEF AppOf, Unselected
  <1>4. GoTo(a, tab, t)
    BY DEF a
  <1>5. /\ AppOf(app') /\ PageOf(page', app') /\ calls' \subseteq Requests
        /\ app'.listed = app.listed /\ app'.from = app.from
    BY <1>0, <1>2, <1>3, <1>4, GoToStep
  <1> QED
    BY <1>5, AppStep

\* The same without an overlay that closes.
LEMMA GoesOnly ==
    ASSUME IndInv, NEW tab \in Tabs, NEW t \in OrNone(Traces), t # None => tab = "traces",
           GoTo(app, tab, t), UNCHANGED <<net, cmp>>, Counts
    PROVE  IndInv'
  <1>1. [app EXCEPT !.open = app.open] = app
    BY DEF IndInv, AppOf, Unselected, Apps
  <1> QED
    BY <1>1, GoSteps

\* All the ways to go somewhere.
LEMMA WaySteps ==
    ASSUME IndInv,
           \/ \E tab \in Tabs : HandleNavigate(tab) \/ SidebarRail(tab) \/ SidebarDrawer(tab) \/ PaletteResult(tab)
           \/ \E t \in Traces : OpenFromError(t) \/ OpenFromOther(t)
           \/ Back
    PROVE  IndInv'
  <1>0. None \in OrNone(Traces) /\ Traces \subseteq OrNone(Traces) /\ "traces" \in Tabs /\ app.tab \in Tabs
    BY DEF OrNone, Tabs, IndInv, AppOf, Unselected, Apps
  <1>1. ASSUME NEW tab \in Tabs, HandleNavigate(tab) \/ SidebarRail(tab)
        PROVE  IndInv'
    <2>1. GoTo(app, tab, None) /\ UNCHANGED <<net, cmp>> /\ Counts
      BY <1>1 DEF HandleNavigate, SidebarRail, Counts
    <2> QED
      BY <1>0, <2>1, GoesOnly
  <1>2. ASSUME NEW tab \in Tabs, SidebarDrawer(tab)
        PROVE  IndInv'
    <2>1. GoTo([app EXCEPT !.open = app.open \ {"drawer"}], tab, None) /\ UNCHANGED <<net, cmp>> /\ Counts
      BY <1>2 DEF SidebarDrawer, Counts
    <2> QED
      BY <1>0, <2>1, GoSteps
  <1>3. ASSUME NEW tab \in Tabs, PaletteResult(tab)
        PROVE  IndInv'
    <2>1. GoTo([app EXCEPT !.open = app.open \ {"palette"}], tab, None) /\ UNCHANGED <<net, cmp>> /\ Counts
      BY <1>3 DEF PaletteResult, Counts
    <2> QED
      BY <1>0, <2>1, GoSteps
  <1>4. ASSUME NEW t \in Traces, OpenFromError(t) \/ OpenFromOther(t)
        PROVE  IndInv'
    <2>1. GoTo(app, "traces", t) /\ UNCHANGED <<net, cmp>> /\ Counts
      BY <1>4 DEF OpenFromError, OpenFromOther, HandleSelectTrace, Counts
    <2> QED
      BY <1>0, <2>1, GoesOnly
  <1>5. CASE Back
    <2>1. GoTo(app, app.tab, None) /\ UNCHANGED <<net, cmp>> /\ Counts
      BY <1>5 DEF Back, Counts
    <2> QED
      BY <1>0, <2>1, GoesOnly
  <1> QED
    BY <1>1, <1>2, <1>3, <1>4, <1>5

\* Overlays open and close, and with Escape the comparison.
LEMMA OverlaySteps ==
    ASSUME IndInv, MenuButton \/ CloseTop \/ \E key \in {"ctrl-k", "?", "escape"} : KeyDown(key)
    PROVE  IndInv'
  <1> DEFINE Overlays == {"drawer", "palette", "shortcuts"}
  <1>0. /\ AppOf(app) /\ PageOf(page, app) /\ calls \subseteq Requests /\ app \in Apps
        /\ app.open \in SUBSET Overlays
    BY DEF IndInv, AppOf, Unselected, Apps
  <1>1. /\ \E o \in SUBSET Overlays : app' = [app EXCEPT !.open = o]
        /\ UNCHANGED <<net, page, calls>> /\ cmp' \in {cmp, None} /\ Counts
    <2>1. CASE MenuButton
      <3>1. app.open \cup {"drawer"} \in SUBSET Overlays
        BY <1>0
      <3> QED
        BY <2>1, <3>1 DEF MenuButton, Counts
    <2>2. CASE CloseTop
      <3>1. app.open \ {Top} \in SUBSET Overlays
        BY <1>0
      <3> QED
        BY <2>2, <3>1 DEF CloseTop, Counts
    <2>3. ASSUME NEW key \in {"ctrl-k", "?", "escape"}, KeyDown(key)
          PROVE  /\ \E o \in SUBSET Overlays : app' = [app EXCEPT !.open = o]
                 /\ UNCHANGED <<net, page, calls>> /\ cmp' \in {cmp, None} /\ Counts
      <3>1. /\ app.open \ {"palette"} \in SUBSET Overlays /\ app.open \cup {"palette"} \in SUBSET Overlays
            /\ app.open \cup {"shortcuts"} \in SUBSET Overlays
            /\ app.open \ {"palette", "shortcuts"} \in SUBSET Overlays
        BY <1>0
      <3>2. UNCHANGED <<net, page, calls>> /\ cmp' \in {cmp, None} /\ Counts
        BY <2>3 DEF KeyDown, Counts
      <3>3. CASE key = "ctrl-k"
        BY <2>3, <3>1, <3>2, <3>3 DEF KeyDown
      <3>4. CASE key = "?"
        BY <2>3, <3>1, <3>2, <3>4 DEF KeyDown
      <3>5. CASE key = "escape"
        BY <2>3, <3>1, <3>2, <3>5 DEF KeyDown
      <3> QED
        BY <2>3, <3>3, <3>4, <3>5
    <2> QED
      BY <2>1, <2>2, <2>3
  <1>2. PICK o \in SUBSET Overlays : app' = [app EXCEPT !.open = o]
    BY <1>1
  <1>3. /\ app' \in Apps /\ app'.listed = app.listed /\ app'.errors = app.errors /\ app'.tab = app.tab
        /\ app'.trace = app.trace /\ app'.detail = app.detail /\ app'.inspected = app.inspected
        /\ app'.from = app.from
    BY <1>0, <1>2 DEF Apps
  <1>4. AppOf(app') /\ PageOf(page', app')
    BY <1>0, <1>1, <1>3 DEF AppOf, Unselected, PageOf
  <1> QED
    BY <1>0, <1>1, <1>3, <1>4, AppStep

-----------------------------------------------------------------------------
(* TracesPage.                                                             *)

\* Only the page and the requests change.
LEMMA PageStep ==
    ASSUME IndInv, PageOf(page', app), calls' \subseteq Requests, UNCHANGED <<net, app, cmp>>, Counts
    PROVE  IndInv'
  BY CountsUp DEF IndInv

\* A request is asked for.
LEMMA AskFacts ==
    ASSUME IndInv, NEW kind \in {"row", "batch", "detail"}, NEW ids \in SUBSET Traces, Ask(kind, ids)
    PROVE  calls' \subseteq Requests
  <1> DEFINE c == [kind |-> kind, ids |-> ids, here |-> TRUE, state |-> "asked"]
  <1>1. c \in Requests
    BY DEF Requests
  <1>2. calls \subseteq Requests /\ calls' = calls \cup {c}
    BY DEF Ask, IndInv
  <1> HIDE DEF c
  <1> QED
    BY <1>1, <1>2

\* Ticks change, maybe behind the modal.
LEMMA TickStep ==
    ASSUME IndInv, OnTracesPage,
           NEW b \in Seq(Traces), IsInjective(b), Ticks(b),
           UNCHANGED <<net, app, calls, cmp>>, Counts
    PROVE  IndInv'
  <1>0. page \in Pages /\ calls \subseteq Requests
    BY DEF IndInv, PageOf
  <1>1. page' \in Pages /\ page'.batch = b /\ page'.modal = page.modal /\ (page.modal => page'.behind)
    BY <1>0 DEF Pages, Ticks
  <1>2. PageOf(page', app)
    BY <1>1 DEF PageOf, OnTracesPage
  <1> QED
    BY <1>0, <1>2, PageStep

\* toggleBatch and the box in the header.
LEMMA TickSteps ==
    ASSUME IndInv, OnTracesPage, UNCHANGED <<net, cmp>>, Counts,
           \/ \E t \in Traces : ToggleBatch(t)
           \/ ToggleAll
    PROVE  IndInv'
  <1>0. /\ page \in Pages /\ page.batch \in Seq(Traces) /\ IsInjective(page.batch)
        /\ app.listed \in Seq(Traces) /\ IsInjective(app.listed)
    BY DEF IndInv, PageOf, Pages, AppOf, Unselected, Apps
  <1>1. ASSUME NEW t \in Traces, ToggleBatch(t), t \in Batch
        PROVE  IndInv'
    <2> DEFINE b == Filtered(page.batch, Batch \ {t})
    <2>1. b \in Seq(Traces) /\ IsInjective(b)
      BY <1>0, FilteredFacts
    <2>2. Ticks(b) /\ UNCHANGED <<app, calls>>
      BY <1>1 DEF ToggleBatch
    <2> HIDE DEF b
    <2> QED
      BY <2>1, <2>2, TickStep
  <1>2. ASSUME NEW t \in Traces, ToggleBatch(t), t \notin Batch
        PROVE  IndInv'
    <2> DEFINE b == Append(page.batch, t)
    <2>1. /\ b \in Seq(Traces) /\ DOMAIN b = 1..(Len(page.batch) + 1)
          /\ Len(page.batch) \in Nat /\ DOMAIN page.batch = 1..Len(page.batch)
          /\ \A i \in DOMAIN page.batch : b[i] = page.batch[i] /\ b[i] # t
          /\ b[Len(page.batch) + 1] = t
      BY <1>0, <1>2, AppendProperties, LenProperties DEF Batch, Range
    <2>2. Ticks(b) /\ UNCHANGED <<app, calls>>
      BY <1>2 DEF ToggleBatch
    <2> HIDE DEF b
    <2>3. IsInjective(b)
      <3>1. \A i \in DOMAIN b : i \in DOMAIN page.batch \/ i = Len(page.batch) + 1
        BY <2>1
      <3> QED
        BY <1>0, <2>1, <3>1 DEF IsInjective
    <2> QED
      BY <2>1, <2>2, <2>3, TickStep
  <1>3. CASE ToggleAll
    <2>1. PICK b \in {<<>>, app.listed} : Ticks(b)
      BY <1>3 DEF ToggleAll
    <2>2. b \in Seq(Traces) /\ IsInjective(b)
      <3>1. <<>> \in Seq(Traces) /\ IsInjective(<<>>)
        BY EmptySeq DEF IsInjective
      <3> QED
        BY <1>0, <2>1, <3>1
    <2>3. UNCHANGED <<app, calls>>
      BY <1>3 DEF ToggleAll
    <2> QED
      BY <2>1, <2>2, <2>3, TickStep
  <1> QED
    BY <1>1, <1>2, <1>3

\* A row is ticked, asked to be deleted or opened.
LEMMA RowStep == \A t \in Traces : IndInv /\ ClickRow(t) => IndInv'
  <1> SUFFICES ASSUME NEW t \in Traces, IndInv, ClickRow(t)
               PROVE  IndInv'
    OBVIOUS
  <1>0. OnTracesPage /\ UNCHANGED <<net, cmp>> /\ Counts /\ PageOf(page, app)
    BY DEF ClickRow, Counts, IndInv
  <1>1. CASE ToggleBatch(t)
    BY <1>0, <1>1, TickSteps
  <1>2. CASE Ask("row", {t}) /\ UNCHANGED <<app, page>>
    <2>1. calls' \subseteq Requests
      BY <1>2, AskFacts
    <2> QED
      BY <1>0, <1>2, <2>1, PageStep
  <1>3. CASE HandleSelectTrace(t)
    <2>1. "traces" \in Tabs /\ t \in OrNone(Traces)
      BY DEF Tabs, OrNone
    <2> QED
      BY <1>0, <1>3, <2>1, GoesOnly DEF HandleSelectTrace
  <1> QED
    BY <1>1, <1>2, <1>3 DEF ClickRow

\* The confirmation of a batch deletion, and the deletion.
LEMMA ModalSteps ==
    ASSUME IndInv, OpenBatchModal \/ TypeOrCancel \/ HandleBatchDelete
    PROVE  IndInv'
  <1>0. /\ page \in Pages /\ PageOf(page, app) /\ calls \subseteq Requests /\ page.batch \in Seq(Traces)
        /\ Batch \in SUBSET Traces
    <2>1. page \in Pages /\ page.batch \in Seq(Traces)
      BY DEF IndInv, PageOf, Pages
    <2> QED
      BY <2>1, RangeOfSeq DEF IndInv, Batch
  <1>1. CASE OpenBatchModal
    <2>1. /\ page' = [page EXCEPT !.modal = TRUE, !.text = FALSE, !.typedFor = {}, !.behind = FALSE]
          /\ UNCHANGED <<net, app, calls, cmp>> /\ Counts /\ OnTracesPage
      BY <1>1 DEF OpenBatchModal, Counts
    <2>2. page' \in Pages /\ page'.batch = page.batch /\ ~page'.text
      BY <1>0, <2>1 DEF Pages
    <2>3. PageOf(page', app)
      BY <1>0, <2>1, <2>2 DEF PageOf, OnTracesPage
    <2> QED
      BY <1>0, <2>1, <2>3, PageStep
  <1>2. CASE TypeOrCancel
    <2>1. /\ \/ page' = [page EXCEPT !.text = TRUE, !.typedFor = Batch, !.behind = FALSE]
             \/ page' = [page EXCEPT !.text = FALSE, !.typedFor = {}]
             \/ page' = [page EXCEPT !.modal = FALSE]
          /\ UNCHANGED <<net, app, calls, cmp>> /\ Counts /\ page.modal
      BY <1>2 DEF TypeOrCancel, Counts
    <2>2. OnTracesPage
      BY <1>0, <2>1 DEF PageOf, OnTracesPage, FreshPage
    <2>3. /\ page' \in Pages /\ page'.batch = page.batch
          /\ ~page'.modal \/ ~page'.text \/ page'.typedFor = Batch
      BY <1>0, <2>1 DEF Pages
    <2>4. PageOf(page', app)
      BY <1>0, <2>2, <2>3 DEF PageOf, OnTracesPage, Batch
    <2> QED
      BY <1>0, <2>1, <2>4, PageStep
  <1>3. CASE HandleBatchDelete
    <2>1. calls' \subseteq Requests
      BY <1>0, <1>3, AskFacts DEF HandleBatchDelete
    <2> QED
      BY <1>0, <1>3, <2>1, PageStep DEF HandleBatchDelete, Counts
  <1> QED
    BY <1>1, <1>2, <1>3

\* A page that is fresh is in order, whatever is shown.
LEMMA FreshFacts == \A a : PageOf(FreshPage, a)
  <1>1. FreshPage \in Pages
    BY EmptySeq DEF FreshPage, Pages
  <1> QED
    BY <1>1 DEF PageOf, FreshPage, IsInjective

\* The deletions a page asked for are answered.
LEMMA AnswerSteps ==
    ASSUME IndInv, \E c \in calls : BatchAnswered(c) \/ RowAnswered(c)
    PROVE  IndInv'
  <1>1. PageOf(page, app) /\ calls \subseteq Requests
    BY DEF IndInv
  <1>2. /\ page' \in {page, FreshPage} /\ calls' \subseteq calls
        /\ UNCHANGED <<net, app, cmp>> /\ Counts
    BY DEF BatchAnswered, RowAnswered, Counts
  <1>3. PageOf(page', app) /\ calls' \subseteq Requests
    BY <1>1, <1>2, FreshFacts
  <1> QED
    BY <1>2, <1>3, PageStep

-----------------------------------------------------------------------------
(* TraceDetailPage and ErrorsPage.                                         *)

\* The detail page is answered, or its trace is to be deleted.
LEMMA DetailSteps ==
    ASSUME IndInv, DetailLoads \/ HandleDeleteTrace
    PROVE  IndInv'
  <1>0. /\ app \in Apps /\ AppOf(app) /\ PageOf(page, app) /\ calls \subseteq Requests
    BY DEF IndInv, AppOf, Unselected
  <1>1. CASE DetailLoads
    <2>1. /\ \E d \in {"shown", "missing"} : app' = [app EXCEPT !.detail = d]
          /\ UNCHANGED <<net, page, calls, cmp>> /\ Counts /\ app.detail = "loading"
      BY <1>1 DEF DetailLoads, Unanswered, Counts
    <2>2. PICK d \in {"shown", "missing"} : app' = [app EXCEPT !.detail = d]
      BY <2>1
    <2>3. /\ app' \in Apps /\ app'.listed = app.listed /\ app'.errors = app.errors /\ app'.tab = app.tab
          /\ app'.trace = app.trace /\ app'.inspected = app.inspected /\ app'.detail # "away"
          /\ app'.from = app.from
      BY <1>0, <2>2 DEF Apps
    <2>4. AppOf(app') /\ PageOf(page', app')
      BY <1>0, <2>1, <2>3 DEF AppOf, Unselected, PageOf
    <2> QED
      BY <1>0, <2>1, <2>3, <2>4, AppStep
  <1>2. CASE HandleDeleteTrace
    <2>1. app.trace \in Traces
      BY <1>0, <1>2 DEF HandleDeleteTrace, AppOf, Unselected, Apps, OrNone
    <2>2. calls' \subseteq Requests
      BY <1>2, <2>1, AskFacts DEF HandleDeleteTrace
    <2> QED
      BY <1>0, <1>2, <2>2, PageStep DEF HandleDeleteTrace, Counts
  <1> QED
    BY <1>1, <1>2

\* Its deletion is answered: the detail page is left, whichever it is.
LEMMA BackStep == \A c \in calls : IndInv /\ DetailAnswered(c) => IndInv'
  <1> SUFFICES ASSUME NEW c \in calls, IndInv, DetailAnswered(c)
               PROVE  IndInv'
    OBVIOUS
  <1>0. /\ app \in Apps /\ AppOf(app) /\ PageOf(page, app) /\ calls \subseteq Requests
        /\ calls' \subseteq Requests /\ UNCHANGED <<net, cmp>> /\ Counts
    BY DEF IndInv, AppOf, Unselected, DetailAnswered, Counts
  <1>1. CASE c.state = "done" /\ app.trace # None
    <2>1. app' = [app EXCEPT !.trace = None, !.detail = "away"] /\ page' = FreshPage
      BY <1>1 DEF DetailAnswered
    <2>2. /\ app' \in Apps /\ app'.listed = app.listed /\ app'.errors = app.errors /\ app'.tab = app.tab
          /\ app'.trace = None /\ app'.inspected = app.inspected /\ app'.detail = "away"
          /\ app'.from = app.from
      BY <1>0, <2>1 DEF Apps, OrNone
    <2>3. AppOf(app') /\ PageOf(page', app')
      BY <1>0, <2>1, <2>2, FreshFacts DEF AppOf, Unselected
    <2> QED
      BY <1>0, <2>2, <2>3, AppStep
  <1>2. CASE ~(c.state = "done" /\ app.trace # None)
    <2>1. UNCHANGED <<app, page>>
      BY <1>2 DEF DetailAnswered
    <2> QED
      BY <1>0, <2>1, PageStep
  <1> QED
    BY <1>1, <1>2

\* Another error group is shown.
LEMMA InspectStep == \A e \in Range(app.errors) : IndInv /\ SelectError(e) => IndInv'
  <1> SUFFICES ASSUME NEW e \in Range(app.errors), IndInv, SelectError(e)
               PROVE  IndInv'
    OBVIOUS
  <1>0. /\ app \in Apps /\ AppOf(app) /\ PageOf(page, app) /\ calls \subseteq Requests
        /\ app.errors \in Seq(Panels)
    BY DEF IndInv, AppOf, Unselected, Apps
  <1>1. e \in Panels /\ e # None
    BY <1>0, RangeOfSeq, NoneFacts
  <1>2. /\ app' = [app EXCEPT !.inspected = e] /\ app.tab = "errors"
        /\ UNCHANGED <<net, page, calls, cmp>> /\ Counts
    BY DEF SelectError, Counts
  <1>3. /\ app' \in Apps /\ app'.listed = app.listed /\ app'.errors = app.errors /\ app'.tab = app.tab
        /\ app'.trace = app.trace /\ app'.detail = app.detail /\ app'.inspected = e
        /\ app'.from = app.from
    BY <1>0, <1>1, <1>2 DEF Apps, OrNone
  <1>4. AppOf(app') /\ PageOf(page', app')
    BY <1>0, <1>1, <1>2, <1>3 DEF AppOf, Unselected, PageOf
  <1> QED
    BY <1>0, <1>2, <1>3, <1>4, AppStep

-----------------------------------------------------------------------------
(* TraceComparisonModal.                                                   *)

\* Only the comparison changes.
LEMMA CmpStep ==
    ASSUME IndInv, cmp' # None => CmpOf(cmp'), UNCHANGED <<net, app, page, calls>>, Counts
    PROVE  IndInv'
  BY CountsUp DEF IndInv

\* The first other trace there is.
LEMMA CandidateFacts ==
    ASSUME NEW m, CmpOf(m)
    PROVE  Candidate(m) \in OrNone(Traces) /\ Candidate(m) # m.a
  <1> DEFINE others == {i \in DOMAIN m.available : m.available[i] # m.a}
  <1>0. m \in Comparisons /\ m.a \in Traces /\ m.given \in OrNone(Traces) /\ m.given # m.a
        /\ m.available \in Seq(Traces)
    BY DEF CmpOf, Comparisons
  <1>1. m.a # None
    BY <1>0, NoneFacts
  <1>2. CASE m.given # None
    BY <1>0, <1>2 DEF Candidate
  <1>3. CASE m.given = None /\ others = {}
    BY <1>1, <1>3 DEF Candidate, OrNone
  <1>4. CASE m.given = None /\ others # {}
    <2>0. DOMAIN m.available \subseteq Nat /\ \A i \in DOMAIN m.available : m.available[i] \in Traces
      <3>1. DOMAIN m.available = 1..Len(m.available) /\ Len(m.available) \in Nat
        BY <1>0, LenProperties
      <3> QED
        BY <1>0, <3>1, LenProperties
    <2>1. others \in SUBSET Nat
      BY <2>0
    <2> HIDE DEF others
    <2>2. Min(others) \in others
      <3>1. PICK k \in others : \A j \in others : ~(<<j, k>> \in OpToRel(<, Nat))
        BY <1>4, <2>1, WFMin, NatLessThanWellFounded, Zenon
      <3>2. k \in Nat /\ \A j \in others : j \in Nat /\ ~(j < k)
        BY <2>1, <3>1 DEF OpToRel
      <3>3. \A j \in others : k <= j
        BY <3>2
      <3> QED
        BY <3>3 DEF Min
    <2>3. Candidate(m) = m.available[Min(others)]
      BY <1>4 DEF Candidate, others
    <2>4. m.available[Min(others)] \in Traces /\ m.available[Min(others)] # m.a
      BY <2>0, <2>2 DEF others
    <2> QED
      BY <2>3, <2>4 DEF OrNone
  <1> QED
    BY <1>2, <1>3, <1>4

\* Another target is asked for; what is shown and what is under way is not
\* what was asked last any more.
LEMMA AskForBFacts ==
    ASSUME NEW m, CmpOf(m), NEW id \in Traces
    PROVE  /\ AskForB(m, id) \in Comparisons
           /\ AskForB(m, id).a = m.a /\ AskForB(m, id).given = m.given
           /\ AskForB(m, id).selectedB = id
           /\ \A l \in AskForB(m, id).loads : l.last => l.id = id
           /\ AskForB(m, id).shownB # None => ~AskForB(m, id).shownB.last
  <1> DEFINE shown == Overtaken(m.shownB)
             loads == {Overtaken(l) : l \in m.loads} \cup {[id |-> id, last |-> TRUE]}
  <1>0. /\ m \in Comparisons /\ m.loads \subseteq Answers /\ m.shownB \in OrNone(Answers)
    BY DEF CmpOf, Comparisons
  <1>1. \A x \in Answers : Overtaken(x) \in Answers /\ ~Overtaken(x).last
    BY NoneFacts DEF Overtaken, Answers
  <1>2. shown \in OrNone(Answers) /\ (shown # None => ~shown.last)
    BY <1>0, <1>1 DEF Overtaken, OrNone
  <1>3. loads \subseteq Answers /\ \A l \in loads : l.last => l.id = id
    <2>1. [id |-> id, last |-> TRUE] \in Answers
      BY DEF Answers
    <2>2. ASSUME NEW l \in loads
          PROVE  l \in Answers /\ (l.last => l.id = id)
      <3>1. CASE l = [id |-> id, last |-> TRUE]
        BY <2>1, <3>1
      <3>2. CASE \E x \in m.loads : l = Overtaken(x)
        BY <1>0, <1>1, <3>2
      <3> QED
        BY <3>1, <3>2
    <2> QED
      BY <2>2
  <1>4. AskForB(m, id) = [m EXCEPT !.selectedB = id, !.shownB = shown, !.loads = loads]
    BY <1>0 DEF AskForB, Comparisons
  <1> HIDE DEF shown, loads
  <1>5. AskForB(m, id) \in Comparisons
    BY <1>0, <1>2, <1>3, <1>4 DEF Comparisons, OrNone
  <1>6. /\ AskForB(m, id).a = m.a /\ AskForB(m, id).given = m.given /\ AskForB(m, id).selectedB = id
        /\ AskForB(m, id).loads = loads /\ AskForB(m, id).shownB = shown
    BY <1>0, <1>4 DEF Comparisons
  <1> QED
    BY <1>2, <1>3, <1>5, <1>6

\* The modal is opened for the first of two ticked traces, which differ, or for
\* one trace; or it is closed.
LEMMA CompareSteps ==
    ASSUME IndInv, Compare \/ CloseCompare
    PROVE  IndInv'
  <1>0. /\ page \in Pages /\ page.batch \in Seq(Traces) /\ IsInjective(page.batch)
        /\ app.trace \in OrNone(Traces) /\ (app.detail = "away") = (app.trace = None)
        /\ None \notin Traces
    BY NoneFacts DEF IndInv, PageOf, Pages, AppOf, Unselected, Apps
  <1>1. CASE Compare
    <2>1. PICK a \in Traces, b \in OrNone(Traces) : a # b /\ OpenCompare(a, b)
      <3>1. CASE OnTracesPage /\ page.batch # <<>>
                 /\ OpenCompare(page.batch[1], IF Len(page.batch) > 1 THEN page.batch[2] ELSE None)
        <4>1. /\ Len(page.batch) \in Nat /\ DOMAIN page.batch = 1..Len(page.batch)
              /\ \A i \in DOMAIN page.batch : page.batch[i] \in Traces
          BY <1>0, LenProperties
        <4>2. Len(page.batch) # 0
          BY <1>0, <3>1, EmptySeq
        <4>3. page.batch[1] \in Traces
          BY <4>1, <4>2
        <4>4. Len(page.batch) > 1 => page.batch[2] \in Traces /\ page.batch[2] # page.batch[1]
          <5>1. Len(page.batch) > 1 => 1 \in DOMAIN page.batch /\ 2 \in DOMAIN page.batch
            BY <4>1
          <5> QED
            BY <1>0, <4>1, <5>1 DEF IsInjective
        <4> QED
          BY <1>0, <3>1, <4>3, <4>4 DEF OrNone
      <3>2. CASE app.detail = "shown" /\ OpenCompare(app.trace, None)
        BY <1>0, <3>2 DEF OrNone
      <3> QED
        BY <1>1, <3>1, <3>2 DEF Compare
    <2>2. UNCHANGED <<net, app, page, calls>> /\ Counts
      BY <1>1 DEF Compare, Counts
    <2>3. cmp' \in Comparisons
      BY <2>1, EmptySeq DEF OpenCompare, Comparisons, OrNone
    <2>4. CmpOf(cmp')
      BY <2>1, <2>3 DEF OpenCompare, CmpOf
    <2> QED
      BY <2>2, <2>4, CmpStep
  <1>2. CASE CloseCompare
    BY <1>2, CmpStep DEF CloseCompare, Counts
  <1> QED
    BY <1>1, <1>2

\* What can be compared is listed; or the modal gives up.
LEMMA ListingSteps ==
    ASSUME IndInv, CompareListed \/ BaselineFails
    PROVE  IndInv'
  <1>0. cmp # None /\ cmp \in Comparisons /\ CmpOf(cmp)
    BY DEF IndInv, CmpOf, CompareListed, BaselineFails
  <1>1. CASE CompareListed
    <2>1. Listing(net.db, Newest) \in Seq(Traces)
      BY ExplorerAssumption, ListFacts DEF IndInv, NetOf, Nets
    <2>2. /\ cmp' = [cmp EXCEPT !.available = Listing(net.db, Newest), !.load = "a"]
          /\ UNCHANGED <<net, app, page, calls>> /\ Counts
      BY <1>1 DEF CompareListed, Counts
    <2>3. /\ cmp' \in Comparisons /\ cmp'.a = cmp.a /\ cmp'.given = cmp.given /\ cmp'.selectedB = cmp.selectedB
          /\ cmp'.shownB = cmp.shownB /\ cmp'.loads = cmp.loads /\ cmp'.picked = cmp.picked
      BY <1>0, <2>1, <2>2 DEF Comparisons
    <2> QED
      BY <1>0, <2>2, <2>3, CmpStep DEF CmpOf
  <1>2. CASE BaselineFails
    <2>1. /\ cmp' = [cmp EXCEPT !.load = "failed"]
          /\ UNCHANGED <<net, app, page, calls>> /\ Counts
      BY <1>2 DEF BaselineFails, Unanswered, Counts
    <2>2. /\ cmp' \in Comparisons /\ cmp'.a = cmp.a /\ cmp'.given = cmp.given /\ cmp'.selectedB = cmp.selectedB
          /\ cmp'.shownB = cmp.shownB /\ cmp'.loads = cmp.loads /\ cmp'.picked = cmp.picked
      BY <1>0, <2>1 DEF Comparisons
    <2> QED
      BY <1>0, <2>1, <2>2, CmpStep DEF CmpOf
  <1> QED
    BY <1>1, <1>2

\* The baseline is there, and the target is settled.
LEMMA BaselineStep ==
    ASSUME IndInv, BaselineLoads
    PROVE  IndInv'
  <1> DEFINE b == Candidate(cmp)
             got == [cmp EXCEPT !.shownA = cmp.a, !.load = "done"]
  <1>0. /\ CmpOf(cmp) /\ cmp \in Comparisons /\ cmp.a \in Traces
        /\ UNCHANGED <<net, app, page, calls>> /\ Counts
    BY DEF IndInv, CmpOf, Comparisons, BaselineLoads, Counts
  <1>1. b \in OrNone(Traces) /\ b # cmp.a
    BY <1>0, CandidateFacts
  <1>2. cmp' = IF b = None THEN got ELSE [AskForB(got, b) EXCEPT !.picked = None]
    BY DEF BaselineLoads
  <1>3. /\ got \in Comparisons /\ got.a = cmp.a /\ got.given = cmp.given /\ got.selectedB = cmp.selectedB
        /\ got.shownB = cmp.shownB /\ got.loads = cmp.loads /\ got.picked = cmp.picked
    BY <1>0 DEF Comparisons, OrNone
  <1> HIDE DEF b, got
  <1>4. CmpOf(got)
    BY <1>0, <1>3 DEF CmpOf
  <1>5. CASE b = None
    BY <1>0, <1>2, <1>4, <1>5, CmpStep
  <1>6. CASE b # None
    <2> DEFINE m == AskForB(got, b)
    <2>1. /\ m \in Comparisons /\ m.a = cmp.a /\ m.given = cmp.given /\ m.selectedB = b
          /\ \A l \in m.loads : l.last => l.id = b
          /\ m.shownB # None => ~m.shownB.last
      BY <1>1, <1>3, <1>4, <1>6, AskForBFacts DEF OrNone
    <2> HIDE DEF m
    <2>2. cmp' = [m EXCEPT !.picked = None]
      BY <1>2, <1>6 DEF m
    <2>3. /\ cmp' \in Comparisons /\ cmp'.a = m.a /\ cmp'.given = m.given /\ cmp'.selectedB = m.selectedB
          /\ cmp'.shownB = m.shownB /\ cmp'.loads = m.loads /\ cmp'.picked = None
      BY <2>1, <2>2 DEF Comparisons, OrNone
    <2>4. CmpOf(cmp')
      BY <1>0, <1>1, <2>1, <2>3 DEF CmpOf
    <2> QED
      BY <1>0, <2>4, CmpStep
  <1> QED
    BY <1>5, <1>6

\* The user chooses the target.
LEMMA ChoiceStep == \A t \in Traces : IndInv /\ HandleSelectB(t) => IndInv'
  <1> SUFFICES ASSUME NEW t \in Traces, IndInv, HandleSelectB(t)
               PROVE  IndInv'
    OBVIOUS
  <1> DEFINE m == AskForB(cmp, t)
  <1>0. CmpOf(cmp) /\ UNCHANGED <<net, app, page, calls>> /\ Counts
    BY DEF IndInv, HandleSelectB, Counts
  <1>1. /\ m \in Comparisons /\ m.a = cmp.a /\ m.given = cmp.given /\ m.selectedB = t
        /\ \A l \in m.loads : l.last => l.id = t
        /\ m.shownB # None => ~m.shownB.last
    BY <1>0, AskForBFacts
  <1>2. cmp' = [m EXCEPT !.picked = t]
    BY DEF HandleSelectB
  <1> HIDE DEF m
  <1>3. /\ cmp' \in Comparisons /\ cmp'.a = m.a /\ cmp'.given = m.given /\ cmp'.selectedB = m.selectedB
        /\ cmp'.shownB = m.shownB /\ cmp'.loads = m.loads /\ cmp'.picked = t
    BY <1>1, <1>2 DEF Comparisons, OrNone
  <1>4. CmpOf(cmp')
    BY <1>0, <1>1, <1>3 DEF CmpOf
  <1> QED
    BY <1>0, <1>4, CmpStep

\* A target is answered, and is shown, or not.
LEMMA TargetStep ==
    ASSUME IndInv, cmp # None, NEW l \in cmp.loads, TargetLoads(l)
    PROVE  IndInv'
  <1>0. /\ CmpOf(cmp) /\ cmp \in Comparisons /\ cmp.loads \subseteq Answers /\ l \in Answers
        /\ (l.last => l.id = cmp.selectedB)
    BY DEF IndInv, CmpOf, Comparisons
  <1>1. PICK s \in {cmp.shownB, l} : cmp' = [cmp EXCEPT !.loads = @ \ {l}, !.shownB = s]
    <2>1. cmp' = [cmp EXCEPT !.loads = @ \ {l}, !.shownB = l] \/ cmp' = [cmp EXCEPT !.loads = @ \ {l}]
      BY DEF TargetLoads
    <2>2. [cmp EXCEPT !.loads = @ \ {l}] = [cmp EXCEPT !.loads = @ \ {l}, !.shownB = cmp.shownB]
      BY <1>0 DEF Comparisons
    <2> QED
      BY <2>1, <2>2
  <1>2. UNCHANGED <<net, app, page, calls>> /\ Counts
    BY DEF TargetLoads, Unanswered, Counts
  <1>3. /\ cmp' \in Comparisons /\ cmp'.a = cmp.a /\ cmp'.given = cmp.given /\ cmp'.selectedB = cmp.selectedB
        /\ cmp'.shownB = s /\ cmp'.loads = cmp.loads \ {l} /\ cmp'.picked = cmp.picked
    BY <1>0, <1>1 DEF Comparisons, OrNone
  <1>4. CmpOf(cmp')
    BY <1>0, <1>1, <1>3 DEF CmpOf
  <1> QED
    BY <1>2, <1>4, CmpStep

-----------------------------------------------------------------------------
(* The theorems.                                                           *)

\* At first a trace is open, or nothing is ticked, or one trace, and the words
\* may be there.
LEMMA InitInvariant == Init => IndInv
  <1> SUFFICES ASSUME Init
               PROVE  IndInv
    OBVIOUS
  <1>0. /\ Stored \in SUBSET Traces /\ Newest \in Views
    BY ExplorerAssumption
  <1>1. /\ Listing(Stored, Newest) \in Seq(Traces) /\ IsInjective(Listing(Stored, Newest))
        /\ Range(Listing(Stored, Newest)) \subseteq Stored /\ ErrorsOf(Stored) \in Seq(Panels)
    BY <1>0, ListFacts
  <1> DEFINE l == Listing(Stored, Newest)
             e == ErrorsOf(Stored)
             Start(t) ==
                /\ app = [listed |-> l, errors |-> e, from |-> 0, tab |-> "traces", trace |-> t,
                          open |-> {}, detail |-> IF t = None THEN "away" ELSE "shown",
                          inspected |-> None]
                /\ \/ page = FreshPage
                   \/ t = None /\ \E u \in Stored : page \in {Ticked(u), Confirmed(u)}
  <1>2. PICK t \in Stored \cup {None} : Start(t)
    BY DEF Init
  <1>3. /\ net = [db |-> Stored, silent |-> {}, socket |-> "open", wire |-> 0, timers |-> 0,
                  asked |-> 0, fetches |-> {}]
        /\ calls = {} /\ cmp = None /\ events = 0
    BY DEF Init
  <1>4. /\ app = [listed |-> l, errors |-> e, from |-> 0, tab |-> "traces", trace |-> t,
                  open |-> {}, detail |-> IF t = None THEN "away" ELSE "shown", inspected |-> None]
        /\ t \in OrNone(Traces)
    BY <1>0, <1>2 DEF OrNone
  <1>5. page = FreshPage \/ (t = None /\ \E u \in Stored : page \in {Ticked(u), Confirmed(u)})
    BY <1>2
  <1> HIDE DEF l, e, Start
  <1>6. NetOf(net, app.listed, app.from)
    <2>1. net \in Nets /\ app.from = 0 /\ app.listed = l
      BY <1>0, <1>3, <1>4 DEF Nets
    <2> QED
      BY <1>1, <1>3, <2>1 DEF NetOf, Current, l
  <1>7. AppOf(app)
    <2>1. app \in Apps
      BY <1>1, <1>4 DEF Apps, OrNone, Tabs, l, e
    <2> QED
      BY <1>1, <1>4, <2>1 DEF AppOf, Unselected, l
  <1>8. PageOf(page, app)
    <2>1. CASE page = FreshPage
      BY <2>1, FreshFacts
    <2>2. ASSUME t = None, NEW u \in Stored, page \in {Ticked(u), Confirmed(u)}
          PROVE  PageOf(page, app)
      <3>1. <<u>> \in Seq(Traces) /\ IsInjective(<<u>>) /\ Range(<<u>>) = {u} /\ u \in Traces
        BY <1>0 DEF IsInjective, Range
      <3>2. FreshPage \in Pages /\ ~FreshPage.modal
        BY EmptySeq DEF FreshPage, Pages
      <3>4. Ticked(u) \in Pages /\ Ticked(u).batch = <<u>> /\ ~Ticked(u).modal
        BY <3>1, <3>2 DEF Ticked, Pages
      <3>5. {u} \in SUBSET Traces
        BY <3>1
      <3>6. Confirmed(u) \in Pages /\ Confirmed(u).batch = <<u>> /\ Confirmed(u).typedFor = {u}
        BY <3>4, <3>5 DEF Confirmed, Pages
      <3>3. page \in Pages /\ page.batch = <<u>> /\ (page.modal => page.typedFor = {u})
        BY <2>2, <3>4, <3>6
      <3> QED
        BY <1>4, <2>2, <3>1, <3>3 DEF PageOf
    <2> QED
      BY <1>5, <2>1, <2>2
  <1> QED
    BY <1>3, <1>6, <1>7, <1>8 DEF IndInv

\* Every step keeps the invariant.
LEMMA StepInvariant == IndInv /\ [Next]_vars => IndInv'
  <1> SUFFICES ASSUME IndInv, [Next]_vars
               PROVE  IndInv'
    OBVIOUS
  <1>1. CASE UNCHANGED vars
    BY <1>1 DEF vars, IndInv
  <1>2. CASE FetchData \/ \E asks \in BOOLEAN : Reconnect(asks)
    BY <1>2, AskSteps
  <1>18. CASE \/ SocketOpens \/ SocketDrops
              \/ \E f \in net.fetches : FetchReads(f) \/ FetchFails(f)
    BY <1>18, FeedSteps
  <1>19. CASE \E f \in net.fetches, v \in Views : FetchAnswered(f, v)
    BY <1>19, AnsweredStep
  <1>3. CASE \/ \E c \in calls : Served(c) \/ CallFails(c)
             \/ \E t \in Traces : DeletedElsewhere(t) \/ Expires(t) \/ Ingested(t)
    BY <1>3, ServerSteps
  <1>4. CASE \E c \in calls : BatchAnswered(c) \/ RowAnswered(c)
    BY <1>4, AnswerSteps
  <1>5. CASE \E c \in calls : DetailAnswered(c)
    BY <1>5, BackStep
  <1>6. CASE \/ \E tab \in Tabs : HandleNavigate(tab) \/ SidebarRail(tab) \/ SidebarDrawer(tab) \/ PaletteResult(tab)
             \/ \E t \in Traces : OpenFromError(t) \/ OpenFromOther(t)
             \/ Back
    BY <1>6, WaySteps
  <1>7. CASE MenuButton \/ CloseTop \/ \E key \in {"ctrl-k", "?", "escape"} : KeyDown(key)
    BY <1>7, OverlaySteps
  <1>8. CASE ToggleAll
    BY <1>8, TickSteps DEF ToggleAll, Counts
  <1>9. CASE OpenBatchModal \/ TypeOrCancel \/ HandleBatchDelete
    BY <1>9, ModalSteps
  <1>10. CASE \E t \in Traces : ClickRow(t)
    BY <1>10, RowStep
  <1>11. CASE DetailLoads \/ HandleDeleteTrace
    BY <1>11, DetailSteps
  <1>12. CASE \E e \in Range(app.errors) : SelectError(e)
    BY <1>12, InspectStep
  <1>13. CASE Compare \/ CloseCompare
    BY <1>13, CompareSteps
  <1>14. CASE CompareListed \/ BaselineFails
    BY <1>14, ListingSteps
  <1>15. CASE BaselineLoads
    BY <1>15, BaselineStep
  <1>16. CASE \E t \in Traces : HandleSelectB(t)
    BY <1>16, ChoiceStep
  <1>17. CASE cmp # None /\ \E l \in cmp.loads : TargetLoads(l)
    BY <1>17, TargetStep
  <1> QED
    BY <1>1, <1>2, <1>3, <1>4, <1>5, <1>6, <1>7, <1>8, <1>9, <1>10, <1>11, <1>12, <1>13, <1>14,
       <1>15, <1>16, <1>17, <1>18, <1>19 DEF Next

\* The inductive invariant holds always.
THEOREM Invariance == Spec => []IndInv
  <1> QED
    BY InitInvariant, StepInvariant, PTL DEF Spec

\* The state has the shape the components give it, and a page that is not
\* mounted keeps nothing.
THEOREM TypeCorrect == Spec => []TypeOK
  <1>1. ASSUME IndInv
        PROVE  TypeOK
    <2>1. /\ net.db \subseteq Traces /\ net.silent \cap net.db = {}
          /\ net.socket \in {"open", "opening", "closed"} /\ net.wire \in Nat /\ net.timers \in Nat
          /\ net.wire > 0 => net.socket = "open"
          /\ app.from \in 0..net.asked
      BY <1>1 DEF IndInv, NetOf, Nets
    <2>7. \A f \in net.fetches : f.n \in 1..net.asked /\ f.db \subseteq Traces
      <3>1. net.fetches \in SUBSET Fetches
        BY <1>1 DEF IndInv, NetOf, Nets
      <3> QED
        BY <1>1, <3>1 DEF IndInv, NetOf, Fetches
    <2>2. /\ app.listed \in Seq(Traces) /\ app.tab \in Tabs /\ app.trace \in Traces \cup {None}
          /\ app.detail \in {"away", "loading", "shown", "missing"}
      BY <1>1 DEF IndInv, AppOf, Unselected, Apps, OrNone
    <2>3. /\ app.trace # None => app.tab = "traces"
          /\ (app.detail = "away") = (app.trace = None)
          /\ app.inspected # None => app.tab = "errors"
      BY <1>1 DEF IndInv, AppOf, Unselected
    <2>4. IsInjective(page.batch) /\ page.batch \in Seq(Traces) /\ (~OnTracesPage => page = FreshPage)
      BY <1>1 DEF IndInv, PageOf, Pages, OnTracesPage
    <2>5. Batch \subseteq Traces
      BY <2>4, RangeOfSeq DEF Batch
    <2>6. \A c \in calls : c.ids \subseteq Traces
      BY <1>1 DEF IndInv, Requests
    <2> QED
      BY <2>1, <2>2, <2>3, <2>4, <2>5, <2>6, <2>7 DEF TypeOK
  <1> QED
    BY <1>1, Invariance, PTL

\* A batch deletion asks for the traces that were ticked when its words were
\* typed, unless boxes were ticked behind the modal since; and when the fetch
\* asked for last has answered last, with no notice and no timer due, a row of a
\* trace that is gone is left only if this tab could not hear of it.
THEOREM DeletionsAreExplained == Spec => []DeletionsExplained
  <1>1. ASSUME IndInv
        PROVE  DeletionsExplained
    BY <1>1 DEF IndInv, NetOf, PageOf, Current, Quiet, AtRest, DeletionsExplained,
                DeletesWhatWasConfirmed, DeletedGoes, Batch
  <1> QED
    BY <1>1, Invariance, PTL

\* ErrorsPage shows a group whenever it has one.  A comparison whose last answer
\* came last is with the selected target, which the select names unless it is
\* not among its options, and which is not the baseline unless the user chose it.
THEOREM PanelsAreExplained == Spec => []PanelsExplained
  <1>1. ASSUME IndInv
        PROVE  PanelsExplained
    BY <1>1 DEF IndInv, AppOf, CmpOf, PanelsExplained, InspectorFilled, ComparisonExplained,
                Named
  <1> QED
    BY <1>1, Invariance, PTL

\* The detail page closes when the user goes elsewhere or when a deletion asked
\* for on a detail page is answered, and at no other time.
THEOREM ClosesAreExplained == Spec => ClosesExplained
  <1>1. ASSUME IndInv, [Next]_vars, app'.trace # app.trace, events' = events
        PROVE  \E c \in calls \ calls' : c.kind = "detail"
    <2>0. app \in Apps /\ Unselected(app) /\ net.fetches \in SUBSET Fetches /\ events # events + 1
      BY <1>1 DEF IndInv, AppOf, Unselected, NetOf, Nets
    <2>1. ~Event
      BY <1>1, <2>0 DEF Event
    <2>2. ~UNCHANGED app
      BY <1>1
    <2>3. ASSUME NEW f \in net.fetches, NEW v \in Views, FetchAnswered(f, v)
          PROVE  FALSE
      <3> DEFINE l == Listing(f.db, v)
                 e == ErrorsOf(f.db)
                 a == [app EXCEPT !.listed = l, !.errors = e, !.from = f.n]
      <3>1. app' = WithSelection(a)
        BY <2>3 DEF FetchAnswered
      <3> HIDE DEF l, e
      <3>2. a.trace = app.trace
        BY <2>0 DEF Apps
      <3> HIDE DEF a
      <3>3. WithSelection(a).trace = a.trace
        BY DEF WithSelection
      <3> QED
        BY <1>1, <3>1, <3>2, <3>3
    <2>4. ASSUME DetailLoads
          PROVE  FALSE
      <3>1. \E d \in {"shown", "missing"} : app' = [app EXCEPT !.detail = d]
        BY <2>4 DEF DetailLoads
      <3>2. app'.trace = app.trace
        BY <2>0, <3>1 DEF Apps
      <3> QED
        BY <1>1, <3>2
    <2>5. ASSUME NEW c \in calls, DetailAnswered(c)
          PROVE  c \in calls \ calls' /\ c.kind = "detail"
      BY <2>5 DEF DetailAnswered
    <2>6. \/ \E f \in net.fetches, v \in Views : FetchAnswered(f, v)
          \/ DetailLoads
          \/ \E c \in calls : DetailAnswered(c)
      <3>1. ~UNCHANGED vars
        BY <2>2 DEF vars
      <3>2. /\ \A c \in calls : ~Served(c) /\ ~CallFails(c) /\ ~BatchAnswered(c)
            /\ \A t \in Traces : ~DeletedElsewhere(t) /\ ~Expires(t) /\ ~Ingested(t)
            /\ ~FetchData /\ ~SocketOpens /\ ~SocketDrops /\ \A asks \in BOOLEAN : ~Reconnect(asks)
            /\ \A f \in net.fetches : ~FetchReads(f) /\ ~FetchFails(f)
        BY <2>1, <2>2 DEF Served, CallFails, BatchAnswered, DeletedElsewhere, Expires, Ingested,
                          FetchData, SocketOpens, SocketDrops, Reconnect, FetchReads, FetchFails
      <3>3. \A c \in calls : ~RowAnswered(c)
        BY <2>2 DEF RowAnswered
      <3>4. /\ \A tab \in Tabs : /\ ~HandleNavigate(tab) /\ ~SidebarRail(tab)
                                 /\ ~SidebarDrawer(tab) /\ ~PaletteResult(tab)
            /\ \A t \in Traces : /\ ~ClickRow(t) /\ ~OpenFromError(t) /\ ~OpenFromOther(t)
                                  /\ ~HandleSelectB(t)
            /\ \A key \in {"ctrl-k", "?", "escape"} : ~KeyDown(key)
            /\ \A e \in Range(app.errors) : ~SelectError(e)
        BY <2>1 DEF HandleNavigate, SidebarRail, SidebarDrawer, PaletteResult, ClickRow, OpenFromError,
                    OpenFromOther, HandleSelectB, KeyDown, SelectError
      <3>5. /\ ~Back /\ ~MenuButton /\ ~CloseTop /\ ~ToggleAll /\ ~OpenBatchModal /\ ~TypeOrCancel
            /\ ~HandleBatchDelete /\ ~HandleDeleteTrace /\ ~Compare /\ ~CloseCompare
        BY <2>1 DEF Back, MenuButton, CloseTop, ToggleAll, OpenBatchModal, TypeOrCancel,
                    HandleBatchDelete, HandleDeleteTrace, Compare, CloseCompare
      <3>6. ~CompareListed /\ ~BaselineLoads /\ ~BaselineFails /\ \A l \in cmp.loads : ~TargetLoads(l)
        BY <2>2 DEF CompareListed, BaselineLoads, BaselineFails, TargetLoads
      <3> QED
        BY <1>1, <3>1, <3>2, <3>3, <3>4, <3>5, <3>6 DEF Next
    <2> QED
      BY <2>3, <2>4, <2>5, <2>6
  <1>2. IndInv /\ [Next]_vars =>
            [(/\ app.trace # None /\ app'.trace # app.trace /\ app'.trace = None
              /\ events' = events)
                => \E c \in calls \ calls' : c.kind = "detail"]_vars
    BY <1>1
  <1> QED
    BY <1>2, Invariance, PTL DEF Spec, ClosesExplained
=============================================================================
