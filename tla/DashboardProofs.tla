---------------------------- MODULE DashboardProofs ----------------------------
(***************************************************************************)
(* Proofs about Dashboard, for any workspaces, any filters and parts of a  *)
(* fetch, and any bound on the events.                                     *)
(***************************************************************************)
EXTENDS Dashboard, FiniteSetTheorems, SequenceTheorems, TLAPS

-----------------------------------------------------------------------------
(* The inductive invariant.                                                *)

\* The ids that a request may name: those people made, which the server may
\* have lost, and the ghosts it has.
Names == Workspaces \cup Range(listed)

Closures(N) == [project : N \cup {None}, filters : Filters]

Fetches(N, n) ==
    [last : BOOLEAN, by : Callers, header : N, filters : Filters, asOf : 0..n,
     waiting : SUBSET Parts]

\* A tab that knows the names N after n broadcasts.
Tabs(N, n) ==
    [client : N, clientOld : BOOLEAN, selected : N \cup {None}, projects : Seq(N),
     listing : {"asked", "answered", "done"}, answer : Seq(N), savedBy : {"own", "other"},
     filters : Filters, paused : BOOLEAN, buffered : Nat,
     fetches : SUBSET Fetches(N, n), shown : Fetches(N, n) \cup {None},
     socket : {"opening", "open", "closed"}, wire : Seq({"ingested", "deleted"}),
     closing : Seq(Closures(N)), keySees : Closures(N),
     calling : {None} \cup [op : {"create", "delete"}, id : Workspaces],
     purging : Closures(N) \cup {None}, chosen : N \cup {None}, heard : 0..n]

\* A ghost is made only while its workspace is not listed, so it never comes
\* before it in a list.
GhostsBehind(ps) == \A i, j \in DOMAIN ps : ps[i] = Ghost(ps[j]) => j < i

\* A list of workspaces as the server keeps it.
Listing(ps) == ps \in Seq(Ids) /\ IsInjective(ps) /\ GhostsBehind(ps)

Shape ==
    /\ Listing(listed)
    /\ stored \in [id : Names \cup {None}, by : {"own", "other"}]
    /\ storedFilters \in Filters /\ news \in Nat
    /\ tab \in Tabs(Names, news)

\* What the tab knows of the list.
ListOf(s) ==
    /\ GhostsBehind(s.answer)
    /\ s.listing # "done" => s.projects = <<>>

\* Messages come from an open socket, and wait while the feed is paused.
FeedOf(s) ==
    /\ s.socket # "open" => s.wire = <<>>
    /\ ~s.paused => s.buffered = 0

\* HeaderExplained of a tab.
HeaderOf(s) ==
    s.listing = "done" /\ s.projects # <<>> /\ s.client # s.selected => s.clientOld

\* What is under way and what is on the screen.
Fetched(s) == s.fetches \cup (IF s.shown = None THEN {} ELSE {s.shown})

\* One fetch at most under way was made last.  That one, or what it has
\* brought, is of the workspace and the filters that are selected, or of an
\* old closure; and when no news can come, it has seen all that was heard of.
LastOf(s) ==
    /\ \A f, g \in s.fetches : f.last /\ g.last => f = g
    /\ \A f \in Fetched(s) : f.last =>
          /\ f.by = "now" /\ s.selected # None =>
                f.header = s.selected /\ f.filters = s.filters
          /\ ~s.paused /\ s.wire = <<>> /\ s.closing = <<>> => f.asOf >= s.heard

Calm(s) == ListOf(s) /\ FeedOf(s) /\ HeaderOf(s) /\ LastOf(s)

\* Until the list has settled a tab is on the choice it was loaded with, and
\* while it is on its choice, every closure is, and so is what it stored.
Held(s, st) ==
    s.chosen # None =>
        /\ s.listing # "done" => s.selected = s.chosen
        /\ s.selected = s.chosen =>
              /\ \A i \in DOMAIN s.closing : s.closing[i].project = s.chosen
              /\ s.keySees.project = s.chosen
              /\ s.purging # None => s.purging.project = s.chosen
              /\ st.by = "own" => st.id = s.chosen

\* ChoiceKept of a tab.
KeptOf(s) ==
    (/\ s.listing = "done" /\ s.chosen # None /\ s.chosen \in Range(s.projects)
     /\ s.savedBy = "own")
        => s.selected = s.chosen

IndInv == Shape /\ Calm(tab) /\ Held(tab, stored) /\ KeptOf(tab)

-----------------------------------------------------------------------------
(* Sequences.                                                              *)

\* A sequence with one more element in front.
LEMMA InFront ==
    ASSUME NEW S, NEW x \in S, NEW L \in Seq(S)
    PROVE  /\ (<<x>> \o L) \in Seq(S)
           /\ Len(<<x>> \o L) = Len(L) + 1
           /\ (<<x>> \o L)[1] = x
           /\ \A i \in 2..(Len(L) + 1) : (<<x>> \o L)[i] = L[i - 1]
           /\ Range(<<x>> \o L) = {x} \cup Range(L)
  <1> DEFINE M == <<x>> \o L
  <1>1. <<x>> \in Seq(S) /\ Len(<<x>>) = 1 /\ <<x>>[1] = x
    OBVIOUS
  <1>2. /\ M \in Seq(S) /\ Len(M) = Len(L) + 1
        /\ \A i \in 1..(1 + Len(L)) : M[i] = IF i <= 1 THEN <<x>>[i] ELSE L[i - 1]
    BY <1>1, ConcatProperties
  <1>3. Len(L) \in Nat /\ DOMAIN M = 1..(Len(L) + 1) /\ DOMAIN L = 1..Len(L)
    BY <1>2, LenProperties
  <1> HIDE DEF M
  <1>4. M[1] = x /\ \A i \in 2..(Len(L) + 1) : M[i] = L[i - 1]
    BY <1>1, <1>2, <1>3
  <1>5. Range(M) \subseteq {x} \cup Range(L)
    <2>1. ASSUME NEW i \in DOMAIN M
          PROVE  M[i] = x \/ \E j \in DOMAIN L : M[i] = L[j]
      <3>1. CASE i = 1
        BY <1>4, <3>1
      <3>2. CASE i # 1
        <4>1. i \in 2..(Len(L) + 1) /\ i - 1 \in DOMAIN L
          BY <1>3, <3>2
        <4> QED
          BY <1>4, <4>1
      <3> QED
        BY <3>1, <3>2
    <2> QED
      BY <2>1 DEF Range
  <1>6. {x} \cup Range(L) \subseteq Range(M)
    <2>1. ASSUME NEW j \in DOMAIN L
          PROVE  j + 1 \in DOMAIN M /\ M[j + 1] = L[j]
      <3>1. j + 1 \in 2..(Len(L) + 1) /\ (j + 1) - 1 = j
        BY <1>3
      <3> QED
        BY <1>3, <1>4, <3>1
    <2>2. 1 \in DOMAIN M
      BY <1>3
    <2> QED
      BY <1>4, <2>1, <2>2 DEF Range
  <1> QED
    BY <1>2, <1>4, <1>5, <1>6 DEF M

\* A sequence with one element taken out.
LEMMA TakenOut ==
    ASSUME NEW S, NEW L \in Seq(S), NEW i \in DOMAIN L
    PROVE  /\ RemoveAt(L, i) \in Seq(S)
           /\ Len(RemoveAt(L, i)) = Len(L) - 1
           /\ \A j \in DOMAIN RemoveAt(L, i) :
                 /\ j < i => j \in DOMAIN L /\ RemoveAt(L, i)[j] = L[j]
                 /\ j >= i => j + 1 \in DOMAIN L /\ RemoveAt(L, i)[j] = L[j + 1]
           /\ \A j \in DOMAIN L : j # i =>
                 \E k \in DOMAIN RemoveAt(L, i) : RemoveAt(L, i)[k] = L[j]
  <1> DEFINE A == SubSeq(L, 1, i - 1)
             B == SubSeq(L, i + 1, Len(L))
             R == A \o B
  <1>1. Len(L) \in Nat /\ DOMAIN L = 1..Len(L) /\ i \in 1..Len(L) /\ \A j \in DOMAIN L : L[j] \in S
    BY LenProperties
  <1>2. /\ A \in Seq(S) /\ Len(A) = i - 1
        /\ \A j \in 1..(i - 1) : A[j] = L[j]
    <2>1. \A j \in 1..(i - 1) : L[j] \in S
      BY <1>1
    <2>2. /\ A \in Seq(S) /\ Len(A) = IF 1 <= i - 1 THEN (i - 1) - 1 + 1 ELSE 0
          /\ \A j \in 1..((i - 1) - 1 + 1) : A[j] = L[1 + j - 1]
      BY <1>1, <2>1, SubSeqProperties
    <2> HIDE DEF A
    <2> QED
      BY <1>1, <2>2
  <1>3. /\ B \in Seq(S) /\ Len(B) = Len(L) - i
        /\ \A j \in 1..(Len(L) - i) : B[j] = L[i + j]
    <2>1. \A j \in (i + 1)..Len(L) : L[j] \in S
      BY <1>1
    <2>2. /\ B \in Seq(S) /\ Len(B) = IF i + 1 <= Len(L) THEN Len(L) - (i + 1) + 1 ELSE 0
          /\ \A j \in 1..(Len(L) - (i + 1) + 1) : B[j] = L[(i + 1) + j - 1]
      BY <1>1, <2>1, SubSeqProperties
    <2> HIDE DEF A, B
    <2>3. Len(B) = Len(L) - i /\ (Len(L) - (i + 1)) + 1 = Len(L) - i
      BY <1>1, <2>2
    <2>4. \A j \in 1..(Len(L) - i) : (i + 1) + j - 1 = i + j
      BY <1>1
    <2>5. \A j \in 1..(Len(L) - i) : B[j] = L[i + j]
      BY <2>2, <2>3, <2>4
    <2> QED
      BY <2>2, <2>3, <2>5
  <1> HIDE DEF A, B
  <1>4. /\ R \in Seq(S) /\ Len(R) = Len(A) + Len(B)
        /\ \A j \in 1..(Len(A) + Len(B)) : R[j] = IF j <= Len(A) THEN A[j] ELSE B[j - Len(A)]
    BY <1>2, <1>3, ConcatProperties
  <1>5. RemoveAt(L, i) = R
    BY DEF RemoveAt, A, B
  <1> HIDE DEF R
  <1>6. Len(R) = Len(L) - 1 /\ DOMAIN R = 1..(Len(L) - 1)
    BY <1>1, <1>2, <1>3, <1>4, LenProperties
  <1>7. ASSUME NEW j \in 1..(Len(L) - 1)
        PROVE  R[j] = IF j < i THEN L[j] ELSE L[j + 1]
    <2>1. CASE j < i
      <3>1. j <= Len(A) /\ j \in 1..(i - 1) /\ j \in 1..(Len(A) + Len(B))
        BY <1>1, <1>2, <1>3, <2>1
      <3> QED
        BY <1>2, <1>4, <2>1, <3>1
    <2>2. CASE ~(j < i)
      <3>1. /\ ~(j <= Len(A)) /\ j \in 1..(Len(A) + Len(B))
            /\ j - Len(A) = j - (i - 1) /\ j - (i - 1) \in 1..(Len(L) - i) /\ i + (j - (i - 1)) = j + 1
        BY <1>1, <1>2, <1>3, <2>2
      <3> QED
        BY <1>3, <1>4, <2>2, <3>1
    <2> QED
      BY <2>1, <2>2
  <1>8. ASSUME NEW j \in DOMAIN L, j # i
        PROVE  \E k \in 1..(Len(L) - 1) : R[k] = L[j]
    <2>1. CASE j < i
      <3>1. j \in 1..(Len(L) - 1)
        BY <1>1, <2>1
      <3> QED
        BY <1>7, <2>1, <3>1
    <2>2. CASE ~(j < i)
      <3>1. j - 1 \in 1..(Len(L) - 1) /\ ~(j - 1 < i) /\ (j - 1) + 1 = j
        BY <1>1, <1>8, <2>2
      <3> QED
        BY <1>7, <3>1
    <2> QED
      BY <2>1, <2>2
  <1>9. ASSUME NEW j \in DOMAIN R
        PROVE  /\ j < i => j \in DOMAIN L /\ R[j] = L[j]
               /\ j >= i => j + 1 \in DOMAIN L /\ R[j] = L[j + 1]
    <2>1. j \in 1..(Len(L) - 1) /\ j \in DOMAIN L /\ j + 1 \in DOMAIN L /\ (j >= i <=> ~(j < i))
      BY <1>1, <1>6
    <2> QED
      BY <1>7, <2>1
  <1> QED
    BY <1>4, <1>5, <1>6, <1>8, <1>9

-----------------------------------------------------------------------------
(* The server's list.                                                      *)

\* Ghosts are told from the workspaces they are named after.
LEMMA GhostFacts ==
    /\ None \notin Ids /\ Workspaces \subseteq Ids
    /\ \A w \in Workspaces : Ghost(w) \in Ids
    /\ \A x \in Ids : x \notin Workspaces => \E w \in Workspaces : x = Ghost(w)
    /\ \A x \in Ids : Ghost(x) \notin Workspaces /\ Ghost(x) # x
    /\ \A x, y : Ghost(x) = Ghost(y) => x = y
  <1>1. \A x, y : Ghost(x) = Ghost(y) => x = y
    BY DEF Ghost
  <1>2. \A x \in Ids : x \notin Workspaces => \E w \in Workspaces : x = Ghost(w)
    BY DEF Ids
  <1>3. /\ None \notin Ids /\ Workspaces \subseteq Ids
        /\ \A w \in Workspaces : Ghost(w) \in Ids
        /\ \A x \in Ids : Ghost(x) \notin Workspaces
    BY DashboardAssumption DEF Ids
  <1>4. ASSUME NEW x \in Ids, Ghost(x) = x
        PROVE  FALSE
    <2>1. PICK w \in Workspaces : x = Ghost(w)
      BY <1>2, <1>3, <1>4
    <2>2. x = w
      BY <1>1, <1>4, <2>1
    <2> QED
      BY <1>3, <1>4, <2>2
  <1> QED
    BY <1>1, <1>2, <1>3, <1>4

\* A new workspace goes in front, a ghost only of one that is not listed.
LEMMA ListedInFront ==
    ASSUME NEW ps, Listing(ps), NEW x \in Ids, x \notin Range(ps),
           x \in Workspaces \/ \E w \in Workspaces : x = Ghost(w) /\ w \notin Range(ps)
    PROVE  Listing(<<x>> \o ps) /\ Range(<<x>> \o ps) = {x} \cup Range(ps)
  <1> DEFINE qs == <<x>> \o ps
  <1>1. /\ qs \in Seq(Ids) /\ Len(qs) = Len(ps) + 1 /\ qs[1] = x
        /\ \A i \in 2..(Len(ps) + 1) : qs[i] = ps[i - 1]
        /\ Range(qs) = {x} \cup Range(ps)
    BY InFront DEF Listing
  <1>2. Len(ps) \in Nat /\ DOMAIN qs = 1..(Len(ps) + 1) /\ DOMAIN ps = 1..Len(ps) /\ ps \in Seq(Ids)
    BY <1>1, LenProperties DEF Listing
  <1> HIDE DEF qs
  <1>3. ASSUME NEW i \in DOMAIN qs, i # 1
        PROVE  i - 1 \in DOMAIN ps /\ qs[i] = ps[i - 1] /\ qs[i] \in Range(ps) /\ i > 1
    <2>1. i \in 2..(Len(ps) + 1) /\ i - 1 \in DOMAIN ps /\ i > 1
      BY <1>2, <1>3
    <2> QED
      BY <1>1, <2>1 DEF Range
  <1>4. IsInjective(qs)
    <2> SUFFICES ASSUME NEW i \in DOMAIN qs, NEW j \in DOMAIN qs, qs[i] = qs[j]
                 PROVE  i = j
      BY DEF IsInjective
    <2>1. CASE i = 1 \/ j = 1
      BY <1>1, <1>3, <2>1
    <2>2. CASE i # 1 /\ j # 1
      <3>1. i - 1 = j - 1
        BY <1>3, <2>2 DEF Listing, IsInjective
      <3> QED
        BY <1>2, <3>1
    <2> QED
      BY <2>1, <2>2
  <1>5. GhostsBehind(qs)
    <2> SUFFICES ASSUME NEW i \in DOMAIN qs, NEW j \in DOMAIN qs, qs[i] = Ghost(qs[j])
                 PROVE  j < i
      BY DEF GhostsBehind
    <2>0. qs[j] \in Ids
      BY <1>1, <1>2
    <2>1. CASE i = 1
      <3>1. x = Ghost(qs[j])
        BY <1>1, <2>1
      <3>2. PICK w \in Workspaces : x = Ghost(w) /\ w \notin Range(ps)
        BY <2>0, <3>1, GhostFacts
      <3>3. qs[j] = w /\ w # x
        BY <3>1, <3>2, GhostFacts
      <3>4. j # 1
        BY <1>1, <3>3
      <3> QED
        BY <1>3, <3>2, <3>3, <3>4
    <2>2. CASE i # 1 /\ j = 1
      BY <1>3, <2>2
    <2>3. CASE i # 1 /\ j # 1
      <3>1. j - 1 < i - 1
        BY <1>3, <2>3 DEF Listing, GhostsBehind
      <3> QED
        BY <1>2, <3>1
    <2> QED
      BY <2>1, <2>2, <2>3
  <1> QED
    BY <1>1, <1>4, <1>5 DEF Listing, qs

\* A list from which a workspace is taken.
LEMMA ListedWithout ==
    ASSUME NEW ps, Listing(ps), NEW w
    PROVE  /\ Listing(Without(ps, w))
           /\ Range(Without(ps, w)) \subseteq Range(ps)
           /\ Range(ps) \subseteq Range(Without(ps, w)) \cup {w}
  <1>1. CASE w \notin Range(ps)
    BY <1>1 DEF Without
  <1>2. CASE w \in Range(ps)
    <2> DEFINE i == CHOOSE k \in DOMAIN ps : ps[k] = w
               qs == RemoveAt(ps, i)
    <2>1. i \in DOMAIN ps /\ ps[i] = w
      BY <1>2 DEF Range
    <2>2. Without(ps, w) = qs
      BY <1>2 DEF Without
    <2> HIDE DEF i
    <2>3. /\ qs \in Seq(Ids) /\ Len(qs) = Len(ps) - 1
          /\ \A j \in DOMAIN qs :
                /\ j < i => j \in DOMAIN ps /\ qs[j] = ps[j]
                /\ j >= i => j + 1 \in DOMAIN ps /\ qs[j] = ps[j + 1]
          /\ \A j \in DOMAIN ps : j # i => \E k \in DOMAIN qs : qs[k] = ps[j]
      BY <2>1, TakenOut DEF Listing
    <2> HIDE DEF qs
    <2>4. DOMAIN qs \subseteq Nat /\ DOMAIN ps \subseteq Nat /\ i \in Nat
      BY <2>1, <2>3, LenProperties DEF Listing
    <2> DEFINE at(j) == IF j < i THEN j ELSE j + 1
    <2>5. \A j \in DOMAIN qs : at(j) \in DOMAIN ps /\ qs[j] = ps[at(j)]
      BY <2>3, <2>4
    <2>6. \A j, k \in DOMAIN qs : (at(j) = at(k) => j = k) /\ (at(j) < at(k) => j < k)
      BY <2>4
    <2> HIDE DEF at
    <2>7. IsInjective(qs) /\ GhostsBehind(qs)
      BY <2>5, <2>6 DEF Listing, IsInjective, GhostsBehind
    <2>8. Range(qs) \subseteq Range(ps)
      BY <2>5 DEF Range
    <2>9. Range(ps) \subseteq Range(qs) \cup {w}
      BY <2>1, <2>3 DEF Range
    <2> QED
      BY <2>2, <2>3, <2>7, <2>8, <2>9 DEF Listing
  <1> QED
    BY <1>1, <1>2

\* What a request leaves of the list, if it names something that was made.
LEMMA ResolvedFacts ==
    ASSUME Listing(listed), NEW x \in Names
    PROVE  /\ Listing(Resolved(x))
           /\ Range(listed) \subseteq Range(Resolved(x)) /\ Range(Resolved(x)) \subseteq Ids
  <1>0. listed \in Seq(Ids)
    BY DEF Listing
  <1>1. CASE Known(listed, x)
    BY <1>0, <1>1, RangeOfSeq DEF Resolved
  <1>2. CASE ~Known(listed, x)
    <2>1. x \notin Range(listed) /\ Ghost(x) \notin Range(listed)
      BY <1>2 DEF Known, IsCalled, Range
    <2>2. x \in Workspaces /\ Ghost(x) \in Ids
      BY <2>1, GhostFacts DEF Names
    <2>3. Listing(<<Ghost(x)>> \o listed) /\ Range(<<Ghost(x)>> \o listed) = {Ghost(x)} \cup Range(listed)
      BY <2>1, <2>2, ListedInFront
    <2> QED
      BY <1>0, <1>2, <2>2, <2>3, RangeOfSeq DEF Resolved
  <1> QED
    BY <1>1, <1>2

\* The list is still one, and no name was lost but that of a workspace.
ListGrows == Listing(listed') /\ Names \subseteq Names' /\ Names' \subseteq Ids

\* Every way the list changes.
LEMMA ListKinds ==
    ASSUME Listing(listed),
           \/ UNCHANGED listed
           \/ \E x \in Names : listed' = Resolved(x)
           \/ \E w \in Workspaces \ Range(listed) : listed' = <<w>> \o listed
           \/ \E w \in Workspaces : listed' = Without(listed, w)
    PROVE  ListGrows
  <1>0. Range(listed) \subseteq Ids /\ Workspaces \subseteq Ids
    BY RangeOfSeq, GhostFacts DEF Listing
  <1>1. CASE UNCHANGED listed
    BY <1>0, <1>1 DEF ListGrows, Names
  <1>2. ASSUME NEW x \in Names, listed' = Resolved(x)
        PROVE  ListGrows
    BY <1>0, <1>2, ResolvedFacts DEF ListGrows, Names
  <1>3. ASSUME NEW w \in Workspaces, w \notin Range(listed), listed' = <<w>> \o listed
        PROVE  ListGrows
    <2>1. Listing(listed') /\ Range(listed') = {w} \cup Range(listed)
      BY <1>0, <1>3, ListedInFront
    <2> QED
      BY <1>0, <2>1 DEF ListGrows, Names
  <1>4. ASSUME NEW w \in Workspaces, listed' = Without(listed, w)
        PROVE  ListGrows
    BY <1>0, <1>4, ListedWithout DEF ListGrows, Names
  <1> QED
    BY <1>1, <1>2, <1>3, <1>4

-----------------------------------------------------------------------------
(* The tab and its fetches.                                                *)

\* Which workspace a tab is on and why, its feed, and the rest of it.
SameChoice(s, t) ==
    /\ t.selected = s.selected /\ t.projects = s.projects /\ t.listing = s.listing
    /\ t.answer = s.answer /\ t.savedBy = s.savedBy /\ t.chosen = s.chosen
SameFeed(s, t) ==
    /\ t.paused = s.paused /\ t.buffered = s.buffered /\ t.socket = s.socket
    /\ t.wire = s.wire /\ t.closing = s.closing /\ t.heard = s.heard
SameRest(s, t) ==
    /\ t.filters = s.filters /\ t.keySees = s.keySees
    /\ t.calling = s.calling /\ t.purging = s.purging
SameFetches(s, t) ==
    /\ t.fetches = s.fetches /\ t.shown = s.shown
    /\ t.client = s.client /\ t.clientOld = s.clientOld

\* What a call of fetchData() of closure c makes of tab s.
Issued(s, c, by, t) ==
    /\ SameChoice(s, t) /\ SameFeed(s, t) /\ SameRest(s, t)
    /\ t.client = Header(s, c)
    /\ t.clientOld = IF c.project # None THEN by = "old" ELSE s.clientOld
    /\ \A f \in Fetched(t) : f.last =>
          f.by = by /\ f.header = Header(s, c) /\ f.filters = c.filters /\ f.asOf = news
    /\ \A f, g \in t.fetches : f.last /\ g.last => f = g

\* More names and more broadcasts admit more tabs.
LEMMA TabsGrow ==
    ASSUME NEW N, NEW M, N \subseteq M, NEW n \in Nat, NEW m \in Nat, n <= m
    PROVE  Tabs(N, n) \subseteq Tabs(M, m) /\ Closures(N) \subseteq Closures(M)
  <1>1. Closures(N) \subseteq Closures(M) /\ 0..n \subseteq 0..m
    BY DEF Closures
  <1>2. Fetches(N, n) \subseteq Fetches(M, m)
    BY <1>1 DEF Fetches
  <1>3. Seq(N) \subseteq Seq(M) /\ Seq(Closures(N)) \subseteq Seq(Closures(M))
    BY <1>1
  <1> QED
    BY <1>1, <1>2, <1>3 DEF Tabs

\* fetchData().
LEMMA IssueFacts ==
    ASSUME news \in Nat, NEW N, NEW s \in Tabs(N, news), NEW c \in Closures(N), NEW by \in Callers
    PROVE  /\ IssueFetch(s, c, by) \in Tabs(N, news)
           /\ Issued(s, c, by, IssueFetch(s, c, by))
  <1> DEFINE older(f) == Overtaken(f)
             made == [last |-> TRUE, by |-> by, header |-> Header(s, c), filters |-> c.filters,
                      asOf |-> news, waiting |-> Parts]
             shown == IF s.shown = None THEN None ELSE older(s.shown)
             fetches == {older(f) : f \in s.fetches} \cup {made}
             old == IF c.project # None THEN by = "old" ELSE s.clientOld
             t == IssueFetch(s, c, by)
  <1>1. t = [s EXCEPT !.client = Header(s, c), !.clientOld = old, !.shown = shown, !.fetches = fetches]
    BY DEF IssueFetch, Overtaken
  <1>2. Header(s, c) \in N /\ c.filters \in Filters /\ old \in BOOLEAN
    <2>1. s.client \in N /\ s.clientOld \in BOOLEAN /\ c.project \in N \cup {None} /\ c.filters \in Filters
      BY DEF Tabs, Closures
    <2>2. (by = "old") \in BOOLEAN
      OBVIOUS
    <2>3. old \in BOOLEAN
      BY <2>1, <2>2
    <2> QED
      BY <2>1, <2>3 DEF Header
  <1>3. made \in Fetches(N, news)
    BY <1>2 DEF Fetches
  <1>4. ASSUME NEW f \in Fetches(N, news)
        PROVE  older(f) \in Fetches(N, news) /\ ~older(f).last
    <2>1. 0 \in 0..news /\ "now" \in Callers
      BY DEF Callers
    <2> QED
      BY <2>1 DEF Fetches, Overtaken
  <1>5. s.fetches \subseteq Fetches(N, news) /\ s.shown \in Fetches(N, news) \cup {None}
    BY DEF Tabs
  <1>6. fetches \subseteq Fetches(N, news) /\ shown \in Fetches(N, news) \cup {None}
    <2> HIDE DEF older, made
    <2> QED
      BY <1>3, <1>4, <1>5
  <1>7. \A f \in fetches : f.last => f = made
    <2> HIDE DEF older, made
    <2> QED
      BY <1>4, <1>5
  <1>8. shown # None => ~shown.last
    <2> HIDE DEF older, made
    <2> QED
      BY <1>4, <1>5
  <1>9. made.by = by /\ made.header = Header(s, c) /\ made.filters = c.filters /\ made.asOf = news
    OBVIOUS
  <1> HIDE DEF older, made, shown, fetches, old, t
  <1>10. t \in Tabs(N, news)
    BY <1>1, <1>2, <1>6 DEF Tabs
  <1>11. /\ SameChoice(s, t) /\ SameFeed(s, t) /\ SameRest(s, t)
         /\ t.client = Header(s, c) /\ t.clientOld = old /\ t.shown = shown /\ t.fetches = fetches
    BY <1>1 DEF Tabs, SameChoice, SameFeed, SameRest
  <1>12. \A f \in Fetched(t) : f.last => f = made
    BY <1>7, <1>8, <1>11 DEF Fetched
  <1> QED
    BY <1>7, <1>9, <1>10, <1>11, <1>12 DEF Issued, t, old

\* The socket effect.
Reconnected(s, c, t) ==
    /\ SameChoice(s, t) /\ SameFetches(s, t) /\ SameRest(s, t)
    /\ t.paused = s.paused /\ t.buffered = s.buffered /\ t.heard = s.heard
    /\ t.socket = "opening" /\ t.wire = <<>>
    /\ t.closing = IF s.socket = "closed" THEN s.closing ELSE Append(s.closing, c)
    /\ \A i \in DOMAIN t.closing : t.closing[i] = c \/ \E j \in DOMAIN s.closing : t.closing[i] = s.closing[j]

\* What Reconnect makes of a tab.
LEMMA ReconnectFacts ==
    ASSUME news \in Nat, NEW N, NEW s \in Tabs(N, news), NEW c \in Closures(N)
    PROVE  /\ Reconnect(s, c) \in Tabs(N, news)
           /\ Reconnected(s, c, Reconnect(s, c))
  <1> DEFINE closing == IF s.socket = "closed" THEN s.closing ELSE Append(s.closing, c)
             t == Reconnect(s, c)
  <1>1. t = [s EXCEPT !.socket = "opening", !.wire = <<>>, !.closing = closing]
    BY DEF Reconnect
  <1>2. s.closing \in Seq(Closures(N)) /\ closing \in Seq(Closures(N)) /\ <<>> \in Seq({"ingested", "deleted"})
    BY DEF Tabs
  <1>3. \A i \in DOMAIN closing : closing[i] = c \/ \E j \in DOMAIN s.closing : closing[i] = s.closing[j]
    <2>1. CASE s.socket = "closed"
      BY <2>1
    <2>2. CASE s.socket # "closed"
      <3>1. /\ Len(closing) = Len(s.closing) + 1 /\ Len(s.closing) \in Nat
            /\ DOMAIN closing = 1..Len(closing) /\ DOMAIN s.closing = 1..Len(s.closing)
            /\ \A i \in 1..Len(s.closing) : closing[i] = s.closing[i]
            /\ closing[Len(s.closing) + 1] = c
        BY <1>2, <2>2, AppendProperties, LenProperties
      <3> HIDE DEF closing
      <3>2. ASSUME NEW i \in DOMAIN closing
            PROVE  i \in DOMAIN s.closing \/ i = Len(s.closing) + 1
        BY <3>1
      <3> QED
        BY <3>1, <3>2
    <2> QED
      BY <2>1, <2>2
  <1> HIDE DEF closing, t
  <1>4. t \in Tabs(N, news)
    BY <1>1, <1>2 DEF Tabs
  <1>5. /\ SameChoice(s, t) /\ SameFetches(s, t) /\ SameRest(s, t)
        /\ t.paused = s.paused /\ t.buffered = s.buffered /\ t.heard = s.heard
        /\ t.socket = "opening" /\ t.wire = <<>> /\ t.closing = closing
    BY <1>1 DEF Tabs, SameChoice, SameFetches, SameRest
  <1> QED
    BY <1>3, <1>4, <1>5 DEF Reconnected, t, closing

\* The effects of a render.
LEMMA RerenderFacts ==
    ASSUME news \in Nat, NEW N, NEW s \in Tabs(N, news), NEW o \in Tabs(N, news)
    PROVE  /\ Sees(s) \in Closures(N) /\ Rerender(s, o) \in Tabs(N, news)
           /\ \E t \in Tabs(N, news) : Issued(s, Sees(s), "now", t) /\ Reconnected(t, Sees(o), Rerender(s, o))
  <1>1. Sees(s) \in Closures(N) /\ Sees(o) \in Closures(N)
    BY DEF Sees, Tabs, Closures
  <1>2. "now" \in Callers
    BY DEF Callers
  <1> DEFINE t == IssueFetch(s, Sees(s), "now")
  <1>3. t \in Tabs(N, news) /\ Issued(s, Sees(s), "now", t)
    BY <1>1, <1>2, IssueFacts
  <1> HIDE DEF t
  <1>4. Reconnect(t, Sees(o)) \in Tabs(N, news) /\ Reconnected(t, Sees(o), Reconnect(t, Sees(o)))
    BY <1>1, <1>3, ReconnectFacts
  <1>5. Rerender(s, o) = Reconnect(t, Sees(o))
    BY DEF Rerender, t
  <1> QED
    BY <1>1, <1>3, <1>4, <1>5

\* After a call of fetchData the tab is as it should be, whatever fetches
\* there were, if the closure is that of the last render or an old one.
LEMMA IssueCalm ==
    ASSUME news \in Nat, NEW N, N \subseteq Ids, NEW s \in Tabs(N, news), NEW t \in Tabs(N, news),
           NEW c \in Closures(N), NEW by \in Callers, Issued(s, c, by, t),
           ListOf(s), FeedOf(s), HeaderOf(s), c = Sees(s) \/ by = "old"
    PROVE  Calm(t)
  <1>1. ListOf(t) /\ FeedOf(t)
    BY DEF ListOf, FeedOf, Issued, SameChoice, SameFeed
  <1>2. HeaderOf(t)
    <2>1. CASE c = Sees(s)
      <3>1. c.project = s.selected
        BY <2>1 DEF Sees
      <3> QED
        BY <3>1 DEF HeaderOf, Issued, SameChoice, Header
    <2>2. CASE by = "old"
      BY <2>2 DEF HeaderOf, Issued, SameChoice, Header
    <2> QED
      BY <2>1, <2>2
  <1>3. LastOf(t)
    <2>1. ASSUME NEW f \in Fetched(t), f.last, f.by = "now", t.selected # None
          PROVE  f.header = t.selected /\ f.filters = t.filters
      <3>1. c = Sees(s) /\ f.header = Header(s, c) /\ f.filters = c.filters
        BY <2>1 DEF Issued
      <3>2. c.project = s.selected /\ c.filters = s.filters
        BY <3>1 DEF Sees
      <3> QED
        BY <2>1, <3>1, <3>2 DEF Issued, SameChoice, SameRest, Header
    <2>2. ASSUME NEW f \in Fetched(t), f.last
          PROVE  f.asOf >= t.heard
      <3>1. f.asOf = news /\ t.heard \in 0..news
        BY <2>2 DEF Issued, Tabs
      <3> QED
        BY <3>1
    <2>3. \A f, g \in t.fetches : f.last /\ g.last => f = g
      BY DEF Issued
    <2> QED
      BY <2>1, <2>2, <2>3 DEF LastOf
  <1> QED
    BY <1>1, <1>2, <1>3 DEF Calm

\* A new socket changes nothing of that, its onclose is still to come.
LEMMA ReconnectCalm ==
    ASSUME news \in Nat, NEW N, NEW s \in Tabs(N, news), NEW t \in Tabs(N, news), NEW c \in Closures(N),
           Reconnected(s, c, t), Calm(s)
    PROVE  Calm(t)
  <1>1. ListOf(t) /\ FeedOf(t) /\ HeaderOf(t)
    BY DEF Calm, ListOf, FeedOf, HeaderOf, Reconnected, SameChoice, SameFetches
  <1>2. Fetched(t) = Fetched(s) /\ t.fetches = s.fetches
    BY DEF Fetched, Reconnected, SameFetches
  <1>3. t.closing = <<>> => s.closing = <<>> /\ s.wire = <<>>
    <2>1. s.closing \in Seq(Closures(N))
      BY DEF Tabs
    <2>2. Append(s.closing, c) # <<>>
      BY <2>1, AppendProperties
    <2> QED
      BY <2>2 DEF Reconnected, Calm, FeedOf
  <1>4. LastOf(t)
    BY <1>2, <1>3 DEF Calm, LastOf, Reconnected, SameChoice, SameRest
  <1> QED
    BY <1>1, <1>4 DEF Calm

\* The same for the effects of a render, which see the new state.
LEMMA RerenderCalm ==
    ASSUME news \in Nat, NEW N, N \subseteq Ids, NEW s \in Tabs(N, news), NEW o \in Tabs(N, news),
           ListOf(s), FeedOf(s), HeaderOf(s)
    PROVE  Calm(Rerender(s, o))
  <1>1. PICK t \in Tabs(N, news) : Issued(s, Sees(s), "now", t) /\ Reconnected(t, Sees(o), Rerender(s, o))
    BY RerenderFacts
  <1>2. Sees(s) \in Closures(N) /\ Sees(o) \in Closures(N) /\ Rerender(s, o) \in Tabs(N, news) /\ "now" \in Callers
    BY RerenderFacts DEF Callers
  <1>3. Calm(t)
    BY <1>1, <1>2, IssueCalm
  <1> QED
    BY <1>1, <1>2, <1>3, ReconnectCalm

\* A tab that loads: it asks for its data at once.
LEMMA LoadedFacts ==
    ASSUME news \in Nat, NEW N, N \subseteq Ids, Default \in N,
           NEW saved \in N \cup {None}, NEW f \in Filters, NEW chosen \in N \cup {None}
    PROVE  /\ Loaded(saved, f, chosen) \in Tabs(N, news)
           /\ Calm(Loaded(saved, f, chosen)) /\ KeptOf(Loaded(saved, f, chosen))
           /\ \A st : (chosen # None => saved = chosen /\ (st.by = "own" => st.id = chosen))
                       => Held(Loaded(saved, f, chosen), st)
  <1> DEFINE s == [client |-> IF saved = None THEN Default ELSE saved, clientOld |-> FALSE,
                   selected |-> saved, projects |-> <<>>, listing |-> "asked", answer |-> <<>>, savedBy |-> "own",
                   filters |-> f, paused |-> FALSE, buffered |-> 0,
                   fetches |-> {}, shown |-> None,
                   socket |-> "opening", wire |-> <<>>, closing |-> <<>>,
                   keySees |-> [project |-> saved, filters |-> f],
                   calling |-> None, purging |-> None, chosen |-> chosen, heard |-> 0]
             t == IssueFetch(s, Sees(s), "now")
  <1>1. s \in Tabs(N, news)
    <2>1. /\ (IF saved = None THEN Default ELSE saved) \in N
          /\ [project |-> saved, filters |-> f] \in Closures(N)
          /\ <<>> \in Seq(N) /\ <<>> \in Seq({"ingested", "deleted"}) /\ <<>> \in Seq(Closures(N))
          /\ 0 \in 0..news /\ 0 \in Nat /\ {} \in SUBSET Fetches(N, news)
      BY DEF Closures
    <2> QED
      BY <2>1 DEF Tabs
  <1>2. Sees(s) \in Closures(N) /\ "now" \in Callers
    BY DEF Sees, Closures, Callers
  <1>3. ListOf(s) /\ FeedOf(s) /\ HeaderOf(s)
    BY DEF ListOf, FeedOf, HeaderOf, GhostsBehind
  <1>4. s.listing = "asked" /\ s.closing = <<>> /\ s.keySees.project = saved /\ s.purging = None /\ s.selected = saved /\ s.chosen = chosen
    OBVIOUS
  <1>5. t = Loaded(saved, f, chosen)
    BY DEF Loaded
  <1> HIDE DEF s
  <1>6. t \in Tabs(N, news) /\ Issued(s, Sees(s), "now", t)
    BY <1>1, <1>2, IssueFacts
  <1> HIDE DEF t
  <1>7. Calm(t)
    BY <1>1, <1>2, <1>3, <1>6, IssueCalm
  <1>8. t.listing = "asked" /\ t.closing = <<>> /\ t.keySees.project = saved /\ t.purging = None /\ t.selected = saved /\ t.chosen = chosen
    BY <1>4, <1>6 DEF Issued, SameChoice, SameFeed, SameRest
  <1>9. KeptOf(t)
    BY <1>8 DEF KeptOf
  <1>10. ASSUME NEW st, chosen # None => saved = chosen /\ (st.by = "own" => st.id = chosen)
         PROVE  Held(t, st)
    BY <1>8, <1>10 DEF Held
  <1> QED
    BY <1>5, <1>6, <1>7, <1>9, <1>10

-----------------------------------------------------------------------------
(* What a step leaves.                                                     *)

\* What every step but that of the server's list has to preserve.
StepOK ==
    /\ tab' \in Tabs(Names, news') /\ Calm(tab') /\ Held(tab', stored') /\ KeptOf(tab')
    /\ stored' \in [id : Names \cup {None}, by : {"own", "other"}]
    /\ storedFilters' \in Filters /\ news' \in Nat /\ news <= news'

\* What is used of the invariant.
LEMMA Context ==
    ASSUME IndInv
    PROVE  /\ listed \in Seq(Ids) /\ Names \subseteq Ids /\ Default \in Names /\ None \notin Names
           /\ stored \in [id : Names \cup {None}, by : {"own", "other"}]
           /\ storedFilters \in Filters /\ news \in Nat /\ tab \in Tabs(Names, news)
           /\ ListOf(tab) /\ FeedOf(tab) /\ HeaderOf(tab) /\ LastOf(tab) /\ Calm(tab)
           /\ Held(tab, stored) /\ KeptOf(tab)
  <1>1. listed \in Seq(Ids)
    BY DEF IndInv, Shape, Listing
  <1>2. Names \subseteq Ids /\ Default \in Names /\ None \notin Names
    BY <1>1, GhostFacts, RangeOfSeq, DashboardAssumption DEF Names
  <1> QED
    BY <1>1, <1>2 DEF IndInv, Shape, Calm

\* What setProject leaves in localStorage, for a tab that is on its choice
\* only what it has chosen.
LEMMA StoresFacts ==
    ASSUME IndInv, NEW id \in Names \cup {None}, NEW s, Held(s, stored),
           s.chosen # None /\ s.selected = s.chosen => id = s.chosen
    PROVE  /\ Stores(id) \in [id : Names \cup {None}, by : {"own", "other"}]
           /\ Held(s, Stores(id))
  <1>1. stored \in [id : Names \cup {None}, by : {"own", "other"}]
    BY Context
  <1>2. CASE id \in {None, stored.id}
    BY <1>1, <1>2 DEF Stores
  <1>3. CASE id \notin {None, stored.id}
    <2>1. Stores(id) = [id |-> id, by |-> "own"]
      BY <1>3 DEF Stores
    <2> QED
      BY <2>1 DEF Held
  <1> QED
    BY <1>2, <1>3

\* A closure that s keeps, or of the workspace s is on.
Stands(s, c) ==
    \/ c.project = s.selected
    \/ \E j \in DOMAIN s.closing : c = s.closing[j]
    \/ s.purging # None /\ c = s.purging

\* A choice is held as long as the closures that are added are of it.
LEMMA HeldMoves ==
    ASSUME NEW s, NEW t, NEW st, Held(s, st), SameChoice(s, t),
           t.keySees = s.keySees \/ t.keySees.project = s.selected,
           t.purging \in {s.purging, None} \/ t.purging.project = s.selected,
           \A i \in DOMAIN t.closing : Stands(s, t.closing[i])
    PROVE  Held(t, st)
  BY DEF Held, SameChoice, Stands

\* The closures of a tab are its own.
LEMMA OwnClosures ==
    ASSUME NEW s, NEW t, t.closing = s.closing
    PROVE  \A i \in DOMAIN t.closing : Stands(s, t.closing[i])
  BY DEF Stands

\* One more closure waits for its timer.
LEMMA OneMoreClosure ==
    ASSUME NEW N, NEW n, NEW s \in Tabs(N, n), NEW c \in Closures(N), Stands(s, c)
    PROVE  /\ Append(s.closing, c) \in Seq(Closures(N)) /\ Append(s.closing, c) # <<>>
           /\ \A i \in DOMAIN Append(s.closing, c) : Stands(s, Append(s.closing, c)[i])
  <1> DEFINE closing == Append(s.closing, c)
  <1>1. s.closing \in Seq(Closures(N))
    BY DEF Tabs
  <1>2. /\ closing \in Seq(Closures(N)) /\ closing # <<>> /\ Len(closing) = Len(s.closing) + 1
        /\ \A i \in 1..Len(s.closing) : closing[i] = s.closing[i]
        /\ closing[Len(s.closing) + 1] = c
    BY <1>1, AppendProperties, EmptySeq
  <1>3. Len(s.closing) \in Nat /\ DOMAIN s.closing = 1..Len(s.closing) /\ DOMAIN closing = 1..Len(closing)
    BY <1>1, <1>2, LenProperties
  <1> HIDE DEF closing
  <1>4. \A i \in DOMAIN closing : i \in DOMAIN s.closing \/ i = Len(s.closing) + 1
    BY <1>2, <1>3
  <1>5. \A i \in DOMAIN closing : Stands(s, closing[i])
    BY <1>2, <1>3, <1>4 DEF Stands
  <1> QED
    BY <1>2, <1>5 DEF closing

\* The tab is loaded again.
LEMMA LoadStep ==
    ASSUME IndInv, NEW saved \in Names \cup {None}, NEW chosen \in Names \cup {None},
           tab' = Loaded(saved, storedFilters, chosen),
           stored' \in [id : Names \cup {None}, by : {"own", "other"}],
           chosen # None => saved = chosen /\ (stored'.by = "own" => stored'.id = chosen),
           UNCHANGED <<storedFilters, news>>
    PROVE  StepOK
  <1>1. Loaded(saved, storedFilters, chosen) \in Tabs(Names, news)
        /\ Calm(Loaded(saved, storedFilters, chosen)) /\ KeptOf(Loaded(saved, storedFilters, chosen))
        /\ Held(Loaded(saved, storedFilters, chosen), stored')
    BY Context, LoadedFacts
  <1> QED
    BY <1>1, Context DEF StepOK

\* fetchData() is called, by the current render or an old handler.
LEMMA IssueStep ==
    ASSUME IndInv, NEW s \in Tabs(Names, news), NEW c \in Closures(Names), NEW by \in Callers,
           SameChoice(tab, s), s.keySees = tab.keySees, s.purging = tab.purging,
           \A i \in DOMAIN s.closing : \E j \in DOMAIN tab.closing : s.closing[i] = tab.closing[j],
           ListOf(s), FeedOf(s), HeaderOf(s), c = Sees(s) \/ by = "old",
           tab.chosen # None /\ tab.selected = tab.chosen => c.project = tab.chosen,
           tab' = IssueFetch(s, c, by), stored' = Stores(c.project),
           UNCHANGED <<storedFilters, news>>
    PROVE  StepOK
  <1>0. Names \subseteq Ids /\ news \in Nat /\ Held(tab, stored) /\ KeptOf(tab)
    BY Context
  <1>1. tab' \in Tabs(Names, news) /\ Issued(s, c, by, tab')
    BY <1>0, IssueFacts
  <1>2. Calm(tab')
    BY <1>0, <1>1, IssueCalm
  <1>3. SameChoice(tab, tab') /\ tab'.keySees = tab.keySees /\ tab'.closing = s.closing /\ tab'.purging = tab.purging
    BY <1>1 DEF Issued, SameChoice, SameFeed, SameRest
  <1>4. c.project \in Names \cup {None}
    BY DEF Closures
  <1>5. Held(tab', stored)
    BY <1>0, <1>3, HeldMoves DEF Stands
  <1>6. Held(tab', stored') /\ stored' \in [id : Names \cup {None}, by : {"own", "other"}]
    BY <1>3, <1>4, <1>5, StoresFacts DEF SameChoice
  <1>7. KeptOf(tab')
    BY <1>0, <1>3 DEF KeptOf, SameChoice
  <1> QED
    BY <1>0, <1>1, <1>2, <1>6, <1>7, Context DEF StepOK

\* Only what the tab fetches, its feed or its call changes, and no fetch.
LEMMA EditStep ==
    ASSUME IndInv, news' \in Nat, news <= news', tab' \in Tabs(Names, news'),
           SameChoice(tab, tab'), tab'.keySees = tab.keySees,
           tab'.purging \in {tab.purging, None} \/ tab'.purging.project = tab.selected,
           \A i \in DOMAIN tab'.closing : Stands(tab, tab'.closing[i]),
           tab'.client = tab.client, tab'.clientOld = tab.clientOld,
           FeedOf(tab'), LastOf(tab'), UNCHANGED <<stored, storedFilters>>
    PROVE  StepOK
  <1>1. ListOf(tab') /\ HeaderOf(tab') /\ KeptOf(tab')
    BY Context DEF ListOf, HeaderOf, KeptOf, SameChoice
  <1>2. Held(tab', stored)
    BY Context, HeldMoves
  <1> QED
    BY <1>1, <1>2, Context DEF StepOK, Calm

-----------------------------------------------------------------------------
(* The list settles.                                                       *)

\* find() gives the first workspace that has the id or the name.
LEMMA FindFacts ==
    ASSUME NEW S, NEW ps \in Seq(S), NEW x, Known(ps, x)
    PROVE  \E i \in DOMAIN ps : /\ Find(ps, x) = ps[i] /\ IsCalled(ps[i], x)
                                /\ \A j \in DOMAIN ps : IsCalled(ps[j], x) => i <= j
  <1> DEFINE T == {i \in DOMAIN ps : IsCalled(ps[i], x)}
  <1>1. T \subseteq Nat /\ T # {}
    BY LenProperties DEF Known
  <1>2. PICK i \in T : \A j \in T : ~ (<<j, i>> \in OpToRel(<, Nat))
    BY <1>1, WFMin, NatLessThanWellFounded, Zenon
  <1>3. \A j \in T : ~ (j < i)
    BY <1>1, <1>2 DEF OpToRel
  <1>4. \E k \in DOMAIN ps : IsCalled(ps[k], x) /\ \A j \in DOMAIN ps : IsCalled(ps[j], x) => k <= j
    BY <1>1, <1>3
  <1> QED
    BY <1>4 DEF Find

\* A workspace that is listed is found, and not its ghost.
LEMMA FindsItself ==
    ASSUME NEW ps \in Seq(Ids), GhostsBehind(ps), NEW x \in Range(ps)
    PROVE  Known(ps, x) /\ Find(ps, x) = x
  <1>1. PICK k \in DOMAIN ps : ps[k] = x
    BY DEF Range
  <1>2. Known(ps, x)
    BY <1>1 DEF Known, IsCalled
  <1>3. PICK i \in DOMAIN ps : /\ Find(ps, x) = ps[i] /\ IsCalled(ps[i], x)
                               /\ \A j \in DOMAIN ps : IsCalled(ps[j], x) => i <= j
    BY <1>2, FindFacts
  <1>4. i <= k /\ i \in Nat /\ k \in Nat
    BY <1>1, <1>3, LenProperties DEF IsCalled
  <1>5. ps[i] # Ghost(x)
    BY <1>1, <1>4 DEF GhostsBehind
  <1> QED
    BY <1>2, <1>3, <1>5 DEF IsCalled

\* fetchProjects settles on a workspace of the list.
LEMMA TargetFacts ==
    ASSUME NEW S, NEW ps \in Seq(S), ps # <<>>, NEW s
    PROVE  Target(ps, s) \in S
  <1>1. \A i \in DOMAIN ps : ps[i] \in S
    BY LenProperties
  <1>2. ps[1] \in S
    BY EmptySeq, LenProperties
  <1> QED
    BY <1>1, <1>2, FindFacts DEF Target

\* fetchProjects goes on with the list.
LEMMA ListSettlesStep == IndInv /\ ListSettles => StepOK
  <1> SUFFICES ASSUME IndInv, ListSettles
               PROVE  StepOK
    OBVIOUS
  <1> DEFINE s == tab
             ps == s.answer
             got == [s EXCEPT !.projects = ps, !.answer = <<>>, !.listing = "done",
                              !.savedBy = stored.by]
             w == Target(ps, s)
             set == [got EXCEPT !.selected = w, !.client = w, !.clientOld = FALSE]
  <1>0. /\ Names \subseteq Ids /\ None \notin Names /\ news \in Nat /\ tab \in Tabs(Names, news)
        /\ stored \in [id : Names \cup {None}, by : {"own", "other"}]
        /\ ListOf(tab) /\ FeedOf(tab) /\ LastOf(tab) /\ Held(tab, stored) /\ storedFilters \in Filters
    BY Context
  <1>1. /\ s.listing = "answered"
        /\ IF ps = <<>>
             THEN tab' = got /\ UNCHANGED stored
             ELSE /\ tab' = IF w = s.selected THEN set ELSE Rerender(set, s)
                  /\ stored' = Stores(w)
        /\ UNCHANGED <<storedFilters, news>>
    BY DEF ListSettles
  <1>2. ps \in Seq(Names) /\ ps \in Seq(Ids) /\ GhostsBehind(ps) /\ GhostsBehind(<<>>) /\ <<>> \in Seq(Names)
    BY <1>0 DEF Tabs, ListOf, GhostsBehind
  <1>3. /\ got \in Tabs(Names, news)
        /\ got.projects = ps /\ got.answer = <<>> /\ got.listing = "done" /\ got.savedBy = stored.by
        /\ got.selected = s.selected /\ got.chosen = s.chosen
        /\ SameFeed(s, got) /\ SameRest(s, got) /\ SameFetches(s, got)
    BY <1>0, <1>2 DEF Tabs, SameFeed, SameRest, SameFetches
  <1>4. Fetched(got) = Fetched(s) /\ LastOf(got) /\ FeedOf(got) /\ ListOf(got)
    <2>1. Fetched(got) = Fetched(s)
      BY <1>3 DEF Fetched, SameFetches
    <2>2. LastOf(got)
      BY <1>0, <1>3, <2>1 DEF LastOf, SameFeed, SameRest, SameFetches
    <2> QED
      BY <1>0, <1>2, <1>3, <2>1, <2>2 DEF FeedOf, ListOf, SameFeed
  <1> HIDE DEF got
  <1>5. Held(got, stored)
    BY <1>0, <1>1, <1>3 DEF Held, SameFeed, SameRest
  <1>6. CASE ps = <<>>
    <2>1. HeaderOf(got) /\ KeptOf(got)
      BY <1>3, <1>6 DEF HeaderOf, KeptOf, Range
    <2> QED
      BY <1>0, <1>1, <1>3, <1>4, <1>5, <1>6, <2>1 DEF StepOK, Calm
  <1>7. CASE ps # <<>>
    <2>1. w \in Names /\ w # None
      BY <1>0, <1>2, <1>7, TargetFacts
    <2>2. s.chosen # None /\ s.chosen \in Range(ps) /\ stored.by = "own" => w = s.chosen
      <3> SUFFICES ASSUME s.chosen # None, s.chosen \in Range(ps), stored.by = "own"
                   PROVE  w = s.chosen
        OBVIOUS
      <3>1. stored.id = s.chosen
        BY <1>0, <1>1 DEF Held
      <3> QED
        BY <1>2, <3>1, FindsItself DEF Target
    <2> HIDE DEF w
    <2>3. /\ set \in Tabs(Names, news)
          /\ set.selected = w /\ set.client = w /\ set.listing = "done" /\ set.projects = ps
          /\ set.savedBy = stored.by /\ set.chosen = s.chosen /\ set.answer = <<>>
          /\ set.fetches = s.fetches /\ set.shown = s.shown
          /\ SameFeed(s, set) /\ SameRest(s, set)
      BY <1>3, <2>1 DEF Tabs, SameFeed, SameRest, SameFetches
    <2> HIDE DEF set
    <2>4. ListOf(set) /\ FeedOf(set) /\ HeaderOf(set) /\ KeptOf(set)
      BY <1>0, <1>2, <2>2, <2>3 DEF ListOf, FeedOf, HeaderOf, KeptOf, SameFeed
    <2>5. CASE w = s.selected
      <3>1. tab' = set /\ stored' = Stores(w)
        BY <1>1, <1>7, <2>5
      <3>2. SameFetches(s, got) /\ Fetched(set) = Fetched(s)
        BY <1>3, <2>3 DEF Fetched
      <3>3. LastOf(set)
        BY <1>0, <2>3, <2>5, <3>2 DEF LastOf, SameFeed, SameRest
      <3>4. Held(set, stored)
        BY <1>0, <1>1, <2>3, <2>5 DEF Held, SameFeed, SameRest
      <3>5. Held(set, Stores(w)) /\ Stores(w) \in [id : Names \cup {None}, by : {"own", "other"}]
        BY <2>1, <2>3, <3>4, StoresFacts
      <3> QED
        BY <1>0, <1>1, <2>3, <2>4, <3>1, <3>3, <3>5 DEF StepOK, Calm
    <2>6. CASE w # s.selected
      <3>1. tab' = Rerender(set, s) /\ stored' = Stores(w)
        BY <1>1, <1>7, <2>6
      <3>2. tab' \in Tabs(Names, news) /\ Calm(tab')
        BY <1>0, <2>3, <2>4, <3>1, RerenderFacts, RerenderCalm
      <3>3. SameChoice(set, tab')
        <4>1. PICK t \in Tabs(Names, news) :
                 Issued(set, Sees(set), "now", t) /\ Reconnected(t, Sees(s), Rerender(set, s))
          BY <1>0, <2>3, RerenderFacts
        <4> QED
          BY <3>1, <4>1 DEF Issued, Reconnected, SameChoice
      <3>4. KeptOf(tab')
        BY <2>4, <3>3 DEF KeptOf, SameChoice
      <3>5. tab'.listing = "done" /\ (tab'.chosen # None => tab'.selected # tab'.chosen)
        BY <1>0, <1>1, <2>3, <2>6, <3>3 DEF Held, SameChoice
      <3>6. Held(tab', stored')
        BY <3>5 DEF Held
      <3>7. stored' \in [id : Names \cup {None}, by : {"own", "other"}]
        BY <1>0, <2>1, <3>1 DEF Stores
      <3> QED
        BY <1>0, <1>1, <3>2, <3>4, <3>6, <3>7 DEF StepOK
    <2> QED
      BY <2>5, <2>6
  <1> QED
    BY <1>6, <1>7

-----------------------------------------------------------------------------
(* Steps that fetch, and what users do.                                    *)

\* The closure of the current render is of the workspace that is selected.
LEMMA SeesFacts ==
    ASSUME IndInv
    PROVE  /\ Sees(tab) \in Closures(Names) /\ Sees(tab).project = tab.selected
           /\ tab.keySees \in Closures(Names)
           /\ \A i \in DOMAIN tab.closing : tab.closing[i] \in Closures(Names)
           /\ tab.projects \in Seq(Names) /\ tab.selected \in Names \cup {None}
           /\ tab.filters \in Filters
  <1>1. tab \in Tabs(Names, news)
    BY Context
  <1>2. tab.closing \in Seq(Closures(Names)) /\ tab.selected \in Names \cup {None} /\ tab.filters \in Filters
        /\ tab.keySees \in Closures(Names) /\ tab.projects \in Seq(Names)
    BY <1>1 DEF Tabs
  <1>3. \A i \in DOMAIN tab.closing : tab.closing[i] \in Closures(Names)
    BY <1>2, LenProperties
  <1> QED
    BY <1>2, <1>3 DEF Sees, Closures

\* The refresh button.
LEMMA RefreshStep == IndInv /\ ManualRefresh => StepOK
  <1> SUFFICES ASSUME IndInv, ManualRefresh
               PROVE  StepOK
    OBVIOUS
  <1>1. tab' = IssueFetch(tab, Sees(tab), "now") /\ stored' = Stores(Sees(tab).project)
        /\ UNCHANGED <<storedFilters, news>>
    BY SeesFacts DEF ManualRefresh
  <1>2. SameChoice(tab, tab) /\ "now" \in Callers /\ tab \in Tabs(Names, news)
        /\ ListOf(tab) /\ FeedOf(tab) /\ HeaderOf(tab)
    BY Context DEF SameChoice, Callers
  <1> QED
    BY <1>1, <1>2, SeesFacts, IssueStep

\* A message of the live feed.
LEMMA MessageStep == IndInv /\ MessageArrives => StepOK
  <1> SUFFICES ASSUME IndInv, MessageArrives
               PROVE  StepOK
    OBVIOUS
  <1> DEFINE s == [tab EXCEPT !.wire = Tail(@)]
             fetch == Head(tab.wire) = "deleted" \/ ~s.paused
  <1>0. /\ tab \in Tabs(Names, news) /\ news \in Nat /\ ListOf(tab) /\ FeedOf(tab) /\ HeaderOf(tab) /\ LastOf(tab)
        /\ tab.wire # <<>> /\ tab.wire \in Seq({"ingested", "deleted"}) /\ tab.paused \in BOOLEAN
        /\ tab.buffered \in Nat
    BY Context DEF Tabs, MessageArrives
  <1>1. /\ tab' = IF fetch THEN IssueFetch(s, Sees(s), "now")
                           ELSE [s EXCEPT !.buffered = @ + 1]
        /\ stored' = IF fetch THEN Stores(s.selected) ELSE stored
        /\ UNCHANGED <<storedFilters, news>>
    BY DEF MessageArrives
  <1>2. Tail(tab.wire) \in Seq({"ingested", "deleted"}) /\ Head(tab.wire) \in {"ingested", "deleted"}
    BY <1>0, HeadTailProperties
  <1>3. /\ s \in Tabs(Names, news) /\ SameChoice(tab, s) /\ SameFetches(tab, s) /\ SameRest(tab, s)
        /\ s.paused = tab.paused /\ s.buffered = tab.buffered /\ s.socket = tab.socket
        /\ s.closing = tab.closing /\ s.heard = tab.heard /\ s.wire = Tail(tab.wire)
    BY <1>0, <1>2 DEF Tabs, SameChoice, SameFetches, SameRest
  <1>4. tab.socket = "open"
    BY <1>0 DEF FeedOf
  <1> HIDE DEF s
  <1>5. ListOf(s) /\ FeedOf(s) /\ HeaderOf(s) /\ Sees(s) = Sees(tab)
    BY <1>0, <1>3, <1>4 DEF ListOf, FeedOf, HeaderOf, SameChoice, SameFetches, SameRest, Sees
  <1>6. CASE fetch
    <2>1. tab' = IssueFetch(s, Sees(s), "now") /\ stored' = Stores(Sees(s).project)
      BY <1>1, <1>3, <1>5, <1>6, SeesFacts DEF SameChoice
    <2>2. "now" \in Callers /\ s.keySees = tab.keySees /\ s.purging = tab.purging
      BY <1>3 DEF Callers, SameRest
    <2> QED
      BY <1>1, <1>3, <1>5, <2>1, <2>2, SeesFacts, IssueStep
  <1>7. CASE ~fetch
    <2>1. tab' = [s EXCEPT !.buffered = @ + 1] /\ s.paused /\ stored' = stored
      BY <1>0, <1>1, <1>3, <1>7
    <2>2. /\ tab' \in Tabs(Names, news) /\ SameChoice(s, tab') /\ SameFetches(s, tab') /\ SameRest(s, tab')
          /\ tab'.paused = s.paused /\ tab'.socket = s.socket /\ tab'.closing = s.closing
      <3>1. tab' = [s EXCEPT !.buffered = s.buffered + 1] /\ s.buffered + 1 \in Nat
        BY <1>0, <1>3, <2>1
      <3> QED
        BY <1>3, <3>1 DEF Tabs, SameChoice, SameFetches, SameRest
    <2>3. /\ SameChoice(tab, tab') /\ SameFetches(tab, tab') /\ SameRest(tab, tab')
          /\ tab'.closing = tab.closing
      BY <1>3, <2>2 DEF SameChoice, SameFetches, SameRest
    <2>4. FeedOf(tab') /\ LastOf(tab')
      <3>1. Fetched(tab') = Fetched(tab)
        BY <2>3 DEF Fetched, SameFetches
      <3>2. tab'.paused /\ tab'.socket = "open"
        BY <1>3, <1>4, <2>1, <2>2
      <3>3. /\ \A f, g \in tab.fetches : f.last /\ g.last => f = g
            /\ \A f \in Fetched(tab) : f.last /\ f.by = "now" /\ tab.selected # None =>
                  f.header = tab.selected /\ f.filters = tab.filters
        BY <1>0 DEF LastOf
      <3>4. tab'.selected = tab.selected /\ tab'.filters = tab.filters /\ tab'.fetches = tab.fetches
        BY <2>3 DEF SameChoice, SameFetches, SameRest
      <3> QED
        BY <3>1, <3>2, <3>3, <3>4 DEF FeedOf, LastOf
    <2>5. /\ news' \in Nat /\ news <= news' /\ tab' \in Tabs(Names, news')
          /\ UNCHANGED <<stored, storedFilters>>
      BY <1>0, <1>1, <2>1, <2>2
    <2>6. /\ tab'.keySees = tab.keySees /\ tab'.purging \in {tab.purging, None}
          /\ tab'.client = tab.client /\ tab'.clientOld = tab.clientOld
          /\ \A i \in DOMAIN tab'.closing : Stands(tab, tab'.closing[i])
      BY <2>3, OwnClosures DEF SameFetches, SameRest
    <2> QED
      BY <2>3, <2>4, <2>5, <2>6, EditStep
  <1> QED
    BY <1>6, <1>7

\* The timer of an onclose or of a purge, with its old closure.
LEMMA TimerStep == \A i \in DOMAIN tab.closing : IndInv /\ TimerFires(i) => StepOK
  <1> SUFFICES ASSUME NEW i \in DOMAIN tab.closing, IndInv, TimerFires(i)
               PROVE  StepOK
    OBVIOUS
  <1> DEFINE c == tab.closing[i]
             s == [tab EXCEPT !.closing = RemoveAt(@, i)]
  <1>0. /\ tab \in Tabs(Names, news) /\ ListOf(tab) /\ FeedOf(tab) /\ HeaderOf(tab) /\ Held(tab, stored)
        /\ tab.closing \in Seq(Closures(Names)) /\ c \in Closures(Names)
    BY Context, SeesFacts DEF Tabs
  <1>1. tab' = IssueFetch(s, c, "old") /\ stored' = Stores(c.project) /\ UNCHANGED <<storedFilters, news>>
    BY DEF TimerFires
  <1>2. /\ RemoveAt(tab.closing, i) \in Seq(Closures(Names))
        /\ \A j \in DOMAIN RemoveAt(tab.closing, i) :
              \E k \in DOMAIN tab.closing : RemoveAt(tab.closing, i)[j] = tab.closing[k]
    <2>1. /\ RemoveAt(tab.closing, i) \in Seq(Closures(Names))
          /\ \A j \in DOMAIN RemoveAt(tab.closing, i) :
                /\ j < i => j \in DOMAIN tab.closing /\ RemoveAt(tab.closing, i)[j] = tab.closing[j]
                /\ j >= i => j + 1 \in DOMAIN tab.closing /\ RemoveAt(tab.closing, i)[j] = tab.closing[j + 1]
      BY <1>0, TakenOut
    <2>2. DOMAIN RemoveAt(tab.closing, i) \subseteq Nat /\ i \in Nat
      BY <1>0, <2>1, LenProperties
    <2>3. \A j \in DOMAIN RemoveAt(tab.closing, i) : j < i \/ j >= i
      BY <2>2
    <2> QED
      BY <2>1, <2>3
  <1>3. /\ s \in Tabs(Names, news) /\ SameChoice(tab, s) /\ SameFetches(tab, s) /\ SameRest(tab, s)
        /\ s.paused = tab.paused /\ s.buffered = tab.buffered /\ s.socket = tab.socket /\ s.wire = tab.wire
        /\ s.closing = RemoveAt(tab.closing, i)
    BY <1>0, <1>2 DEF Tabs, SameChoice, SameFetches, SameRest
  <1> HIDE DEF s
  <1>4. ListOf(s) /\ FeedOf(s) /\ HeaderOf(s) /\ s.keySees = tab.keySees /\ s.purging = tab.purging
    BY <1>0, <1>3 DEF ListOf, FeedOf, HeaderOf, SameChoice, SameFetches, SameRest
  <1>5. "old" \in Callers
    BY DEF Callers
  <1>6. tab.chosen # None /\ tab.selected = tab.chosen => c.project = tab.chosen
    BY <1>0 DEF Held
  <1>7. \A j \in DOMAIN s.closing : \E k \in DOMAIN tab.closing : s.closing[j] = tab.closing[k]
    BY <1>2, <1>3
  <1> HIDE DEF c
  <1> QED
    BY <1>0, <1>1, <1>3, <1>4, <1>5, <1>6, <1>7, IssueStep

\* A filter is set: a new fetchData, and a new socket.
LEMMA FilterStep == \A f \in Filters : IndInv /\ SetFilters(f) => StepOK
  <1> SUFFICES ASSUME NEW f \in Filters, IndInv, SetFilters(f)
               PROVE  StepOK
    OBVIOUS
  <1> DEFINE s == [tab EXCEPT !.filters = f]
  <1>0. /\ tab \in Tabs(Names, news) /\ ListOf(tab) /\ FeedOf(tab) /\ HeaderOf(tab) /\ Held(tab, stored)
        /\ KeptOf(tab) /\ Names \subseteq Ids /\ news \in Nat
    BY Context
  <1>1. tab' = Rerender(s, tab) /\ stored' = Stores(tab.selected) /\ storedFilters' = f /\ news' = news
    BY DEF SetFilters
  <1>2. s \in Tabs(Names, news) /\ SameChoice(tab, s) /\ SameFeed(tab, s) /\ SameFetches(tab, s)
        /\ s.keySees = tab.keySees /\ s.purging = tab.purging
    BY <1>0 DEF Tabs, SameChoice, SameFeed, SameFetches
  <1> HIDE DEF s
  <1>3. ListOf(s) /\ FeedOf(s) /\ HeaderOf(s)
    BY <1>0, <1>2 DEF ListOf, FeedOf, HeaderOf, SameChoice, SameFeed, SameFetches
  <1>4. tab' \in Tabs(Names, news) /\ Calm(tab')
    BY <1>0, <1>1, <1>2, <1>3, RerenderFacts, RerenderCalm
  <1>5. PICK t \in Tabs(Names, news) :
           Issued(s, Sees(s), "now", t) /\ Reconnected(t, Sees(tab), Rerender(s, tab))
    BY <1>0, <1>2, RerenderFacts
  <1>6. SameChoice(tab, tab') /\ tab'.keySees = tab.keySees /\ tab'.purging = tab.purging
    BY <1>1, <1>2, <1>5 DEF SameChoice, SameRest, Issued, Reconnected
  <1>7. \A i \in DOMAIN tab'.closing : Stands(tab, tab'.closing[i])
    <2>1. t.closing = tab.closing
      BY <1>2, <1>5 DEF Issued, SameFeed
    <2> QED
      BY <1>1, <1>5, <2>1, SeesFacts DEF Reconnected, Stands
  <1>8. Held(tab', stored) /\ KeptOf(tab')
    BY <1>0, <1>6, <1>7, HeldMoves DEF KeptOf, SameChoice
  <1>9. stored' \in [id : Names \cup {None}, by : {"own", "other"}] /\ Held(tab', stored')
    BY <1>1, <1>6, <1>8, SeesFacts, StoresFacts DEF SameChoice
  <1> QED
    BY <1>0, <1>1, <1>4, <1>8, <1>9 DEF StepOK

\* The feed is paused or resumed, by the pill or by the key.
LEMMA ToggleStep ==
    ASSUME IndInv, NEW c \in Closures(Names), NEW by \in Callers, c = Sees(tab) \/ by = "old",
           tab.chosen # None /\ tab.selected = tab.chosen => c.project = tab.chosen,
           ToggleFeedPause(c, by)
    PROVE  StepOK
  <1> DEFINE resuming == [tab EXCEPT !.paused = FALSE, !.buffered = 0]
             pausing == [tab EXCEPT !.paused = TRUE]
             next == IF tab.paused THEN IssueFetch(resuming, c, by) ELSE pausing
             t == Reconnect(next, Sees(tab))
  <1>0. /\ tab \in Tabs(Names, news) /\ ListOf(tab) /\ FeedOf(tab) /\ HeaderOf(tab) /\ LastOf(tab)
        /\ Held(tab, stored) /\ KeptOf(tab) /\ Names \subseteq Ids /\ news \in Nat /\ storedFilters \in Filters
        /\ stored \in [id : Names \cup {None}, by : {"own", "other"}]
    BY Context
  <1>1. /\ tab' = [t EXCEPT !.keySees = Sees(tab)]
        /\ stored' = IF tab.paused THEN Stores(c.project) ELSE stored
        /\ UNCHANGED <<storedFilters, news>>
    BY DEF ToggleFeedPause
  <1>2. next \in Tabs(Names, news) /\ Calm(next) /\ SameChoice(tab, next)
        /\ next.closing = tab.closing /\ next.purging = tab.purging
    <2>1. CASE tab.paused
      <3>1. /\ resuming \in Tabs(Names, news) /\ SameChoice(tab, resuming) /\ SameFetches(tab, resuming)
            /\ SameRest(tab, resuming) /\ ~resuming.paused /\ resuming.buffered = 0
            /\ resuming.wire = tab.wire /\ resuming.socket = tab.socket /\ resuming.closing = tab.closing
        BY <1>0 DEF Tabs, SameChoice, SameFetches, SameRest
      <3>2. next = IssueFetch(resuming, c, by)
        BY <2>1
      <3> HIDE DEF resuming, next
      <3>3. ListOf(resuming) /\ FeedOf(resuming) /\ HeaderOf(resuming) /\ Sees(resuming) = Sees(tab)
        BY <1>0, <3>1 DEF ListOf, FeedOf, HeaderOf, SameChoice, SameFetches, SameRest, Sees
      <3>4. next \in Tabs(Names, news) /\ Issued(resuming, c, by, next)
        BY <1>0, <3>1, <3>2, IssueFacts
      <3>5. Calm(next)
        BY <1>0, <3>1, <3>3, <3>4, IssueCalm
      <3> QED
        BY <3>1, <3>4, <3>5 DEF Issued, SameChoice, SameFeed, SameRest
    <2>2. CASE ~tab.paused
      <3>1. /\ pausing \in Tabs(Names, news) /\ SameChoice(tab, pausing) /\ SameFetches(tab, pausing)
            /\ SameRest(tab, pausing) /\ pausing.paused
            /\ pausing.wire = tab.wire /\ pausing.socket = tab.socket /\ pausing.closing = tab.closing
        BY <1>0 DEF Tabs, SameChoice, SameFetches, SameRest
      <3>2. next = pausing
        BY <2>2
      <3> HIDE DEF pausing, next
      <3>3. ListOf(pausing) /\ FeedOf(pausing) /\ HeaderOf(pausing) /\ Fetched(pausing) = Fetched(tab)
        BY <1>0, <3>1 DEF ListOf, FeedOf, HeaderOf, Fetched, SameChoice, SameFetches
      <3>4. LastOf(pausing)
        BY <1>0, <3>1, <3>3 DEF LastOf, SameChoice, SameFetches, SameRest
      <3> QED
        BY <3>1, <3>2, <3>3, <3>4 DEF Calm, SameRest
    <2> QED
      BY <2>1, <2>2
  <1> HIDE DEF next
  <1>3. t \in Tabs(Names, news) /\ Reconnected(next, Sees(tab), t) /\ Calm(t)
    BY <1>0, <1>2, SeesFacts, ReconnectFacts, ReconnectCalm
  <1> HIDE DEF t
  <1>4. /\ tab' \in Tabs(Names, news) /\ SameChoice(t, tab') /\ SameFeed(t, tab') /\ SameFetches(t, tab')
        /\ tab'.filters = t.filters /\ tab'.keySees = Sees(tab) /\ tab'.purging = t.purging
    BY <1>1, <1>3, SeesFacts DEF Tabs, SameChoice, SameFeed, SameFetches
  <1>5. Calm(tab')
    <2>1. ListOf(tab') /\ FeedOf(tab') /\ HeaderOf(tab') /\ Fetched(tab') = Fetched(t)
      BY <1>3, <1>4 DEF Calm, ListOf, FeedOf, HeaderOf, Fetched, SameChoice, SameFeed, SameFetches
    <2>2. LastOf(tab')
      BY <1>3, <1>4, <2>1 DEF Calm, LastOf, SameChoice, SameFeed, SameFetches
    <2> QED
      BY <2>1, <2>2 DEF Calm
  <1>6. SameChoice(tab, tab') /\ tab'.purging = tab.purging
    BY <1>2, <1>3, <1>4 DEF SameChoice, SameRest, Reconnected
  <1>7. \A i \in DOMAIN tab'.closing : Stands(tab, tab'.closing[i])
    BY <1>2, <1>3, <1>4, SeesFacts DEF Reconnected, SameFeed, Stands
  <1>8. Held(tab', stored) /\ KeptOf(tab')
    BY <1>0, <1>4, <1>6, <1>7, SeesFacts, HeldMoves DEF KeptOf, SameChoice
  <1>9. stored' \in [id : Names \cup {None}, by : {"own", "other"}] /\ Held(tab', stored')
    <2>1. c.project \in Names \cup {None}
      BY DEF Closures
    <2> QED
      BY <1>0, <1>1, <1>6, <1>8, <2>1, StoresFacts DEF SameChoice
  <1> QED
    BY <1>0, <1>1, <1>4, <1>5, <1>8, <1>9 DEF StepOK

\* The pill in the top bar and the key P.
LEMMA PauseSteps == IndInv /\ (PauseButton \/ PauseKey) => StepOK
  <1> SUFFICES ASSUME IndInv, PauseButton \/ PauseKey
               PROVE  StepOK
    OBVIOUS
  <1>1. "now" \in Callers /\ "old" \in Callers
    BY DEF Callers
  <1>2. CASE PauseButton
    BY <1>1, <1>2, SeesFacts, ToggleStep DEF PauseButton
  <1>3. CASE PauseKey
    <2>1. tab.chosen # None /\ tab.selected = tab.chosen => tab.keySees.project = tab.chosen
      BY Context DEF Held
    <2> QED
      BY <1>1, <1>3, <2>1, SeesFacts, ToggleStep DEF PauseKey
  <1> QED
    BY <1>2, <1>3

-----------------------------------------------------------------------------
(* Steps that load the tab again.                                          *)

\* The user loads the page again, or picks a workspace.
LEMMA ReloadStep == IndInv /\ ReloadPage => StepOK
  <1> SUFFICES ASSUME IndInv, ReloadPage
               PROVE  StepOK
    OBVIOUS
  <1> DEFINE chosen == IF stored.by = "own" /\ tab.selected = tab.chosen THEN tab.chosen ELSE None
  <1>1. tab' = Loaded(stored.id, storedFilters, chosen) /\ UNCHANGED <<stored, storedFilters, news>>
    BY DEF ReloadPage, Reload
  <1>2. stored.id \in Names \cup {None} /\ tab.chosen \in Names \cup {None}
    BY Context DEF Tabs
  <1>3. chosen # None => stored.id = chosen /\ (stored.by = "own" => stored.id = chosen)
    BY Context DEF Held
  <1>4. stored' \in [id : Names \cup {None}, by : {"own", "other"}] /\ chosen \in Names \cup {None}
    BY <1>1, <1>2, Context
  <1> HIDE DEF chosen
  <1> QED
    BY <1>1, <1>2, <1>3, <1>4, LoadStep

\* A workspace is stored as the tab's own choice, and loaded.
LEMMA ChooseStep ==
    ASSUME IndInv, NEW w \in Names, stored' = Stores(w), Reload(w, w),
           UNCHANGED <<storedFilters, news>>
    PROVE  StepOK
  <1>1. tab' = Loaded(w, storedFilters, w) /\ w # None
    BY Context DEF Reload
  <1>2. stored' \in [id : Names \cup {None}, by : {"own", "other"}] /\ stored'.id = w
    BY <1>1, Context DEF Stores
  <1> QED
    BY <1>1, <1>2, LoadStep

\* handleSelectProject and handleCreateProject.
LEMMA SelectSteps ==
    IndInv /\ ((\E w \in Ids : SelectProject(w)) \/ ProjectCreated) => StepOK
  <1>1. ASSUME IndInv, NEW w \in Ids, SelectProject(w)
        PROVE  StepOK
    <2>1. w \in Names
      BY <1>1, SeesFacts, RangeOfSeq DEF SelectProject
    <2> QED
      BY <1>1, <2>1, ChooseStep DEF SelectProject
  <1>2. ASSUME IndInv, ProjectCreated
        PROVE  StepOK
    <2>1. tab.calling.id \in Names
      BY <1>2, Context DEF ProjectCreated, Tabs, Names
    <2> QED
      BY <1>2, <2>1, ChooseStep DEF ProjectCreated
  <1> QED
    BY <1>1, <1>2

\* handleDeleteProject moves on to another workspace, and loads.
LEMMA DeletedStep == IndInv /\ ProjectDeleted => StepOK
  <1> SUFFICES ASSUME IndInv, ProjectDeleted
               PROVE  StepOK
    OBVIOUS
  <1> DEFINE remaining == Without(tab.projects, tab.calling.id)
             moved == tab.selected = tab.calling.id /\ remaining # <<>>
             saved == IF moved THEN Head(remaining) ELSE stored.id
  <1>0. /\ tab.projects \in Seq(Names) /\ stored \in [id : Names \cup {None}, by : {"own", "other"}]
    BY Context, SeesFacts
  <1>1. /\ stored' = IF moved THEN Stores(Head(remaining)) ELSE stored
        /\ tab' = Loaded(saved, storedFilters, None)
        /\ UNCHANGED <<storedFilters, news>>
    BY DEF ProjectDeleted, Reload
  <1>2. remaining \in Seq(Names)
    <2>1. CASE tab.calling.id \in Range(tab.projects)
      <3>1. (CHOOSE i \in DOMAIN tab.projects : tab.projects[i] = tab.calling.id) \in DOMAIN tab.projects
        BY <2>1 DEF Range
      <3> QED
        BY <1>0, <2>1, <3>1, TakenOut DEF Without
    <2> QED
      BY <1>0, <2>1 DEF Without
  <1> HIDE DEF remaining
  <1>3. moved => Head(remaining) \in Names
    BY <1>2, HeadTailProperties
  <1>4. saved \in Names \cup {None} /\ stored' \in [id : Names \cup {None}, by : {"own", "other"}]
    BY <1>0, <1>1, <1>3 DEF Stores
  <1> HIDE DEF saved
  <1> QED
    BY <1>1, <1>4, LoadStep

-----------------------------------------------------------------------------
(* The other steps of the tab.                                             *)

\* The feed and the fetches stay as they are while a list is on its way.
LEMMA ListEdit ==
    ASSUME IndInv, tab' \in Tabs(Names, news), SameFeed(tab, tab'), SameFetches(tab, tab'),
           SameRest(tab, tab'), tab'.selected = tab.selected, tab'.chosen = tab.chosen,
           tab.listing = "asked", ListOf(tab'), tab'.projects = <<>>,
           UNCHANGED <<stored, storedFilters, news>>
    PROVE  StepOK
  <1>0. FeedOf(tab) /\ LastOf(tab) /\ Held(tab, stored)
    BY Context
  <1>1. Fetched(tab') = Fetched(tab)
    BY DEF Fetched, SameFetches
  <1>2. FeedOf(tab') /\ HeaderOf(tab')
    BY <1>0 DEF FeedOf, SameFeed, HeaderOf
  <1>3. LastOf(tab')
    BY <1>0, <1>1 DEF LastOf, SameFeed, SameRest, SameFetches
  <1>4. Held(tab', stored)
    BY <1>0 DEF Held, SameFeed, SameRest
  <1>5. KeptOf(tab')
    BY DEF KeptOf, Range
  <1> QED
    BY <1>2, <1>3, <1>4, <1>5, Context DEF StepOK, Calm

\* getProjects is answered, or fails.
LEMMA ListSteps == IndInv /\ (ListServed \/ ListFails) => StepOK
  <1> SUFFICES ASSUME IndInv, ListServed \/ ListFails
               PROVE  StepOK
    OBVIOUS
  <1>0. /\ tab \in Tabs(Names, news) /\ ListOf(tab) /\ Listing(listed) /\ listed \in Seq(Names)
        /\ tab.listing = "asked" /\ UNCHANGED <<stored, storedFilters, news>>
    <2>1. Listing(listed)
      BY DEF IndInv, Shape
    <2>2. listed \in Seq(Names)
      <3>1. listed \in Seq(Range(listed))
        BY <2>1, LenProperties, SeqOfRange DEF Listing
      <3> QED
        BY <3>1 DEF Names
    <2> QED
      BY <2>1, <2>2, Context DEF ListServed, ListFails
  <1>1. PICK l \in {"answered", "done"}, a \in {listed, tab.answer} :
           tab' = [tab EXCEPT !.listing = l, !.answer = a]
    <2>1. CASE ListServed
      BY <2>1 DEF ListServed
    <2>2. CASE ListFails
      <3>1. tab' = [tab EXCEPT !.listing = "done", !.answer = tab.answer]
        BY <1>0, <2>2 DEF ListFails, Tabs
      <3> QED
        BY <3>1
    <2> QED
      BY <2>1, <2>2
  <1>2. a \in Seq(Names) /\ GhostsBehind(a) /\ tab.projects = <<>>
    BY <1>0 DEF Tabs, ListOf, Listing
  <1>3. /\ tab' \in Tabs(Names, news) /\ SameFeed(tab, tab') /\ SameFetches(tab, tab') /\ SameRest(tab, tab')
        /\ tab'.selected = tab.selected /\ tab'.chosen = tab.chosen /\ tab'.projects = tab.projects
        /\ tab'.answer = a
    BY <1>0, <1>1, <1>2 DEF Tabs, SameFeed, SameFetches, SameRest
  <1>4. ListOf(tab') /\ tab'.projects = <<>>
    BY <1>2, <1>3 DEF ListOf
  <1> QED
    BY <1>0, <1>3, <1>4, ListEdit

\* The fetches that are left, and what they bring, are those there were.
LEMMA FetchEdit ==
    ASSUME IndInv, tab' \in Tabs(Names, news), SameChoice(tab, tab'), SameFeed(tab, tab'), SameRest(tab, tab'),
           tab'.client = tab.client, tab'.clientOld = tab.clientOld,
           \A f \in Fetched(tab') : \E g \in Fetched(tab) :
              /\ f.last = g.last /\ f.by = g.by /\ f.header = g.header
              /\ f.filters = g.filters /\ f.asOf = g.asOf,
           \A f, g \in tab'.fetches : f.last /\ g.last => f = g,
           UNCHANGED <<stored, storedFilters, news>>
    PROVE  StepOK
  <1>0. FeedOf(tab) /\ LastOf(tab) /\ news \in Nat
    BY Context
  <1>1. FeedOf(tab') /\ news' \in Nat /\ news <= news' /\ tab' \in Tabs(Names, news')
    BY <1>0 DEF FeedOf, SameFeed
  <1>2. LastOf(tab')
    <2>1. ASSUME NEW f \in Fetched(tab'), f.last
          PROVE  /\ f.by = "now" /\ tab'.selected # None =>
                       f.header = tab'.selected /\ f.filters = tab'.filters
                 /\ ~tab'.paused /\ tab'.wire = <<>> /\ tab'.closing = <<>> => f.asOf >= tab'.heard
      <3>1. PICK g \in Fetched(tab) : f.last = g.last /\ f.by = g.by /\ f.header = g.header
               /\ f.filters = g.filters /\ f.asOf = g.asOf
        OBVIOUS
      <3> QED
        BY <1>0, <2>1, <3>1 DEF LastOf, SameChoice, SameFeed, SameRest
    <2> QED
      BY <2>1 DEF LastOf
  <1>3. /\ tab'.keySees = tab.keySees /\ tab'.purging = tab.purging
        /\ \A i \in DOMAIN tab'.closing : Stands(tab, tab'.closing[i])
    BY OwnClosures DEF SameRest, SameFeed
  <1> QED
    BY <1>1, <1>2, <1>3, EditStep

\* A part is answered, or fails.
LEMMA FetchSteps ==
    \A f \in tab.fetches : IndInv /\ ((\E p \in Parts : Answered(f, p)) \/ FetchFails(f)) => StepOK
  <1> SUFFICES ASSUME NEW f \in tab.fetches, IndInv, (\E p \in Parts : Answered(f, p)) \/ FetchFails(f)
               PROVE  StepOK
    OBVIOUS
  <1>0. /\ tab \in Tabs(Names, news) /\ LastOf(tab)
        /\ tab.fetches \subseteq Fetches(Names, news) /\ tab.shown \in Fetches(Names, news) \cup {None}
        /\ f \in Fetches(Names, news)
        /\ UNCHANGED <<stored, storedFilters, news>>
    BY Context DEF Tabs, Answered, FetchFails
  <1>1. PICK fetches, shown :
           /\ tab' = [tab EXCEPT !.fetches = fetches, !.shown = shown]
           /\ \/ fetches = tab.fetches \ {f} /\ shown \in {f, tab.shown}
              \/ /\ shown = tab.shown
                 /\ \E rest \in SUBSET Parts : fetches = (tab.fetches \ {f}) \cup {[f EXCEPT !.waiting = rest]}
    <2>1. CASE FetchFails(f)
      <3>1. tab' = [tab EXCEPT !.fetches = tab.fetches \ {f}, !.shown = tab.shown]
        BY <1>0, <2>1 DEF FetchFails, Tabs
      <3> QED
        BY <3>1
    <2>2. ASSUME NEW p \in Parts, Answered(f, p)
          PROVE  \/ tab' = [tab EXCEPT !.fetches = tab.fetches \ {f}, !.shown = f]
                 \/ \E rest \in SUBSET Parts :
                       tab' = [tab EXCEPT !.fetches = (tab.fetches \ {f}) \cup {[f EXCEPT !.waiting = rest]},
                                          !.shown = tab.shown]
      <3>1. f.waiting \ {p} \in SUBSET Parts
        BY <1>0 DEF Fetches
      <3>2. tab' = IF f.waiting \ {p} = {}
                   THEN [tab EXCEPT !.fetches = tab.fetches \ {f}, !.shown = f]
                   ELSE [tab EXCEPT !.fetches = (tab.fetches \ {f}) \cup {[f EXCEPT !.waiting = f.waiting \ {p}]}]
        BY <2>2 DEF Answered
      <3>3. ASSUME NEW g
            PROVE  [tab EXCEPT !.fetches = g] = [tab EXCEPT !.fetches = g, !.shown = tab.shown]
        BY <1>0 DEF Tabs
      <3> QED
        BY <3>1, <3>2, <3>3
    <2> QED
      BY <2>1, <2>2
  <1>2. \A rest \in SUBSET Parts :
           /\ [f EXCEPT !.waiting = rest] \in Fetches(Names, news)
           /\ LET g == [f EXCEPT !.waiting = rest] IN
                 /\ f.last = g.last /\ f.by = g.by /\ f.header = g.header
                 /\ f.filters = g.filters /\ f.asOf = g.asOf
    BY <1>0 DEF Fetches
  <1>3. fetches \subseteq Fetches(Names, news) /\ shown \in Fetches(Names, news) \cup {None}
    BY <1>0, <1>1, <1>2
  <1>4. /\ tab' \in Tabs(Names, news) /\ SameChoice(tab, tab') /\ SameFeed(tab, tab') /\ SameRest(tab, tab')
        /\ tab'.client = tab.client /\ tab'.clientOld = tab.clientOld
        /\ tab'.fetches = fetches /\ tab'.shown = shown
    BY <1>0, <1>1, <1>3 DEF Tabs, SameChoice, SameFeed, SameRest
  <1>5. f \in Fetched(tab) /\ \A g \in tab.fetches : g \in Fetched(tab)
    BY DEF Fetched
  <1>6. \A g \in Fetched(tab') : g \in Fetched(tab)
              \/ \E rest \in SUBSET Parts : g = [f EXCEPT !.waiting = rest]
    BY <1>1, <1>4 DEF Fetched
  <1>7. ASSUME NEW g \in Fetched(tab')
        PROVE  \E h \in Fetched(tab) :
                  /\ g.last = h.last /\ g.by = h.by /\ g.header = h.header
                  /\ g.filters = h.filters /\ g.asOf = h.asOf
    <2>1. CASE g \in Fetched(tab)
      BY <2>1
    <2>2. ASSUME NEW rest \in SUBSET Parts, g = [f EXCEPT !.waiting = rest]
          PROVE  \E h \in Fetched(tab) :
                    /\ g.last = h.last /\ g.by = h.by /\ g.header = h.header
                    /\ g.filters = h.filters /\ g.asOf = h.asOf
      BY <1>2, <1>5, <2>2
    <2> QED
      BY <1>6, <2>1, <2>2
  <1>8. \A g, h \in tab'.fetches : g.last /\ h.last => g = h
    <2>0. \A g, h \in tab.fetches : g.last /\ h.last => g = h
      BY <1>0 DEF LastOf
    <2>1. CASE fetches = tab.fetches \ {f}
      BY <1>4, <2>0, <2>1
    <2>2. ASSUME NEW rest \in SUBSET Parts, fetches = (tab.fetches \ {f}) \cup {[f EXCEPT !.waiting = rest]}
          PROVE  \A g, h \in tab'.fetches : g.last /\ h.last => g = h
      <3>1. \A g \in tab.fetches \ {f} : g.last => ~f.last
        BY <2>0
      <3>2. [f EXCEPT !.waiting = rest].last = f.last
        BY <1>2
      <3> DEFINE e == [f EXCEPT !.waiting = rest]
      <3> HIDE DEF e
      <3>3. e.last = f.last /\ fetches = (tab.fetches \ {f}) \cup {e}
        BY <2>2, <3>2 DEF e
      <3> QED
        BY <1>4, <2>0, <3>1, <3>3
    <2> QED
      BY <1>1, <2>1, <2>2
  <1> QED
    BY <1>0, <1>4, <1>7, <1>8, FetchEdit

\* The fetches stay as they are while the socket or a call changes.  A tab that
\* hears of something has a message or a closure waiting, or has its news.
LEMMA FeedEdit ==
    ASSUME IndInv, news' \in Nat, news <= news', tab' \in Tabs(Names, news'),
           SameChoice(tab, tab'), SameFetches(tab, tab'),
           tab'.keySees = tab.keySees, tab'.filters = tab.filters,
           tab'.purging \in {tab.purging, None} \/ tab'.purging.project = tab.selected,
           \A i \in DOMAIN tab'.closing : Stands(tab, tab'.closing[i]),
           FeedOf(tab'),
           ~tab'.paused /\ tab'.wire = <<>> /\ tab'.closing = <<>> =>
              ~tab.paused /\ tab.wire = <<>> /\ tab.closing = <<>> /\ tab'.heard = tab.heard,
           UNCHANGED <<stored, storedFilters>>
    PROVE  StepOK
  <1>0. LastOf(tab)
    BY Context
  <1>1. Fetched(tab') = Fetched(tab)
    BY DEF Fetched, SameFetches
  <1>2. LastOf(tab')
    BY <1>0, <1>1 DEF LastOf, SameChoice, SameFetches
  <1> QED
    BY <1>2, EditStep DEF SameFetches

\* A socket opens.
LEMMA OpenStep == IndInv /\ SocketOpens => StepOK
  <1> SUFFICES ASSUME IndInv, SocketOpens
               PROVE  StepOK
    OBVIOUS
  <1>0. /\ tab \in Tabs(Names, news) /\ FeedOf(tab) /\ news \in Nat
        /\ tab' = [tab EXCEPT !.socket = "open"] /\ UNCHANGED <<stored, storedFilters, news>>
    BY Context DEF SocketOpens
  <1>1. /\ tab' \in Tabs(Names, news) /\ SameChoice(tab, tab') /\ SameFetches(tab, tab') /\ SameRest(tab, tab')
        /\ tab'.paused = tab.paused /\ tab'.buffered = tab.buffered /\ tab'.wire = tab.wire
        /\ tab'.closing = tab.closing /\ tab'.heard = tab.heard /\ tab'.socket = "open"
    BY <1>0 DEF Tabs, SameChoice, SameFetches, SameRest
  <1>2. FeedOf(tab')
    BY <1>0, <1>1 DEF FeedOf
  <1>3. news' \in Nat /\ news <= news' /\ tab' \in Tabs(Names, news')
    BY <1>0, <1>1
  <1> QED
    BY <1>0, <1>1, <1>2, <1>3, OwnClosures, FeedEdit DEF SameRest

\* What waits and what was heard of may be anything of its kind.
LEMMA OtherNews ==
    ASSUME NEW N, NEW n, NEW s \in Tabs(N, n), NEW wire \in Seq({"ingested", "deleted"}), NEW heard \in 0..n
    PROVE  [s EXCEPT !.wire = wire, !.heard = heard] \in Tabs(N, n)
  BY DEF Tabs

\* A tab that is told of a change has it before it, on the wire or in a closure
\* that will fetch.
LEMMA ToldFacts ==
    ASSUME IndInv, news' = news + 1, NEW m \in {"ingested", "deleted"}, NEW t, t = Told(tab, m)
    PROVE  /\ news' \in Nat /\ news <= news' /\ t \in Tabs(Names, news')
           /\ SameChoice(tab, t) /\ SameFetches(tab, t) /\ SameRest(tab, t) /\ FeedOf(t)
           /\ t.paused = tab.paused /\ t.closing = tab.closing
           /\ t.wire = <<>> /\ t.closing = <<>> =>
                 tab.wire = <<>> /\ tab.closing = <<>> /\ t.heard = tab.heard
  <1> DEFINE wire == IF tab.socket = "open" THEN Append(tab.wire, m) ELSE tab.wire
             heard == IF Listens(tab) THEN news + 1 ELSE tab.heard
  <1>0. /\ tab \in Tabs(Names, news) /\ FeedOf(tab) /\ news \in Nat
        /\ tab.wire \in Seq({"ingested", "deleted"}) /\ tab.heard \in 0..news
    BY Context DEF Tabs
  <1>1. t = [tab EXCEPT !.wire = wire, !.heard = heard]
    BY DEF Told
  <1>2. /\ wire \in Seq({"ingested", "deleted"}) /\ heard \in 0..news'
        /\ news' \in Nat /\ news <= news' /\ tab \in Tabs(Names, news')
    <2>1. news' \in Nat /\ news <= news' /\ heard \in 0..news'
      BY <1>0
    <2>2. wire \in Seq({"ingested", "deleted"})
      BY <1>0, AppendProperties
    <2> QED
      BY <1>0, <2>1, <2>2, TabsGrow
  <1>3. (tab.socket = "open" => wire # <<>>) /\ (tab.socket # "open" => wire = tab.wire)
    BY <1>0, AppendProperties, EmptySeq
  <1>4. tab.socket # "open" /\ tab.closing = <<>> => heard = tab.heard
    BY DEF Listens
  <1> HIDE DEF wire, heard
  <1>5. t \in Tabs(Names, news')
    <2>1. [tab EXCEPT !.wire = wire, !.heard = heard] \in Tabs(Names, news')
      BY <1>2, OtherNews
    <2> QED
      BY <1>1, <2>1
  <1>6. /\ t.paused = tab.paused /\ t.buffered = tab.buffered /\ t.wire = wire
        /\ t.closing = tab.closing /\ t.heard = heard /\ t.socket = tab.socket
    BY <1>1, <1>2 DEF Tabs
  <1>7. SameChoice(tab, t) /\ SameFetches(tab, t) /\ SameRest(tab, t)
    BY <1>1, <1>2 DEF Tabs, SameChoice, SameFetches, SameRest
  <1>8. FeedOf(t)
    BY <1>0, <1>3, <1>6 DEF FeedOf
  <1> QED
    BY <1>2, <1>3, <1>4, <1>5, <1>6, <1>7, <1>8

\* A broadcast.
LEMMA BroadcastStep == \A m \in {"ingested", "deleted"} : IndInv /\ Broadcast(m) => StepOK
  <1> SUFFICES ASSUME NEW m \in {"ingested", "deleted"}, IndInv, Broadcast(m)
               PROVE  StepOK
    OBVIOUS
  <1>1. tab' = Told(tab, m) /\ news' = news + 1 /\ UNCHANGED <<stored, storedFilters>>
    BY DEF Broadcast
  <1>2. /\ news' \in Nat /\ news <= news' /\ tab' \in Tabs(Names, news')
        /\ SameChoice(tab, tab') /\ SameFetches(tab, tab') /\ SameRest(tab, tab') /\ FeedOf(tab')
        /\ tab'.paused = tab.paused /\ tab'.closing = tab.closing
        /\ tab'.wire = <<>> /\ tab'.closing = <<>> =>
              tab.wire = <<>> /\ tab.closing = <<>> /\ tab'.heard = tab.heard
    BY <1>1, ToldFacts
  <1> QED
    BY <1>1, <1>2, OwnClosures, FeedEdit DEF SameRest

\* handlePurge: the tab is told too, and keeps the closure that was clicked.
LEMMA PurgeStep == IndInv /\ Purge => StepOK
  <1> SUFFICES ASSUME IndInv, Purge
               PROVE  StepOK
    OBVIOUS
  <1> DEFINE t == Told(tab, "deleted")
  <1>1. tab' = [t EXCEPT !.purging = Sees(tab)] /\ news' = news + 1 /\ UNCHANGED <<stored, storedFilters>>
    BY DEF Purge
  <1>2. /\ news' \in Nat /\ news <= news' /\ t \in Tabs(Names, news')
        /\ SameChoice(tab, t) /\ SameFetches(tab, t) /\ SameRest(tab, t) /\ FeedOf(t)
        /\ t.paused = tab.paused /\ t.closing = tab.closing
        /\ t.wire = <<>> /\ t.closing = <<>> =>
              tab.wire = <<>> /\ tab.closing = <<>> /\ t.heard = tab.heard
    BY <1>1, ToldFacts
  <1> HIDE DEF t
  <1>3. Sees(tab) \in Closures(Names) /\ Sees(tab).project = tab.selected
    BY SeesFacts
  <1>4. tab' \in Tabs(Names, news')
    BY <1>1, <1>2, <1>3 DEF Tabs
  <1>5. SameChoice(t, tab') /\ SameFetches(t, tab') /\ SameFeed(t, tab')
        /\ tab'.keySees = t.keySees /\ tab'.filters = t.filters /\ tab'.purging = Sees(tab)
    BY <1>1, <1>2, <1>3 DEF Tabs, SameChoice, SameFetches, SameFeed
  <1>6. SameChoice(tab, tab') /\ SameFetches(tab, tab') /\ FeedOf(tab')
        /\ tab'.keySees = tab.keySees /\ tab'.filters = tab.filters
        /\ tab'.closing = tab.closing /\ tab'.paused = tab.paused
    BY <1>2, <1>5 DEF SameChoice, SameFetches, SameFeed, SameRest, FeedOf
  <1>7. tab'.wire = <<>> /\ tab'.closing = <<>> =>
              tab.wire = <<>> /\ tab.closing = <<>> /\ tab'.heard = tab.heard
    BY <1>2, <1>5 DEF SameFeed
  <1> QED
    BY <1>1, <1>2, <1>3, <1>4, <1>5, <1>6, <1>7, OwnClosures, FeedEdit

\* The purge is answered: its closure waits for its timer.
LEMMA PurgedStep == IndInv /\ Purged => StepOK
  <1> SUFFICES ASSUME IndInv, Purged
               PROVE  StepOK
    OBVIOUS
  <1> DEFINE closing == Append(tab.closing, tab.purging)
  <1>0. /\ tab \in Tabs(Names, news) /\ FeedOf(tab) /\ news \in Nat
        /\ tab' = [tab EXCEPT !.closing = closing, !.purging = None]
        /\ UNCHANGED <<stored, storedFilters, news>>
    BY Context DEF Purged
  <1>1. tab.purging \in Closures(Names) /\ Stands(tab, tab.purging)
    BY <1>0 DEF Purged, Tabs, Stands
  <1>2. closing \in Seq(Closures(Names)) /\ closing # <<>> /\ \A i \in DOMAIN closing : Stands(tab, closing[i])
    BY <1>0, <1>1, OneMoreClosure
  <1> HIDE DEF closing
  <1>3. /\ tab' \in Tabs(Names, news) /\ SameChoice(tab, tab') /\ SameFetches(tab, tab')
        /\ tab'.keySees = tab.keySees /\ tab'.filters = tab.filters /\ tab'.purging = None
        /\ tab'.paused = tab.paused /\ tab'.buffered = tab.buffered /\ tab'.wire = tab.wire
        /\ tab'.closing = closing /\ tab'.socket = tab.socket
    BY <1>0, <1>2 DEF Tabs, SameChoice, SameFetches
  <1>4. FeedOf(tab') /\ news' \in Nat /\ news <= news' /\ tab' \in Tabs(Names, news')
    BY <1>0, <1>3 DEF FeedOf
  <1> QED
    BY <1>0, <1>2, <1>3, <1>4, FeedEdit

\* The purge fails: nothing will be called.
LEMMA PurgeFailsStep == IndInv /\ PurgeFails => StepOK
  <1> SUFFICES ASSUME IndInv, PurgeFails
               PROVE  StepOK
    OBVIOUS
  <1>0. /\ tab \in Tabs(Names, news) /\ FeedOf(tab) /\ news \in Nat
        /\ tab' = [tab EXCEPT !.purging = None]
        /\ UNCHANGED <<stored, storedFilters, news>>
    BY Context DEF PurgeFails
  <1>1. /\ tab' \in Tabs(Names, news) /\ SameChoice(tab, tab') /\ SameFetches(tab, tab') /\ SameFeed(tab, tab')
        /\ tab'.keySees = tab.keySees /\ tab'.filters = tab.filters /\ tab'.purging = None
    BY <1>0 DEF Tabs, SameChoice, SameFetches, SameFeed
  <1>2. FeedOf(tab') /\ news' \in Nat /\ news <= news' /\ tab' \in Tabs(Names, news')
    BY <1>0, <1>1 DEF FeedOf, SameFeed
  <1> QED
    BY <1>0, <1>1, <1>2, OwnClosures, FeedEdit DEF SameFeed

\* The server's end of the socket goes away, and its onclose will fetch.
LEMMA DropStep == IndInv /\ SocketDrops => StepOK
  <1> SUFFICES ASSUME IndInv, SocketDrops
               PROVE  StepOK
    OBVIOUS
  <1> DEFINE closing == Append(tab.closing, Sees(tab))
  <1>0. /\ tab \in Tabs(Names, news) /\ FeedOf(tab) /\ news \in Nat /\ tab.closing \in Seq(Closures(Names))
        /\ tab' = [tab EXCEPT !.socket = "closed", !.wire = <<>>, !.closing = closing]
        /\ UNCHANGED <<stored, storedFilters, news>>
    BY Context DEF SocketDrops, Tabs
  <1>1. closing \in Seq(Closures(Names)) /\ closing # <<>> /\ \A i \in DOMAIN closing : Stands(tab, closing[i])
    <2>1. Sees(tab) \in Closures(Names) /\ Stands(tab, Sees(tab))
      BY SeesFacts DEF Stands
    <2> QED
      BY <1>0, <2>1, OneMoreClosure
  <1> HIDE DEF closing
  <1>2. /\ tab' \in Tabs(Names, news) /\ SameChoice(tab, tab') /\ SameFetches(tab, tab') /\ SameRest(tab, tab')
        /\ tab'.paused = tab.paused /\ tab'.buffered = tab.buffered /\ tab'.wire = <<>>
        /\ tab'.closing = closing /\ tab'.socket = "closed"
    <2>1. closing \in Seq(Closures(Names)) /\ <<>> \in Seq({"ingested", "deleted"})
      BY <1>1, EmptySeq
    <2> QED
      BY <1>0, <2>1 DEF Tabs, SameChoice, SameFetches, SameRest
  <1>3. FeedOf(tab')
    BY <1>0, <1>2 DEF FeedOf
  <1>4. news' \in Nat /\ news <= news' /\ tab' \in Tabs(Names, news')
    BY <1>0, <1>2
  <1> QED
    BY <1>0, <1>1, <1>2, <1>3, <1>4, FeedEdit DEF SameRest

\* A workspace is made or deleted at the server, for the tab.
LEMMA CallSteps ==
    \A w \in Workspaces : IndInv /\ (CreateProject(w) \/ DeleteProject(w)) => StepOK
  <1> SUFFICES ASSUME NEW w \in Workspaces, IndInv, CreateProject(w) \/ DeleteProject(w)
               PROVE  StepOK
    OBVIOUS
  <1>0. /\ tab \in Tabs(Names, news) /\ FeedOf(tab) /\ news \in Nat
        /\ UNCHANGED <<stored, storedFilters, news>>
    BY Context DEF CreateProject, DeleteProject
  <1>1. PICK op \in {"create", "delete"} : tab' = [tab EXCEPT !.calling = [op |-> op, id |-> w]]
    BY DEF CreateProject, DeleteProject
  <1>2. /\ tab' \in Tabs(Names, news) /\ SameChoice(tab, tab') /\ SameFetches(tab, tab') /\ SameFeed(tab, tab')
        /\ tab'.filters = tab.filters /\ tab'.keySees = tab.keySees /\ tab'.purging = tab.purging
    BY <1>0, <1>1 DEF Tabs, SameChoice, SameFetches, SameFeed
  <1>3. FeedOf(tab')
    BY <1>0, <1>2 DEF FeedOf, SameFeed
  <1>4. news' \in Nat /\ news <= news' /\ tab' \in Tabs(Names, news')
    BY <1>0, <1>2
  <1> QED
    BY <1>0, <1>2, <1>3, <1>4, OwnClosures, FeedEdit DEF SameFeed

\* Another tab, or somebody else: the tab stays as it is, and a workspace that
\* another tab stores is not the tab's own.
LEMMA OtherSteps ==
    IndInv /\ (UNCHANGED vars \/ (\E w \in Ids : OtherFetches(w)) \/ \E w \in Workspaces : OtherDeletes(w))
        => StepOK
  <1> SUFFICES ASSUME IndInv, \/ UNCHANGED vars
                              \/ \E w \in Ids : OtherFetches(w)
                              \/ \E w \in Workspaces : OtherDeletes(w)
               PROVE  StepOK
    OBVIOUS
  <1>0. /\ tab \in Tabs(Names, news) /\ Calm(tab) /\ Held(tab, stored) /\ KeptOf(tab) /\ news \in Nat
        /\ stored \in [id : Names \cup {None}, by : {"own", "other"}] /\ storedFilters \in Filters
    BY Context
  <1>1. UNCHANGED <<storedFilters, tab, news>>
    BY DEF vars, OtherFetches, OtherDeletes
  <1>2. stored' = stored \/ \E w \in Names : stored' = [id |-> w, by |-> "other"]
    <2>1. ASSUME NEW w \in Ids, OtherFetches(w)
          PROVE  stored' = stored \/ \E x \in Names : stored' = [id |-> x, by |-> "other"]
      <3>1. w \in Names
        BY <2>1, RangeOfSeq, DashboardAssumption DEF OtherFetches, Names
      <3> QED
        BY <2>1, <3>1 DEF OtherFetches
    <2> QED
      BY <2>1 DEF vars, OtherDeletes
  <1>3. stored' \in [id : Names \cup {None}, by : {"own", "other"}] /\ Held(tab, stored')
    BY <1>0, <1>2 DEF Held
  <1>4. tab' \in Tabs(Names, news') /\ news' \in Nat /\ news <= news'
    BY <1>0, <1>1
  <1> QED
    BY <1>0, <1>1, <1>3, <1>4 DEF StepOK

-----------------------------------------------------------------------------
(* The invariant.                                                          *)

\* The dashboard starts in it.
LEMMA InitInvariant == Init => IndInv
  <1> SUFFICES ASSUME Init
               PROVE  IndInv
    OBVIOUS
  <1>1. PICK w \in Range(Existing) \cup {None}, f \in Filters :
           /\ news = 0 /\ listed = Existing /\ stored = [id |-> w, by |-> "own"]
           /\ storedFilters = f /\ tab = Loaded(w, f, None)
    BY DEF Init
  <1>2. Existing \in Seq(Ids) /\ Range(Existing) \subseteq Workspaces
    BY DashboardAssumption, RangeOfSeq DEF Ids
  <1>3. GhostsBehind(Existing)
    <2>1. \A i \in DOMAIN Existing : Existing[i] \in Workspaces
      BY <1>2 DEF Range
    <2> QED
      BY <2>1, GhostFacts DEF GhostsBehind
  <1>4. Listing(listed)
    BY <1>1, <1>2, <1>3, DashboardAssumption DEF Listing
  <1>5. Names \subseteq Ids /\ Default \in Names /\ w \in Names \cup {None} /\ news \in Nat
    BY <1>1, <1>2, GhostFacts, DashboardAssumption DEF Names
  <1>6. /\ tab \in Tabs(Names, news) /\ Calm(tab) /\ KeptOf(tab) /\ Held(tab, stored)
    <2> HIDE DEF Names
    <2> QED
      BY <1>1, <1>5, LoadedFacts
  <1> QED
    BY <1>1, <1>4, <1>5, <1>6 DEF IndInv, Shape

\* Every step does to the tab what the steps do that are told apart above.
LEMMA EveryStep == IndInv /\ [Next]_vars => StepOK
  <1> SUFFICES ASSUME IndInv, [Next]_vars
               PROVE  StepOK
    OBVIOUS
  <1>1. CASE ListServed \/ ListSettles \/ ListFails
    BY <1>1, ListSteps, ListSettlesStep
  <1>2. ASSUME NEW f \in tab.fetches, (\E p \in Parts : Answered(f, p)) \/ FetchFails(f)
        PROVE  StepOK
    BY <1>2, FetchSteps
  <1>3. CASE SocketOpens \/ MessageArrives \/ SocketDrops
    BY <1>3, OpenStep, MessageStep, DropStep
  <1>4. ASSUME NEW i \in DOMAIN tab.closing, TimerFires(i)
        PROVE  StepOK
    BY <1>4, TimerStep
  <1>5. ASSUME NEW m \in {"ingested", "deleted"}, Broadcast(m)
        PROVE  StepOK
    BY <1>5, BroadcastStep
  <1>6. CASE ManualRefresh \/ PauseButton \/ PauseKey \/ ReloadPage
    BY <1>6, RefreshStep, PauseSteps, ReloadStep
  <1>7. ASSUME NEW f \in Filters, SetFilters(f)
        PROVE  StepOK
    BY <1>7, FilterStep
  <1>8. CASE ProjectCreated \/ ProjectDeleted \/ \E w \in Ids : SelectProject(w)
    BY <1>8, SelectSteps, DeletedStep
  <1>9. ASSUME NEW w \in Workspaces, CreateProject(w) \/ DeleteProject(w)
        PROVE  StepOK
    BY <1>9, CallSteps
  <1>11. CASE Purge \/ Purged \/ PurgeFails
    BY <1>11, PurgeStep, PurgedStep, PurgeFailsStep
  <1>10. CASE UNCHANGED vars \/ (\E w \in Ids : OtherFetches(w)) \/ \E w \in Workspaces : OtherDeletes(w)
    BY <1>10, OtherSteps
  <1> QED
    BY <1>1, <1>2, <1>3, <1>4, <1>5, <1>6, <1>7, <1>8, <1>9, <1>10, <1>11 DEF Next

\* The server's list keeps its shape, and no name is forgotten that the tab
\* may still know: a ghost keeps its workspace's name in use.
LEMMA EveryList == IndInv /\ [Next]_vars => ListGrows
  <1> SUFFICES ASSUME IndInv, [Next]_vars
               PROVE  ListGrows
    OBVIOUS
  <1>0. Listing(listed) /\ tab \in Tabs(Names, news)
    BY DEF IndInv, Shape
  <1>1. CASE UNCHANGED listed
    BY <1>0, <1>1, ListKinds
  <1>2. ASSUME NEW f \in tab.fetches, NEW p \in Parts, Answered(f, p)
        PROVE  ListGrows
    <2>1. f.header \in Names
      BY <1>0 DEF Tabs, Fetches
    <2> QED
      BY <1>0, <1>2, <2>1, ListKinds DEF Answered
  <1>3. ASSUME NEW w \in Ids, OtherFetches(w)
        PROVE  ListGrows
    <2>1. w \in Names
      BY <1>3, RangeOfSeq, DashboardAssumption DEF OtherFetches, Names
    <2> QED
      BY <1>0, <1>3, <2>1, ListKinds DEF OtherFetches
  <1>4. ASSUME NEW w \in Workspaces, CreateProject(w)
        PROVE  ListGrows
    <2>1. w \in Workspaces \ Range(listed) /\ listed' = <<w>> \o listed
      BY <1>4 DEF CreateProject
    <2> QED
      BY <1>0, <2>1, ListKinds
  <1>5. ASSUME NEW w \in Workspaces, DeleteProject(w) \/ OtherDeletes(w)
        PROVE  ListGrows
    <2>1. listed' = Without(listed, w)
      BY <1>5 DEF DeleteProject, OtherDeletes
    <2> QED
      BY <1>0, <2>1, ListKinds
  <1>6. CASE Purge
    <2>1. tab.client \in Names /\ listed' = Resolved(tab.client)
      BY <1>0, <1>6 DEF Tabs, Purge
    <2> QED
      BY <1>0, <2>1, ListKinds
  <1> QED
    BY <1>1, <1>2, <1>3, <1>4, <1>5, <1>6
    DEF Next, vars, ListServed, ListSettles, ListFails, FetchFails, SocketOpens, MessageArrives, SocketDrops,
        TimerFires, Broadcast, ManualRefresh, PauseButton, PauseKey, ToggleFeedPause, ReloadPage, SetFilters,
        SelectProject, ProjectCreated, ProjectDeleted, Purged, PurgeFails

\* Every step keeps it.
LEMMA StepInvariant == IndInv /\ [Next]_vars => IndInv'
  <1> SUFFICES ASSUME IndInv, [Next]_vars
               PROVE  IndInv'
    OBVIOUS
  <1>1. StepOK /\ ListGrows
    BY EveryStep, EveryList
  <1>2. Names \subseteq Names'
    BY <1>1 DEF ListGrows
  <1>3. Tabs(Names, news') \subseteq Tabs(Names', news')
    <2>1. \A N, M : N \subseteq M => \A n, m \in Nat : n <= m => Tabs(N, n) \subseteq Tabs(M, m)
      BY TabsGrow
    <2>2. news' \in Nat /\ news' <= news'
      BY <1>1 DEF StepOK
    <2> QED
      BY <1>2, <2>1, <2>2
  <1>4. tab' \in Tabs(Names', news')
    BY <1>1, <1>3 DEF StepOK
  <1>5. stored' \in [id : Names' \cup {None}, by : {"own", "other"}]
    BY <1>1, <1>2 DEF StepOK
  <1>6. Shape'
    <2>1. Listing(listed)' /\ (storedFilters \in Filters)' /\ (news \in Nat)'
      BY <1>1 DEF StepOK, ListGrows, Listing, GhostsBehind
    <2>2. (tab \in Tabs(Names, news))'
      BY <1>4 DEF Tabs, Fetches, Closures
    <2> QED
      BY <1>5, <2>1, <2>2 DEF Shape
  <1>7. (Calm(tab) /\ Held(tab, stored) /\ KeptOf(tab))'
    BY <1>1 DEF StepOK, Calm, Held, KeptOf, ListOf, FeedOf, HeaderOf, LastOf, Fetched, GhostsBehind
  <1> QED
    BY <1>6, <1>7 DEF IndInv

-----------------------------------------------------------------------------
(* The theorems.                                                           *)

\* The invariant holds in every state of every behaviour.
THEOREM Invariance == Spec => []IndInv
  BY InitInvariant, StepInvariant, PTL DEF Spec

\* The state of the tab has the shape App.tsx gives it, and one fetch at most
\* under way is the one that was made last.
THEOREM TypeCorrect == Spec => []TypeOK
  <1>1. ASSUME IndInv
        PROVE  TypeOK
    <2> DEFINE newest == {f \in tab.fetches : f.last}
    <2>0. /\ Listing(listed) /\ tab \in Tabs(Names, news) /\ FeedOf(tab) /\ LastOf(tab) /\ Names \subseteq Ids
          /\ stored \in [id : Names \cup {None}, by : {"own", "other"}] /\ storedFilters \in Filters
          /\ news \in Nat
      BY <1>1, Context DEF IndInv, Shape
    <2>1. /\ tab.client \in Ids /\ tab.selected \in Ids \cup {None} /\ tab.projects \in Seq(Ids)
          /\ tab.filters \in Filters /\ tab.paused \in BOOLEAN
          /\ tab.socket \in {"opening", "open", "closed"} /\ tab.fetches \subseteq Fetches(Names, news)
      <3>1. tab.projects \in Seq(Names) /\ Seq(Names) \subseteq Seq(Ids)
        BY <2>0 DEF Tabs
      <3> QED
        BY <2>0, <3>1 DEF Tabs
    <2>2. \A f \in tab.fetches : f.header \in Ids /\ f.asOf <= news
      BY <2>0, <2>1 DEF Fetches
    <2>3. Cardinality(newest) <= 1
      <3>1. CASE newest = {}
        BY <3>1, FS_EmptySet
      <3>2. ASSUME NEW f \in newest
            PROVE  Cardinality(newest) <= 1
        <4>1. newest = {f}
          BY <2>0 DEF LastOf
        <4> QED
          BY <4>1, FS_Singleton
      <3> QED
        BY <3>1, <3>2
    <2>4. stored \in [id : Ids \cup {None}, by : {"own", "other"}]
      BY <2>0
    <2> QED
      BY <2>0, <2>1, <2>2, <2>3, <2>4 DEF TypeOK, Listing, FeedOf
  <1> QED
    BY <1>1, Invariance, PTL

\* What is on the screen when nothing is under way is of the selected workspace
\* and the filters, and requests name that workspace, but for answers that were
\* overtaken and the three handlers that keep an old fetchData.
THEOREM ScreenIsExplained == Spec => []ScreenExplained
  <1>1. ASSUME IndInv
        PROVE  ScreenExplained
    <2>0. HeaderOf(tab) /\ LastOf(tab)
      BY <1>1, Context
    <2>1. ShownExplained
      <3>1. tab.shown # None => tab.shown \in Fetched(tab)
        BY DEF Fetched
      <3> QED
        BY <2>0, <3>1 DEF ShownExplained, LastOf
    <2>2. HeaderExplained
      BY <2>0 DEF HeaderExplained, HeaderOf
    <2> QED
      BY <2>1, <2>2 DEF ScreenExplained
  <1> QED
    BY <1>1, Invariance, PTL

\* A workspace the user picked is the one the tab shows after the reload.
THEOREM PicksKept == Spec => []ChoiceKept
  <1>1. ASSUME IndInv
        PROVE  ChoiceKept
    BY <1>1, Context DEF ChoiceKept, KeptOf
  <1> QED
    BY <1>1, Invariance, PTL

\* A tab at rest whose feed is not paused has asked again since the last
\* broadcast that reached it.
THEOREM NothingForgotten == Spec => []CaughtUp
  <1>1. ASSUME IndInv
        PROVE  CaughtUp
    <2>1. tab.shown # None => tab.shown \in Fetched(tab)
      BY DEF Fetched
    <2> QED
      BY <1>1, <2>1, Context DEF CaughtUp, LastOf
  <1> QED
    BY <1>1, Invariance, PTL

=============================================================================
