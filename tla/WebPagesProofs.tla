--------------------------- MODULE WebPagesProofs ---------------------------
(***************************************************************************)
(* Proofs about the two pages: first about Settings, for any currencies    *)
(* and rates, any catalog, any workspaces, and any bound on the events;    *)
(* then about TraceViewer, for any traces whose spans and sums are what    *)
(* IsTrace says, with any number of spans in any hierarchy; last about     *)
(* both as MCWebPages puts them beside each other.                         *)
(***************************************************************************)
EXTENDS MCWebPages, FiniteSetTheorems, SequenceTheorems, WellFoundedInduction, NaturalsInduction,
        TLAPS

-----------------------------------------------------------------------------
(* The inductive invariant.                                                *)

\* A rate the user saved is kept until that currency is picked again, and the
\* currency that was picked has a rate of its own.
RatesOf(s, k) ==
    /\ \A c \in Currencies : k[c] # 0 => s.custom[c] = k[c]
    /\ s.code # None => s.custom[s.code] > 0

\* The page shows the currency that amounts are shown in.
MoneyOf(p, s, t) == p.on /\ ~p.foreign => p.currency = ActiveCurrency(s, t)

\* Neither the catalog on the screen nor the one that is kept repeats a model,
\* and the calculator has its row unless that was removed.
CatalogOf(p, s) ==
    /\ Distinct(p.catalog) /\ Distinct(s.pricing)
    /\ p.on => p.catalog = StoredCatalog(s) \/ p.apart \/ p.catalog = <<>>
    /\ p.lost \/ HasRow(p.catalog, p.sim)

\* KeysStay of a page.
KeysOf(p, s, cs) ==
    p.on => /\ \A w \in p.given : p.revealed[w] # 0
            /\ p.overwritten \/ s.keys = p.revealed
            /\ p.loading # None => \E c \in cs : c.here /\ c.kind = "key"
            /\ p.syncing <=> \E c \in cs : c.here /\ c.kind = "fx"

\* WordsTyped of a page.
WordsOf(p) ==
    /\ p.delete.ws # None /\ p.delete.words => p.delete.wordsFor = p.delete.ws
    /\ p.purge.ws # None /\ p.purge.words => p.purge.wordsFor = p.purge.ws

\* A page that is left waits for nothing, and a page has one sync at a time.
WaitsOf(p, cs) ==
    /\ \A c \in cs : c.here => p.on
    /\ \A c, d \in cs : c.here /\ d.here /\ c.kind = "fx" /\ d.kind = "fx" => c = d

IndInv ==
    /\ PageTyped
    /\ RatesOf(store, kept) /\ MoneyOf(page, store, table) /\ CatalogOf(page, store)
    /\ KeysOf(page, store, calls) /\ WordsOf(page) /\ WaitsOf(page, calls)

-----------------------------------------------------------------------------
(* Catalogs.                                                               *)

Before(chosen, i) == {j \in chosen : j < i}
Rank(chosen, i) == Cardinality(Before(chosen, i))

\* Ranks number the elements of a finite set of numbers from 0 upwards.
LEMMA Ranks ==
    ASSUME NEW chosen \in SUBSET Nat, IsFiniteSet(chosen)
    PROVE  /\ \A i \in chosen : Rank(chosen, i) \in 0..(Cardinality(chosen) - 1)
           /\ \A i, k \in chosen : Rank(chosen, i) = Rank(chosen, k) => i = k
           /\ \A n \in 1..Cardinality(chosen) : \E i \in chosen : Rank(chosen, i) = n - 1
  <1> DEFINE c == Cardinality(chosen)
             rank == [i \in chosen |-> Rank(chosen, i)]
  <1>0. c \in Nat /\ \A i \in chosen : i \in Nat
    BY FS_CardinalityType
  <1>1. ASSUME NEW i \in chosen
        PROVE  IsFiniteSet(Before(chosen, i)) /\ Rank(chosen, i) \in Nat
    <2>1. Before(chosen, i) \in SUBSET chosen
      BY DEF Before
    <2>2. IsFiniteSet(Before(chosen, i))
      BY <2>1, FS_Subset
    <2> QED
      BY <2>2, FS_CardinalityType DEF Rank
  <1>2. ASSUME NEW i \in chosen, NEW k \in chosen, i < k
        PROVE  Rank(chosen, i) < Rank(chosen, k)
    <2>1. Before(chosen, i) \cup {i} \in SUBSET Before(chosen, k) /\ i \notin Before(chosen, i)
      <3>1. \A j \in chosen : j < i => j < k
        BY <1>0, <1>2
      <3>2. ~(i < i)
        BY <1>0
      <3> QED
        BY <1>2, <3>1, <3>2 DEF Before
    <2>2. Cardinality(Before(chosen, i) \cup {i}) = Rank(chosen, i) + 1
      BY <1>1, <2>1, FS_AddElement DEF Rank
    <2>3. Cardinality(Before(chosen, i) \cup {i}) <= Rank(chosen, k)
      BY <1>1, <2>1, FS_Subset DEF Rank
    <2> QED
      BY <1>1, <2>2, <2>3
  <1>3. ASSUME NEW i \in chosen
        PROVE  Rank(chosen, i) \in 0..(c - 1)
    <2>1. Before(chosen, i) \in SUBSET (chosen \ {i})
      <3>1. ~(i < i)
        BY <1>0
      <3> QED
        BY <3>1 DEF Before
    <2>2. IsFiniteSet(chosen \ {i}) /\ Cardinality(chosen \ {i}) = c - 1
      BY FS_RemoveElement
    <2>3. Rank(chosen, i) <= c - 1
      BY <2>1, <2>2, FS_Subset DEF Rank
    <2> QED
      BY <1>0, <1>1, <2>3
  <1>4. ASSUME NEW i \in chosen, NEW k \in chosen, Rank(chosen, i) = Rank(chosen, k)
        PROVE  i = k
    <2>1. i = k \/ i < k \/ k < i
      BY <1>0
    <2>2. Rank(chosen, i) \in Nat /\ Rank(chosen, k) \in Nat
      BY <1>1
    <2>3. ~(Rank(chosen, i) < Rank(chosen, k)) /\ ~(Rank(chosen, k) < Rank(chosen, i))
      BY <1>4, <2>2
    <2> QED
      BY <1>2, <2>1, <2>3
  <1> HIDE DEF c
  <1>5. rank \in Injection(chosen, 0..(c - 1))
    BY <1>3, <1>4 DEF Injection, IsInjective
  <1>6. IsFiniteSet(0..(c - 1)) /\ Cardinality(0..(c - 1)) = c
    BY <1>0, FS_Interval
  <1>7. rank \in Surjection(chosen, 0..(c - 1))
    <2> HIDE DEF rank
    <2> QED
      BY <1>5, <1>6, FS_Injection DEF c
  <1>8. ASSUME NEW n \in 1..c
        PROVE  \E i \in chosen : Rank(chosen, i) = n - 1
    <2>1. n - 1 \in 0..(c - 1)
      BY <1>0
    <2> QED
      BY <1>7, <2>1 DEF Surjection
  <1> QED
    BY <1>3, <1>4, <1>8 DEF c

\* What is left without a model is a catalog that has every other model once
\* if it did before.
LEMMA WithoutFacts ==
    ASSUME NEW s \in Seq(Rows), NEW m
    PROVE  /\ Without(s, m) \in Seq(Rows)
           /\ \A n \in DOMAIN Without(s, m) : Without(s, m)[n].model # m
           /\ Distinct(s) => Distinct(Without(s, m))
           /\ \A k : k # m /\ HasRow(s, k) => HasRow(Without(s, m), k)
  <1> DEFINE others == {i \in DOMAIN s : s[i].model # m}
             c == Cardinality(others)
             at(n) == CHOOSE i \in others : Rank(others, i) = n - 1
             f == Without(s, m)
  <1>0. DOMAIN s = 1..Len(s) /\ Len(s) \in Nat /\ \A i \in DOMAIN s : s[i] \in Rows
    BY LenProperties
  <1>1. others \in SUBSET Nat /\ IsFiniteSet(others) /\ c \in Nat
    <2>1. others \in SUBSET (1..Len(s)) /\ IsFiniteSet(1..Len(s))
      BY <1>0, FS_Interval
    <2> QED
      BY <1>0, <2>1, FS_Subset, FS_CardinalityType
  <1>2. f = [n \in 1..c |-> s[at(n)]]
    BY DEF Without, Rank, Before
  <1>3. \A n \in 1..c : \E i \in others : Rank(others, i) = n - 1
    BY <1>1, Ranks
  <1>4. \A n \in 1..c : at(n) \in others /\ Rank(others, at(n)) = n - 1
    <2> HIDE DEF others, c
    <2> QED
      BY <1>3
  <1>5. \A n \in 1..c : s[at(n)] \in Rows /\ s[at(n)].model # m
    BY <1>0, <1>4
  <1> HIDE DEF at, c
  <1>6. f \in Seq(Rows) /\ DOMAIN f = 1..c
    <2>1. [n \in 1..c |-> s[at(n)]] \in Seq(Rows)
      BY <1>1, <1>5
    <2> QED
      BY <1>2, <2>1
  <1>7. ASSUME Distinct(s), NEW n \in 1..c, NEW k \in 1..c, f[n].model = f[k].model
        PROVE  n = k
    <2>1. s[at(n)].model = s[at(k)].model
      BY <1>2, <1>7
    <2>2. at(n) = at(k)
      BY <1>4, <1>7, <2>1 DEF Distinct
    <2>3. n - 1 = k - 1
      BY <1>4, <2>2
    <2> QED
      BY <1>1, <2>3
  <1>8. \A n \in DOMAIN f : f[n].model # m
    BY <1>2, <1>5, <1>6
  <1>9. Distinct(s) => Distinct(f)
    BY <1>6, <1>7 DEF Distinct
  <1>10. ASSUME NEW k, k # m, HasRow(s, k)
         PROVE  HasRow(f, k)
    <2>1. PICK i \in others : s[i].model = k
      BY <1>10 DEF HasRow
    <2>2. Rank(others, i) \in 0..(c - 1)
      BY <1>1, Ranks DEF c
    <2>3. Rank(others, i) + 1 \in 1..c /\ (Rank(others, i) + 1) - 1 = Rank(others, i)
      BY <1>1, <2>2
    <2>4. at(Rank(others, i) + 1) = i
      <3>1. \A j, l \in others : Rank(others, j) = Rank(others, l) => j = l
        BY <1>1, Ranks
      <3>2. /\ at(Rank(others, i) + 1) \in others
            /\ Rank(others, at(Rank(others, i) + 1)) = Rank(others, i)
        BY <1>4, <2>3
      <3> QED
        BY <3>1, <3>2
    <2>5. f[Rank(others, i) + 1] = s[i] /\ Rank(others, i) + 1 \in DOMAIN f
      BY <1>2, <1>6, <2>3, <2>4
    <2> QED
      BY <2>1, <2>5 DEF HasRow
  <1> QED
    BY <1>6, <1>8, <1>9, <1>10

\* A catalog with a row of a model that it lacks in front.
LEMMA AddedFacts ==
    ASSUME NEW row \in Rows, NEW s \in Seq(Rows), Distinct(s),
           \A n \in DOMAIN s : s[n].model # row.model
    PROVE  /\ (<<row>> \o s) \in Seq(Rows)
           /\ Distinct(<<row>> \o s)
           /\ \A k : k = row.model \/ HasRow(s, k) => HasRow(<<row>> \o s, k)
  <1> DEFINE f == <<row>> \o s
  <1>1. <<row>> \in Seq(Rows) /\ Len(<<row>>) = 1 /\ <<row>>[1] = row
    OBVIOUS
  <1>2. /\ f \in Seq(Rows) /\ Len(f) = Len(s) + 1
        /\ \A i \in 1..(1 + Len(s)) : f[i] = IF i <= 1 THEN <<row>>[i] ELSE s[i - 1]
    BY <1>1, ConcatProperties
  <1>3. Len(s) \in Nat /\ DOMAIN s = 1..Len(s) /\ DOMAIN f = 1..(Len(s) + 1)
    BY <1>2, LenProperties
  <1> HIDE DEF f
  <1>4. f[1] = row /\ \A i \in 2..(Len(s) + 1) : f[i] = s[i - 1] /\ i - 1 \in DOMAIN s
    BY <1>1, <1>2, <1>3
  <1>5. ASSUME NEW i \in DOMAIN f, NEW j \in DOMAIN f, f[i].model = f[j].model
        PROVE  i = j
    <2>1. CASE i = 1 /\ j = 1
      BY <2>1
    <2>2. CASE i = 1 /\ j # 1
      <3>1. j \in 2..(Len(s) + 1)
        BY <1>3, <2>2
      <3> QED
        BY <1>4, <1>5, <2>2, <3>1
    <2>3. CASE i # 1 /\ j = 1
      <3>1. i \in 2..(Len(s) + 1)
        BY <1>3, <2>3
      <3> QED
        BY <1>4, <1>5, <2>3, <3>1
    <2>4. CASE i # 1 /\ j # 1
      <3>1. i \in 2..(Len(s) + 1) /\ j \in 2..(Len(s) + 1)
        BY <1>3, <2>4
      <3>2. i - 1 = j - 1
        BY <1>4, <1>5, <3>1 DEF Distinct
      <3> QED
        BY <1>3, <3>1, <3>2
    <2> QED
      BY <2>1, <2>2, <2>3, <2>4
  <1>6. ASSUME NEW k, k = row.model \/ HasRow(s, k)
        PROVE  HasRow(f, k)
    <2>1. CASE k = row.model
      BY <1>3, <1>4, <2>1 DEF HasRow
    <2>2. CASE HasRow(s, k)
      <3>1. PICK i \in DOMAIN s : s[i].model = k
        BY <2>2 DEF HasRow
      <3>2. i + 1 \in 2..(Len(s) + 1) /\ (i + 1) - 1 = i
        BY <1>3
      <3>3. f[i + 1] = s[i] /\ i + 1 \in DOMAIN f
        BY <1>3, <1>4, <3>2
      <3> QED
        BY <3>1, <3>3 DEF HasRow
    <2> QED
      BY <1>6, <2>1, <2>2
  <1> QED
    BY <1>2, <1>5, <1>6 DEF Distinct, f

\* In a catalog without repetition each model has the price of its own row.
LEMMA OwnPrice ==
    ASSUME NEW s \in Seq(Rows), Distinct(s), NEW i \in DOMAIN s
    PROVE  PriceOf(s[i].model, s) = s[i].price
  <1> DEFINE named == {j \in DOMAIN s : s[j].model = s[i].model}
  <1>1. named = {i}
    BY DEF Distinct
  <1>2. i \in Nat
    BY LenProperties
  <1>3. Min({i}) = i
    BY <1>2 DEF Min
  <1>4. named # {} /\ Min(named) = i
    BY <1>1, <1>3
  <1> QED
    BY <1>4 DEF PriceOf

-----------------------------------------------------------------------------
(* What steps leave alone.                                                 *)

SameRates ==
    /\ store'.code = store.code /\ store'.custom = store.custom /\ store'.live = store.live
    /\ table' = table /\ kept' = kept
SameMoney == page'.on = page.on /\ page'.currency = page.currency /\ page'.foreign = page.foreign
SameCatalog ==
    /\ page'.on = page.on /\ page'.catalog = page.catalog /\ page'.apart = page.apart /\ page'.sim = page.sim /\ page'.lost = page.lost
    /\ store'.pricing = store.pricing
SameKeys ==
    /\ page'.on = page.on /\ page'.given = page.given /\ page'.revealed = page.revealed
    /\ page'.overwritten = page.overwritten /\ page'.loading = page.loading
    /\ page'.syncing = page.syncing /\ store'.keys = store.keys
SameModals == page'.delete = page.delete /\ page'.purge = page.purge
Awaited(cs, kind) == {c \in cs : c.here /\ c.kind = kind}
SameWaits ==
    /\ Awaited(calls', "fx") = Awaited(calls, "fx") /\ Awaited(calls', "key") = Awaited(calls, "key")
    /\ \A c \in calls' : c.here => page.on
    /\ page'.on = page.on

\* Each part of the invariant is about a part of the state.
LEMMA Undisturbed ==
    ASSUME IndInv
    PROVE  /\ SameRates => RatesOf(store', kept')
           /\ SameRates /\ SameMoney => MoneyOf(page', store', table')
           /\ SameCatalog => CatalogOf(page', store')
           /\ SameKeys /\ SameWaits => KeysOf(page', store', calls')
           /\ SameModals => WordsOf(page')
           /\ SameWaits => WaitsOf(page', calls')
  <1>1. SameRates => RatesOf(store', kept')
    BY DEF IndInv, SameRates, RatesOf
  <1>2. SameRates => ActiveCurrency(store', table') = ActiveCurrency(store, table)
    BY DEF SameRates, ActiveCurrency
  <1>3. SameRates /\ SameMoney => MoneyOf(page', store', table')
    BY <1>2 DEF IndInv, SameMoney, MoneyOf
  <1>4. SameCatalog => CatalogOf(page', store')
    BY DEF IndInv, SameCatalog, CatalogOf, StoredCatalog
  <1>5. \A cs : /\ (\E c \in cs : c.here /\ c.kind = "key") <=> Awaited(cs, "key") # {}
                /\ (\E c \in cs : c.here /\ c.kind = "fx") <=> Awaited(cs, "fx") # {}
    BY DEF Awaited
  <1>6. SameKeys /\ SameWaits => KeysOf(page', store', calls')
    BY <1>5 DEF IndInv, SameKeys, SameWaits, KeysOf
  <1>7. SameModals => WordsOf(page')
    BY DEF IndInv, SameModals, WordsOf
  <1>8. SameWaits => WaitsOf(page', calls')
    BY DEF IndInv, SameWaits, WaitsOf, Awaited
  <1> QED
    BY <1>1, <1>3, <1>4, <1>6, <1>7, <1>8

\* The two forms of the last parts agree.
LEMMA PartsMakeInv ==
    ASSUME PageTyped', RatesOf(store', kept'), MoneyOf(page', store', table'),
           CatalogOf(page', store'), KeysOf(page', store', calls'), WordsOf(page'),
           WaitsOf(page', calls')
    PROVE  IndInv'
  BY DEF IndInv

-----------------------------------------------------------------------------
(* Currency and pages.                                                     *)

\* The rate that is shown is a number.
LEMMA ActiveType ==
    ASSUME NEW s \in Stores, NEW t \in [Currencies -> Live \cup {1}]
    PROVE  ActiveCurrency(s, t) \in [code : Currencies, rate : Nat]
  <1>1. /\ s.code \in Currencies \cup {None} /\ s.custom \in [Currencies -> Nat]
        /\ s.live \in LiveRates
    BY DEF Stores
  <1>2. Live \cup {1} \subseteq Nat /\ "USD" \in Currencies
    BY SettingsAssumption
  <1>3. PICK cs \in SUBSET Currencies : s.live \in [cs -> Live \cup {1}]
    BY <1>1 DEF LiveRates
  <1> DEFINE c == IF s.code = None THEN "USD" ELSE s.code
  <1>4. c \in Currencies
    BY <1>1, <1>2
  <1>5. t[c] \in Nat /\ s.custom[c] \in Nat /\ (c \in DOMAIN s.live => s.live[c] \in Nat)
    BY <1>1, <1>2, <1>3, <1>4
  <1> HIDE DEF c
  <1> DEFINE r == IF s.code # None /\ s.custom[c] > 0 THEN s.custom[c]
                  ELSE IF s.code # None /\ c \in DOMAIN s.live THEN s.live[c] ELSE t[c]
  <1>6. r \in Nat
    BY <1>5
  <1>7. ActiveCurrency(s, t) = [code |-> c, rate |-> r]
    BY DEF ActiveCurrency, c
  <1> HIDE DEF r
  <1> QED
    BY <1>4, <1>6, <1>7

\* What the page shows of the currency, and what else is on it.
LEMMA ShowsFacts ==
    ASSUME NEW p \in Pages, NEW s \in Stores, NEW t \in [Currencies -> Live \cup {1}]
    PROVE  LET q == Shows(p, s, t) IN
           /\ q \in Pages /\ q.currency = ActiveCurrency(s, t) /\ ~q.foreign
           /\ q.on = p.on /\ q.catalog = p.catalog /\ q.apart = p.apart /\ q.sim = p.sim /\ q.lost = p.lost
           /\ q.given = p.given /\ q.revealed = p.revealed /\ q.overwritten = p.overwritten
           /\ q.loading = p.loading /\ q.syncing = p.syncing
           /\ q.delete = p.delete /\ q.purge = p.purge /\ q.projects = p.projects
  <1> DEFINE a == ActiveCurrency(s, t)
  <1>1. a \in [code : Currencies, rate : Nat] /\ a.rate \in Nat
    BY ActiveType
  <1>2. Shows(p, s, t) = [p EXCEPT !.currency = a, !.text = a.rate, !.foreign = FALSE]
    BY DEF Shows
  <1> HIDE DEF a
  <1> QED
    BY <1>1, <1>2 DEF Pages, a

\* A page that is mounted starts from what is stored.
LEMMA MountedFacts ==
    ASSUME NEW s \in Stores, NEW t \in [Currencies -> Live \cup {1}], NEW ps \in SUBSET Workspaces,
           Distinct(s.pricing)
    PROVE  LET q == Mounted(s, t, ps) IN
           /\ q \in Pages /\ q.on /\ MoneyOf(q, s, t) /\ CatalogOf(q, s)
           /\ q.given = {} /\ q.revealed = s.keys /\ q.loading = None /\ q.syncing = FALSE
           /\ WordsOf(q) /\ q.purge.ws = None
  <1> DEFINE a == ActiveCurrency(s, t)
             q == Mounted(s, t, ps)
             lost == ~HasRow(StoredCatalog(s), Simulated)
  <1>1. a \in [code : Currencies, rate : Nat] /\ a.rate \in Nat
    BY ActiveType
  <1>2. StoredCatalog(s) \in Seq(Rows) /\ Distinct(StoredCatalog(s)) /\ s.keys \in Keys
    BY SettingsAssumption DEF StoredCatalog, Stores
  <1>3. Closed \in Modals /\ Closed.ws = None
    BY DEF Closed, Modals
  <1>4. q = [on |-> TRUE, projects |-> ps, currency |-> a, text |-> a.rate,
             foreign |-> FALSE, syncing |-> FALSE, source |-> "stored",
             catalog |-> StoredCatalog(s), apart |-> FALSE, sim |-> Simulated, lost |-> lost,
             revealed |-> s.keys, given |-> {}, loading |-> None, overwritten |-> FALSE,
             delete |-> Closed, purge |-> Closed]
    <2> DEFINE m == [on |-> TRUE, projects |-> ps, currency |-> None, text |-> 0,
                     foreign |-> FALSE, syncing |-> FALSE, source |-> "stored",
                     catalog |-> StoredCatalog(s), apart |-> FALSE, sim |-> Simulated, lost |-> lost,
                     revealed |-> s.keys, given |-> {}, loading |-> None, overwritten |-> FALSE,
                     delete |-> Closed, purge |-> Closed]
               r == a.rate
    <2>1. q = [m EXCEPT !.currency = a, !.text = r, !.foreign = FALSE]
      BY DEF Mounted, Shows
    <2> HIDE DEF a, q, r, lost
    <2> QED
      BY <2>1 DEF r
  <1>0. lost \in BOOLEAN /\ Simulated \in ModelNames
    BY SettingsAssumption DEF HasRow
  <1> HIDE DEF a, q, lost
  <1>5. q \in Pages
    BY <1>0, <1>1, <1>2, <1>3, <1>4 DEF Pages
  <1>6. /\ q.on /\ q.currency = a /\ q.catalog = StoredCatalog(s)
        /\ q.given = {} /\ q.revealed = s.keys /\ q.loading = None /\ q.syncing = FALSE
        /\ q.delete = Closed /\ q.purge = Closed /\ q.sim = Simulated /\ q.lost = lost
    BY <1>4
  <1>7. Distinct(s.pricing)
    OBVIOUS
  <1>8. MoneyOf(q, s, t) /\ CatalogOf(q, s) /\ WordsOf(q)
    BY <1>2, <1>3, <1>6, <1>7 DEF MoneyOf, CatalogOf, WordsOf, a, lost
  <1> QED
    BY <1>3, <1>5, <1>6, <1>8 DEF q

-----------------------------------------------------------------------------
(* Steps that leave the currency alone.                                    *)

\* What the invariant says of the variables.
LEMMA Context ==
    ASSUME IndInv
    PROVE  /\ store \in Stores /\ table \in [Currencies -> Live \cup {1}]
           /\ exists \subseteq Workspaces /\ page \in Pages /\ calls \subseteq Requests
           /\ kept \in [Currencies -> Nat] /\ events \in Nat
           /\ \A c \in calls : /\ c \in Requests
                               /\ c.timer => c.kind \in Kinds
                               /\ c.here => page.on
           /\ page.catalog \in Seq(Rows) /\ Distinct(page.catalog)
           /\ store.pricing \in Seq(Rows) /\ Distinct(store.pricing)
  <1>1. PageTyped /\ CatalogOf(page, store) /\ WaitsOf(page, calls)
    BY DEF IndInv
  <1> QED
    BY <1>1 DEF PageTyped, CatalogOf, WaitsOf, Pages, Stores

\* Event counts.
LEMMA EventType == events \in Nat /\ (Event \/ UNCHANGED events) => events' \in Nat
  BY DEF Event

\* Calls that stay as they are are awaited as they were.
LEMMA CallsStay == IndInv /\ page'.on = page.on /\ calls' = calls => SameWaits
  BY Context DEF SameWaits

\* An event on the page that is open, or an answer to it, which changes
\* neither the currency nor what is kept.
LEMMA EditStep ==
    ASSUME IndInv, page' \in Pages, calls' \subseteq Requests,
           \A c \in calls' : c.timer => c.kind \in Kinds,
           Event \/ UNCHANGED events, UNCHANGED <<store, table, exists, kept>>,
           SameMoney, SameWaits, CatalogOf(page', store'), SameKeys, WordsOf(page')
    PROVE  IndInv'
  <1>1. SameRates
    BY DEF SameRates
  <1>2. PageTyped'
    BY Context, EventType DEF PageTyped
  <1> QED
    BY <1>1, <1>2, Undisturbed, PartsMakeInv

\* A rate is typed.
LEMMA TypeRateStep == \A r \in Typed : IndInv /\ TypeRate(r) => IndInv'
  <1> SUFFICES ASSUME IndInv, NEW r \in Typed, TypeRate(r)
               PROVE  IndInv'
    OBVIOUS
  <1>1. page' = [page EXCEPT !.text = r] /\ page \in Pages /\ r \in Nat
    BY Context, SettingsAssumption DEF TypeRate
  <1>2. page' \in Pages /\ SameMoney /\ SameModals
    BY <1>1 DEF Pages, SameMoney, SameModals
  <1>3. UNCHANGED <<store, table, exists, calls, kept>> /\ Event
    BY DEF TypeRate
  <1>4. SameCatalog /\ SameKeys
    BY <1>1, <1>3 DEF Pages, SameCatalog, SameKeys
  <1>5. SameWaits /\ CatalogOf(page', store') /\ WordsOf(page')
    BY <1>2, <1>3, <1>4, CallsStay, Undisturbed DEF SameKeys
  <1> QED
    BY <1>2, <1>3, <1>4, <1>5, Context, EditStep

\* A price is typed.
LEMMA UpdateModelStep ==
    ASSUME IndInv, NEW i, NEW r \in Prices, UpdateModelRate(i, r)
    PROVE  IndInv'
  <1> DEFINE row == [page.catalog[i] EXCEPT !.price = r, !.custom = TRUE]
             catalog == [page.catalog EXCEPT ![i] = row]
  <1>1. /\ page \in Pages /\ r \in Nat /\ page.catalog \in Seq(Rows) /\ Distinct(page.catalog)
        /\ i \in DOMAIN page.catalog /\ Distinct(store.pricing)
    BY Context, SettingsAssumption DEF UpdateModelRate
  <1>2. page.catalog[i] \in Rows /\ DOMAIN page.catalog = 1..Len(page.catalog)
    BY <1>1
  <1>3. row \in Rows /\ row.model = page.catalog[i].model
    BY <1>1, <1>2 DEF Rows
  <1>4. page' = [page EXCEPT !.catalog[i].price = r, !.catalog[i].custom = TRUE, !.apart = TRUE]
    BY DEF UpdateModelRate
  <1>5. /\ page'.apart = TRUE /\ page'.catalog = catalog
        /\ page'.sim = page.sim /\ page'.lost = page.lost
        /\ page' = [page EXCEPT !.catalog = catalog, !.apart = TRUE]
    BY <1>1, <1>4, ZenonT(60) DEF Pages
  <1> HIDE DEF row
  <1>6. /\ catalog \in Seq(Rows) /\ DOMAIN catalog = DOMAIN page.catalog
        /\ \A j \in DOMAIN catalog : catalog[j].model = page.catalog[j].model
    BY <1>1, <1>3
  <1> HIDE DEF catalog
  <1>7. Distinct(catalog)
    BY <1>1, <1>6 DEF Distinct
  <1>8. page' \in Pages /\ SameMoney /\ SameModals /\ page'.on = page.on
    BY <1>1, <1>5, <1>6 DEF Pages, SameMoney, SameModals
  <1>9. UNCHANGED <<store, table, exists, calls, kept>> /\ Event
    BY DEF UpdateModelRate
  <1>10. SameKeys
    BY <1>1, <1>5, <1>9 DEF Pages, SameKeys
  <1>11. CatalogOf(page', store')
    <2>1. CatalogOf(page, store)
      BY DEF IndInv
    <2> QED
      BY <1>1, <1>5, <1>6, <1>7, <1>9, <2>1 DEF CatalogOf, HasRow
  <1>12. SameWaits /\ WordsOf(page')
    BY <1>8, <1>9, CallsStay, Undisturbed
  <1> QED
    BY <1>8, <1>9, <1>10, <1>11, <1>12, Context, EditStep

\* A modal is opened, changed or closed.
LEMMA ModalFacts ==
    ASSUME IndInv, NEW kind \in Kinds, NEW m \in Modals,
           m.ws # None /\ m.words => m.wordsFor = m.ws,
           page' = [page EXCEPT ![kind] = m], store' = store
    PROVE  /\ page' \in Pages /\ page'.on = page.on
           /\ SameMoney /\ CatalogOf(page', store') /\ SameKeys /\ WordsOf(page')
  <1>1. page \in Pages /\ WordsOf(page) /\ CatalogOf(page, store)
    BY Context DEF IndInv
  <1>2. CASE kind = "delete"
    <2>1. page' = [page EXCEPT !.delete = m]
      BY <1>2
    <2>2. /\ page' \in Pages /\ page'.delete = m /\ page'.purge = page.purge
          /\ page'.on = page.on /\ SameMoney /\ SameKeys /\ SameCatalog
      BY <1>1, <2>1 DEF Pages, SameMoney, SameKeys, SameCatalog
    <2>3. WordsOf(page')
      BY <1>1, <2>2 DEF WordsOf
    <2> QED
      BY <2>2, <2>3, Undisturbed
  <1>3. CASE kind = "purge"
    <2>1. page' = [page EXCEPT !.purge = m]
      BY <1>3
    <2>2. /\ page' \in Pages /\ page'.purge = m /\ page'.delete = page.delete
          /\ page'.on = page.on /\ SameMoney /\ SameKeys /\ SameCatalog
      BY <1>1, <2>1 DEF Pages, SameMoney, SameKeys, SameCatalog
    <2>3. WordsOf(page')
      BY <1>1, <2>2 DEF WordsOf
    <2> QED
      BY <2>2, <2>3, Undisturbed
  <1> QED
    BY <1>2, <1>3 DEF Kinds

\* A modal as the page has it.
LEMMA ModalType ==
    ASSUME IndInv, NEW kind \in Kinds
    PROVE  /\ page[kind] \in Modals
           /\ page[kind].ws # None /\ page[kind].words => page[kind].wordsFor = page[kind].ws
  <1>1. page \in Pages /\ WordsOf(page)
    BY Context DEF IndInv
  <1>2. page.delete \in Modals /\ page.purge \in Modals
    BY <1>1 DEF Pages
  <1>3. CASE kind = "delete"
    BY <1>1, <1>2, <1>3 DEF WordsOf
  <1>4. CASE kind = "purge"
    BY <1>1, <1>2, <1>4 DEF WordsOf
  <1> QED
    BY <1>3, <1>4 DEF Kinds

\* What a modal says is changed.
LEMMA SaysFacts ==
    ASSUME IndInv, NEW kind \in Kinds, NEW says \in {"nothing", "busy", "done", "error"},
           page' = [page EXCEPT ![kind].says = says], store' = store
    PROVE  /\ page' \in Pages /\ page'.on = page.on
           /\ SameMoney /\ CatalogOf(page', store') /\ SameKeys /\ WordsOf(page')
  <1> DEFINE m == [page[kind] EXCEPT !.says = says]
  <1>1. /\ page[kind] \in Modals
        /\ page[kind].ws # None /\ page[kind].words => page[kind].wordsFor = page[kind].ws
    BY ModalType
  <1>2. m \in Modals /\ (m.ws # None /\ m.words => m.wordsFor = m.ws)
    BY <1>1 DEF Modals
  <1>3. page' = [page EXCEPT ![kind] = m]
    OBVIOUS
  <1> HIDE DEF m
  <1> QED
    BY <1>2, <1>3, ModalFacts

\* The page stays as it is.
LEMMA PageStays ==
    ASSUME IndInv, page' = page, store' = store
    PROVE  /\ page' \in Pages /\ page'.on = page.on
           /\ SameMoney /\ CatalogOf(page', store') /\ SameKeys /\ WordsOf(page')
  <1>1. SameMoney /\ SameCatalog /\ SameKeys /\ SameModals
    BY DEF SameMoney, SameCatalog, SameKeys, SameModals
  <1> QED
    BY <1>1, Context, Undisturbed

\* A modal opens.
LEMMA OpenStep ==
    ASSUME IndInv, NEW kind \in Kinds, NEW w \in Workspaces, OpenModal(kind, w)
    PROVE  IndInv'
  <1> DEFINE m == [Closed EXCEPT !.ws = w]
  <1>1. m \in Modals /\ m.words = FALSE
    BY DEF Closed, Modals
  <1>2. page' = [page EXCEPT ![kind] = m] /\ Event /\ UNCHANGED <<store, table, exists, calls, kept>>
    BY DEF OpenModal
  <1> HIDE DEF m
  <1>3. /\ page' \in Pages /\ page'.on = page.on
        /\ SameMoney /\ CatalogOf(page', store') /\ SameKeys /\ WordsOf(page')
    BY <1>1, <1>2, ModalFacts
  <1> QED
    BY <1>2, <1>3, Context, CallsStay, EditStep

\* The words are typed, or the modal is cancelled.
LEMMA TypeOrCancelStep ==
    ASSUME IndInv, NEW kind \in Kinds, TypeOrCancel(kind)
    PROVE  IndInv'
  <1> DEFINE typed == [page[kind] EXCEPT !.words = TRUE, !.wordsFor = page[kind].ws]
             cancelled == [page[kind] EXCEPT !.ws = None]
  <1>1. page[kind] \in Modals
    BY ModalType
  <1>2. /\ typed \in Modals /\ typed.wordsFor = typed.ws
        /\ cancelled \in Modals /\ cancelled.ws = None
    BY <1>1 DEF Modals
  <1>3. Event /\ UNCHANGED <<store, table, exists, calls, kept>>
    BY DEF TypeOrCancel
  <1>4. page' = [page EXCEPT ![kind] = typed] \/ page' = [page EXCEPT ![kind] = cancelled]
    <2>1. page \in Pages
      BY Context
    <2>2. CASE kind = "delete"
      BY <2>1, <2>2 DEF TypeOrCancel, Pages, Modals
    <2>3. CASE kind = "purge"
      BY <2>1, <2>3 DEF TypeOrCancel, Pages, Modals
    <2> QED
      BY <2>2, <2>3 DEF Kinds
  <1> HIDE DEF typed, cancelled
  <1>5. /\ page' \in Pages /\ page'.on = page.on
        /\ SameMoney /\ CatalogOf(page', store') /\ SameKeys /\ WordsOf(page')
    BY <1>2, <1>3, <1>4, ModalFacts
  <1> QED
    BY <1>3, <1>5, Context, CallsStay, EditStep

\* A request of the page is one of the kind that is asked.
LEMMA AskFacts ==
    ASSUME IndInv, NEW kind \in {"fx", "key"} \cup Kinds, NEW w \in Workspaces \cup {None},
           page.on, app \in Apps, Ask(kind, w)
    PROVE  /\ calls' \subseteq Requests
           /\ \A c \in calls' : (c.timer => c.kind \in Kinds) /\ (c.here => page.on)
           /\ \E a : a.kind = kind /\ a.here /\ calls' = calls \cup {a}
           /\ kind \in Kinds => /\ Awaited(calls', "fx") = Awaited(calls, "fx")
                                /\ Awaited(calls', "key") = Awaited(calls, "key")
  <1> DEFINE a == [kind |-> kind, ws |-> w, n |-> events + 1, here |-> TRUE, by |-> app.active,
                   seen |-> page.revealed, source |-> 1, timer |-> FALSE]
  <1>1. page.revealed \in Keys /\ events + 1 \in Nat \ {0} /\ 1 \in 1..Sources /\ app.active \in Workspaces
    BY Context, SettingsAssumption DEF Pages, Apps
  <1>2. a \in Requests
    BY <1>1 DEF Requests
  <1>3. a.kind = kind /\ a.here /\ ~a.timer
    OBVIOUS
  <1>4. calls' = calls \cup {a}
    BY DEF Ask
  <1> HIDE DEF a
  <1>5. kind \in Kinds => kind # "fx" /\ kind # "key"
    BY DEF Kinds
  <1> QED
    BY <1>2, <1>3, <1>4, <1>5, Context DEF Awaited

\* A deletion is confirmed.
LEMMA ConfirmStep ==
    ASSUME IndInv, app \in Apps, NEW kind \in Kinds, Confirm(kind)
    PROVE  IndInv'
  <1>1. /\ page.on /\ Event /\ page' = [page EXCEPT ![kind].says = "busy"]
        /\ Ask(kind, IF kind = "purge" THEN app.header ELSE page[kind].ws)
        /\ UNCHANGED <<store, table, exists, kept>>
    BY DEF Confirm
  <1>2. (IF kind = "purge" THEN app.header ELSE page[kind].ws) \in Workspaces \cup {None}
    BY ModalType DEF Modals, Apps
  <1>3. /\ calls' \subseteq Requests
        /\ \A c \in calls' : (c.timer => c.kind \in Kinds) /\ (c.here => page.on)
        /\ Awaited(calls', "fx") = Awaited(calls, "fx")
        /\ Awaited(calls', "key") = Awaited(calls, "key")
    BY <1>1, <1>2, AskFacts
  <1>4. /\ page' \in Pages /\ page'.on = page.on
        /\ SameMoney /\ CatalogOf(page', store') /\ SameKeys /\ WordsOf(page')
    BY <1>1, SaysFacts
  <1>5. SameWaits
    BY <1>3, <1>4 DEF SameWaits
  <1> QED
    BY <1>1, <1>3, <1>4, <1>5, EditStep

\* A call of a modal is replaced by others of its kind, or ends.
LEMMA ModalCall ==
    ASSUME IndInv, NEW c \in calls, c.kind \in Kinds, calls \ {c} \subseteq calls',
           \A d \in calls' : \/ d \in calls \ {c}
                             \/ (d \in Requests /\ d.kind = c.kind /\ d.here = c.here),
           page' \in Pages, page'.on = page.on
    PROVE  /\ calls' \subseteq Requests /\ \A d \in calls' : d.timer => d.kind \in Kinds
           /\ SameWaits
  <1>1. /\ calls \subseteq Requests
        /\ \A d \in calls : (d.timer => d.kind \in Kinds) /\ (d.here => page.on)
    BY Context
  <1>2. c.kind # "fx" /\ c.kind # "key"
    BY DEF Kinds
  <1>3. Awaited(calls', "fx") = Awaited(calls, "fx") /\ Awaited(calls', "key") = Awaited(calls, "key")
    BY <1>2 DEF Awaited
  <1>4. \A d \in calls' : (d.timer => d.kind \in Kinds) /\ (d.here => page.on)
    BY <1>1
  <1> QED
    BY <1>1, <1>3, <1>4 DEF SameWaits

\* The request of a modal is done, and its timer is set.
LEMMA DoneStep ==
    ASSUME IndInv, NEW c \in calls, c.kind \in Kinds, Done(c), Event \/ UNCHANGED events,
           UNCHANGED <<store, table, exists, kept>>
    PROVE  IndInv'
  <1> DEFINE d == [c EXCEPT !.timer = TRUE]
  <1>1. d \in Requests /\ d.kind = c.kind /\ d.here = c.here
    BY Context DEF Requests
  <1>2. calls' = (calls \ {c}) \cup {d}
    BY DEF Done
  <1>3. page' = page \/ page' = [page EXCEPT ![c.kind].says = "done"]
    BY DEF Done
  <1> HIDE DEF d
  <1>4. /\ page' \in Pages /\ page'.on = page.on
        /\ SameMoney /\ CatalogOf(page', store') /\ SameKeys /\ WordsOf(page')
    BY <1>3, SaysFacts, PageStays
  <1>5. /\ calls \ {c} \subseteq calls'
        /\ \A e \in calls' : \/ e \in calls \ {c}
                            \/ (e \in Requests /\ e.kind = c.kind /\ e.here = c.here)
    BY <1>1, <1>2
  <1>6. /\ calls' \subseteq Requests /\ \A e \in calls' : e.timer => e.kind \in Kinds
        /\ SameWaits
    BY <1>4, <1>5, ModalCall
  <1> QED
    BY <1>4, <1>6, EditStep

\* A call of a modal ends.
LEMMA ModalEnds ==
    ASSUME IndInv, NEW c \in calls, c.kind \in Kinds, calls' = calls \ {c},
           Event \/ UNCHANGED events, UNCHANGED <<store, table, exists, kept>>,
           \/ page' = page \/ page' = [page EXCEPT !.purge.says = "error"]
           \/ page' = [page EXCEPT ![c.kind] = Closed]
    PROVE  IndInv'
  <1>1. /\ page' \in Pages /\ page'.on = page.on
        /\ SameMoney /\ CatalogOf(page', store') /\ SameKeys /\ WordsOf(page')
    <2>1. CASE page' = page
      BY <2>1, PageStays
    <2>2. CASE page' = [page EXCEPT !.purge.says = "error"]
      <3>1. page' = [page EXCEPT !["purge"].says = "error"] /\ "purge" \in Kinds
        BY <2>2 DEF Kinds
      <3> QED
        BY <3>1, SaysFacts
    <2>3. CASE page' = [page EXCEPT ![c.kind] = Closed]
      <3>1. Closed \in Modals /\ Closed.ws = None
        BY DEF Closed, Modals
      <3> QED
        BY <2>3, <3>1, ModalFacts
    <2> QED
      BY <2>1, <2>2, <2>3
  <1>2. /\ calls' \subseteq Requests /\ \A d \in calls' : d.timer => d.kind \in Kinds
        /\ SameWaits
    BY <1>1, ModalCall
  <1> QED
    BY <1>1, <1>2, EditStep

\* The answers to the requests of the modals that leave the page as it is
\* loaded, and their timers.
LEMMA ModalSteps ==
    ASSUME IndInv, NEW c \in calls,
           \/ /\ c.kind = "delete" /\ Done(c) /\ (Event \/ UNCHANGED events)
              /\ UNCHANGED <<store, table, exists, kept>>
           \/ PurgeAnswers(c) \/ ModalTimer(c)
    PROVE  IndInv'
  <1>1. CASE /\ c.kind = "delete" /\ Done(c) /\ (Event \/ UNCHANGED events)
             /\ UNCHANGED <<store, table, exists, kept>>
    BY <1>1, DoneStep DEF Kinds
  <1>2. CASE PurgeAnswers(c)
    <2>1. c.kind \in Kinds /\ UNCHANGED <<store, table, exists, kept>>
      BY <1>2 DEF PurgeAnswers, Kinds
    <2>2. CASE Done(c) /\ UNCHANGED events
      BY <2>1, <2>2, DoneStep
    <2>3. CASE /\ Event /\ calls' = calls \ {c}
               /\ page' = IF c.here THEN [page EXCEPT !.purge.says = "error"] ELSE page
      BY <2>1, <2>3, ModalEnds
    <2> QED
      BY <1>2, <2>2, <2>3 DEF PurgeAnswers
  <1>3. CASE ModalTimer(c)
    <2>1. c.kind \in Kinds /\ UNCHANGED <<store, table, exists, kept, events>> /\ calls' = calls \ {c}
      BY <1>3, Context DEF ModalTimer
    <2>2. page' = page \/ page' = [page EXCEPT ![c.kind] = Closed]
      BY <1>3 DEF ModalTimer
    <2> QED
      BY <2>1, <2>2, ModalEnds
  <1> QED
    BY <1>1, <1>2, <1>3

\* A workspace is deleted elsewhere.
LEMMA ElsewhereStep == \A w \in Workspaces : IndInv /\ DeletedElsewhere(w) => IndInv'
  <1> SUFFICES ASSUME IndInv, NEW w \in Workspaces, DeletedElsewhere(w)
               PROVE  IndInv'
    OBVIOUS
  <1>1. Event /\ exists' = exists \ {w} /\ UNCHANGED <<store, table, page, calls, kept>>
    BY DEF DeletedElsewhere
  <1>2. PageTyped'
    BY <1>1, Context, EventType DEF PageTyped
  <1>3. SameRates /\ SameMoney /\ SameCatalog /\ SameKeys /\ SameModals /\ SameWaits
    BY <1>1, CallsStay DEF SameRates, SameMoney, SameCatalog, SameKeys, SameModals
  <1> QED
    BY <1>2, <1>3, Undisturbed, PartsMakeInv

-----------------------------------------------------------------------------
(* Catalogs and keys.                                                      *)

\* A catalog is saved with what is on the screen.
LEMMA SavesStep ==
    ASSUME IndInv, NEW catalog \in Seq(Rows), NEW s \in Seq(Rows), Distinct(catalog), Distinct(s),
           s = catalog \/ (catalog = Defaults /\ s = <<>>),
           NEW lost \in BOOLEAN, lost \/ HasRow(catalog, page.sim), Saves(catalog, s, lost)
    PROVE  IndInv'
  <1>1. /\ Event /\ UNCHANGED <<table, exists, calls, kept>>
        /\ page' = [page EXCEPT !.catalog = catalog, !.apart = FALSE, !.lost = lost]
        /\ store' = [store EXCEPT !.pricing = s]
    BY DEF Saves
  <1>2. page \in Pages /\ store \in Stores
    BY Context
  <1>3. /\ page' \in Pages /\ SameMoney /\ SameModals /\ page'.on = page.on
        /\ page'.catalog = catalog /\ page'.lost = lost /\ page'.sim = page.sim
    BY <1>1, <1>2 DEF Pages, SameMoney, SameModals
  <1>4. store' \in Stores /\ SameRates /\ store'.pricing = s /\ store'.keys = store.keys
    BY <1>1, <1>2 DEF Stores, SameRates
  <1>5. SameKeys
    BY <1>1, <1>2, <1>4 DEF Pages, SameKeys
  <1>6. CatalogOf(page', store')
    BY <1>3, <1>4 DEF CatalogOf, StoredCatalog
  <1>7. SameWaits
    BY <1>1, <1>3, CallsStay
  <1>8. PageTyped'
    BY <1>1, <1>3, <1>4, Context, EventType DEF PageTyped
  <1> QED
    BY <1>3, <1>4, <1>5, <1>6, <1>7, <1>8, Undisturbed, PartsMakeInv

\* A catalog with a model added to it or removed from it.
LEMMA ChangedFacts ==
    ASSUME NEW s \in Seq(Rows), Distinct(s), NEW m \in ModelNames, NEW r \in Prices
    PROVE  /\ Added(m, r, s) \in Seq(Rows) /\ Distinct(Added(m, r, s))
           /\ Without(s, m) \in Seq(Rows) /\ Distinct(Without(s, m))
           /\ HasRow(Added(m, r, s), m)
           /\ \A k : HasRow(s, k) => HasRow(Added(m, r, s), k)
  <1> DEFINE row == [model |-> m, price |-> r, custom |-> TRUE]
             others == Without(s, m)
  <1>1. row \in Rows /\ row.model = m
    BY SettingsAssumption DEF Rows
  <1>2. /\ others \in Seq(Rows) /\ Distinct(others) /\ \A n \in DOMAIN others : others[n].model # m
        /\ \A k : k # m /\ HasRow(s, k) => HasRow(others, k)
    BY WithoutFacts
  <1>3. Added(m, r, s) = <<row>> \o others
    BY DEF Added
  <1> HIDE DEF row, others
  <1>4. /\ (<<row>> \o others) \in Seq(Rows) /\ Distinct(<<row>> \o others)
        /\ \A k : k = row.model \/ HasRow(others, k) => HasRow(<<row>> \o others, k)
    BY <1>1, <1>2, AddedFacts
  <1> QED
    BY <1>1, <1>2, <1>3, <1>4 DEF others

\* The catalog is saved, reset, extended and cut.
LEMMA CatalogSteps ==
    ASSUME IndInv,
           \/ SaveCatalog \/ ResetCatalog
           \/ \E m \in Models, r \in Prices : AddNewModel(m, r)
           \/ \E i : DeleteCustomModel(i)
    PROVE  IndInv'
  <1>1. /\ page.catalog \in Seq(Rows) /\ Distinct(page.catalog) /\ page.lost \in BOOLEAN
        /\ page.lost \/ HasRow(page.catalog, page.sim)
    BY Context DEF IndInv, CatalogOf, Pages
  <1>2. CASE SaveCatalog
    BY <1>1, <1>2, SavesStep DEF SaveCatalog
  <1>3. CASE ResetCatalog
    <2> DEFINE lost == ~HasRow(Defaults, page.sim)
    <2>1. <<>> \in Seq(Rows) /\ Distinct(<<>>)
      BY DEF Distinct
    <2>2. lost \in BOOLEAN /\ (lost \/ HasRow(Defaults, page.sim)) /\ Saves(Defaults, <<>>, lost)
      BY <1>3 DEF ResetCatalog, HasRow
    <2> HIDE DEF lost
    <2> QED
      BY <2>1, <2>2, SavesStep, SettingsAssumption
  <1>4. ASSUME NEW m \in Models, NEW r \in Prices, AddNewModel(m, r)
        PROVE  IndInv'
    <2> DEFINE updated == Added(m, r, page.catalog)
               lost == page.lost /\ m # page.sim
    <2>1. /\ updated \in Seq(Rows) /\ Distinct(updated) /\ HasRow(updated, m)
          /\ \A k : HasRow(page.catalog, k) => HasRow(updated, k)
      BY <1>1, ChangedFacts DEF ModelNames
    <2>2. Saves(updated, updated, lost) /\ lost \in BOOLEAN
      BY <1>1, <1>4 DEF AddNewModel
    <2>3. lost \/ HasRow(updated, page.sim)
      BY <1>1, <2>1
    <2> HIDE DEF updated, lost
    <2> QED
      BY <2>1, <2>2, <2>3, SavesStep
  <1>5. ASSUME NEW i, DeleteCustomModel(i)
        PROVE  IndInv'
    <2> DEFINE m == page.catalog[i].model
               others == Without(page.catalog, m)
               lost == page.lost \/ m = page.sim
    <2>1. /\ others \in Seq(Rows) /\ Distinct(others)
          /\ \A k : k # m /\ HasRow(page.catalog, k) => HasRow(others, k)
      BY <1>1, WithoutFacts
    <2>2. Saves(others, others, lost) /\ lost \in BOOLEAN
      BY <1>1, <1>5 DEF DeleteCustomModel
    <2>3. lost \/ HasRow(others, page.sim)
      BY <1>1, <2>1
    <2> HIDE DEF others, lost
    <2> QED
      BY <2>1, <2>2, <2>3, SavesStep
  <1> QED
    BY <1>2, <1>3, <1>4, <1>5

\* The calculator is set to another model.
LEMMA SimStep ==
    ASSUME IndInv, NEW i, SelectSimModel(i)
    PROVE  IndInv'
  <1> DEFINE m == page.catalog[i].model
  <1>1. /\ page \in Pages /\ page.catalog \in Seq(Rows) /\ i \in DOMAIN page.catalog
        /\ Event /\ UNCHANGED <<store, table, exists, calls, kept>>
        /\ page' = [page EXCEPT !.sim = m, !.lost = FALSE]
    BY Context DEF SelectSimModel
  <1>2. m \in ModelNames /\ HasRow(page.catalog, m)
    <2>1. page.catalog[i] \in Rows
      BY <1>1
    <2> QED
      BY <1>1, <2>1 DEF Rows, HasRow
  <1> HIDE DEF m
  <1>3. /\ page' \in Pages /\ page'.on = page.on /\ SameMoney /\ SameModals
        /\ page'.catalog = page.catalog /\ page'.apart = page.apart /\ page'.sim = m
    BY <1>1, <1>2 DEF Pages, SameMoney, SameModals
  <1>4. SameKeys
    BY <1>1 DEF Pages, SameKeys
  <1>5. CatalogOf(page', store')
    BY <1>1, <1>2, <1>3 DEF IndInv, CatalogOf
  <1>6. SameWaits /\ WordsOf(page')
    BY <1>1, <1>3, CallsStay, Undisturbed
  <1> QED
    BY <1>1, <1>3, <1>4, <1>5, <1>6, Context, EditStep

\* Another tab saves a catalog.
LEMMA OtherSavesStep ==
    ASSUME IndInv, NEW m \in ModelNames, NEW r \in Prices, OtherSaves(m, r)
    PROVE  IndInv'
  <1>1. store \in Stores /\ page \in Pages /\ CatalogOf(page, store)
    BY Context DEF IndInv
  <1>2. StoredCatalog(store) \in Seq(Rows) /\ Distinct(StoredCatalog(store))
    BY <1>1, SettingsAssumption DEF StoredCatalog, Stores, CatalogOf
  <1>3. PICK s \in {<<>>, Added(m, r, StoredCatalog(store)), Without(StoredCatalog(store), m)} :
           store' = [store EXCEPT !.pricing = s]
    BY DEF OtherSaves
  <1>4. s \in Seq(Rows) /\ Distinct(s)
    <2> DEFINE old == StoredCatalog(store)
    <2>1. <<>> \in Seq(Rows) /\ Distinct(<<>>)
      BY DEF Distinct
    <2>2. /\ Added(m, r, old) \in Seq(Rows) /\ Distinct(Added(m, r, old))
          /\ Without(old, m) \in Seq(Rows) /\ Distinct(Without(old, m))
      <3> HIDE DEF old
      <3> QED
        BY <1>2, ChangedFacts DEF old
    <2> QED
      BY <1>3, <2>1, <2>2, Zenon
  <1>5. Event /\ page' = [page EXCEPT !.apart = TRUE] /\ UNCHANGED <<table, exists, calls, kept>>
    BY DEF OtherSaves
  <1>6. /\ store' \in Stores /\ SameRates /\ store'.pricing = s /\ store'.keys = store.keys
    BY <1>1, <1>3, <1>4, <1>5 DEF Stores, SameRates
  <1>7. /\ page' \in Pages /\ page'.on = page.on /\ SameMoney /\ SameModals /\ page'.apart
        /\ page'.catalog = page.catalog /\ page'.sim = page.sim /\ page'.lost = page.lost
    BY <1>1, <1>5 DEF Pages, SameMoney, SameModals
  <1>8. SameKeys
    BY <1>1, <1>5, <1>6 DEF Pages, SameKeys
  <1>9. CatalogOf(page', store')
    BY <1>1, <1>4, <1>6, <1>7 DEF CatalogOf
  <1>10. SameWaits
    BY <1>5, <1>7, CallsStay
  <1>11. PageTyped'
    BY <1>5, <1>6, <1>7, Context, EventType DEF PageTyped
  <1> QED
    BY <1>6, <1>7, <1>8, <1>9, <1>10, <1>11, Undisturbed, PartsMakeInv

\* A step that leaves what rates depend on as it was.
LEMMA KeyStep ==
    ASSUME IndInv, store' \in Stores, page' \in Pages, calls' \subseteq Requests,
           \A c \in calls' : c.timer => c.kind \in Kinds,
           Event \/ UNCHANGED events, UNCHANGED <<table, exists, kept>>,
           SameRates, SameMoney, SameCatalog, SameModals,
           KeysOf(page', store', calls'), WaitsOf(page', calls')
    PROVE  IndInv'
  <1>1. PageTyped'
    BY Context, EventType DEF PageTyped
  <1> QED
    BY <1>1, Undisturbed, PartsMakeInv

\* Another tab keeps a key.
LEMMA OtherKeysStep ==
    ASSUME IndInv, NEW w \in Workspaces, OtherKeys(w)
    PROVE  IndInv'
  <1>1. store \in Stores /\ page \in Pages /\ events + 1 \in Nat /\ NoKeys \in Keys /\ store.keys \in Keys
    BY Context DEF Stores, Keys, NoKeys
  <1>2. PICK keys \in {NoKeys, store.keys} :
           store' = [store EXCEPT !.keys = [keys EXCEPT ![w] = events + 1]]
    BY DEF OtherKeys
  <1> DEFINE new == [keys EXCEPT ![w] = events + 1]
  <1>3. new \in Keys
    BY <1>1, <1>2 DEF Keys
  <1>4. Event /\ page' = [page EXCEPT !.overwritten = TRUE] /\ UNCHANGED <<table, exists, calls, kept>>
    BY DEF OtherKeys
  <1>5. store' = [store EXCEPT !.keys = new]
    BY <1>2
  <1> HIDE DEF new
  <1>6. store' \in Stores /\ SameRates /\ store'.pricing = store.pricing
    BY <1>1, <1>3, <1>4, <1>5 DEF Stores, SameRates
  <1>7. /\ page' \in Pages /\ page'.on = page.on /\ SameMoney /\ SameModals /\ page'.overwritten
        /\ page'.given = page.given /\ page'.revealed = page.revealed
        /\ page'.loading = page.loading /\ page'.syncing = page.syncing
    BY <1>1, <1>4 DEF Pages, SameMoney, SameModals
  <1>8. SameCatalog
    BY <1>1, <1>4, <1>6 DEF Pages, SameCatalog
  <1>9. SameWaits
    BY <1>4, <1>7, CallsStay
  <1>10. KeysOf(page', store', calls')
    <2>1. KeysOf(page, store, calls)
      BY DEF IndInv
    <2> QED
      BY <1>4, <1>7, <2>1 DEF KeysOf
  <1>11. WaitsOf(page', calls')
    BY <1>9, Undisturbed
  <1> QED
    BY <1>4, <1>6, <1>7, <1>8, <1>10, <1>11, Context, KeyStep

\* Another workspace is waited for.
LEMMA LoadingFacts ==
    ASSUME IndInv, NEW w \in Workspaces \cup {None}, page' = [page EXCEPT !.loading = w]
    PROVE  /\ page' \in Pages /\ page'.on = page.on /\ SameMoney /\ SameModals
           /\ page'.catalog = page.catalog /\ page'.apart = page.apart /\ page'.sim = page.sim /\ page'.lost = page.lost
           /\ page'.given = page.given /\ page'.revealed = page.revealed
           /\ page'.overwritten = page.overwritten /\ page'.loading = w
           /\ page'.syncing = page.syncing
  <1>1. page \in Pages
    BY Context
  <1> QED
    BY <1>1 DEF Pages, SameMoney, SameModals

\* A new key is asked for.
LEMMA FetchStep ==
    ASSUME IndInv, app \in Apps, NEW w \in Workspaces, FetchApiKey(w)
    PROVE  IndInv'
  <1>1. /\ page.on /\ Event /\ page' = [page EXCEPT !.loading = w]
        /\ Ask("key", w) /\ UNCHANGED <<store, table, exists, kept>>
    BY DEF FetchApiKey
  <1>2. /\ calls' \subseteq Requests
        /\ \A c \in calls' : (c.timer => c.kind \in Kinds) /\ (c.here => page.on)
        /\ \E a : a.kind = "key" /\ a.here /\ calls' = calls \cup {a}
    BY <1>1, AskFacts
  <1>3. /\ page' \in Pages /\ page'.on = page.on /\ SameMoney /\ SameModals /\ SameCatalog
        /\ page'.given = page.given /\ page'.revealed = page.revealed
        /\ page'.overwritten = page.overwritten /\ page'.syncing = page.syncing
    BY <1>1, LoadingFacts DEF SameCatalog
  <1>4. KeysOf(page, store, calls) /\ WaitsOf(page, calls)
    BY DEF IndInv
  <1>5. KeysOf(page', store', calls')
    BY <1>1, <1>2, <1>3, <1>4 DEF KeysOf
  <1>6. WaitsOf(page', calls')
    BY <1>2, <1>3, <1>4 DEF WaitsOf
  <1>7. SameRates
    BY <1>1 DEF SameRates
  <1> QED
    BY <1>1, <1>2, <1>3, <1>5, <1>6, <1>7, Context, KeyStep

\* An answer with a key leaves the others under way.
LEMMA KeyEnds ==
    ASSUME IndInv, NEW c \in calls, c.kind = "key", calls' = calls \ {c}, page'.on = page.on
    PROVE  /\ calls' \subseteq Requests /\ \A d \in calls' : d.timer => d.kind \in Kinds
           /\ WaitsOf(page', calls')
           /\ (\E d \in calls' : d.here /\ d.kind = "fx") <=> (\E d \in calls : d.here /\ d.kind = "fx")
           /\ ~c.here => SameWaits
  <1>1. WaitsOf(page', calls')
    BY DEF IndInv, WaitsOf
  <1>2. ~c.here => SameWaits
    <2>1. ~c.here => /\ Awaited(calls', "fx") = Awaited(calls, "fx")
                     /\ Awaited(calls', "key") = Awaited(calls, "key")
      BY DEF Awaited
    <2> QED
      BY <2>1, Context DEF SameWaits
  <1> QED
    BY <1>1, <1>2, Context

\* A key arrives.
LEMMA KeyAnswersStep ==
    ASSUME IndInv, NEW c \in calls, KeyAnswers(c)
    PROVE  IndInv'
  <1> DEFINE keys == [(IF c.here THEN page.revealed ELSE c.seen) EXCEPT ![c.ws] = c.n]
             shown == [page EXCEPT !.revealed = keys, !.given = @ \cup {c.ws}, !.loading = None]
  <1>1. /\ c.kind = "key" /\ c.ws \in Workspaces /\ calls' = calls \ {c}
        /\ UNCHANGED <<table, exists, kept, events>>
    BY Context DEF KeyAnswers
  <1>2. \/ store' = [store EXCEPT !.keys = keys] /\ c.here /\ page' = shown
        \/ /\ store' = [store EXCEPT !.keys = keys] /\ ~c.here
           /\ page' = [page EXCEPT !.overwritten = TRUE]
        \/ ~c.here /\ UNCHANGED <<store, page>>
    BY DEF KeyAnswers
  <1>3. page \in Pages /\ store \in Stores /\ c \in Requests /\ (c.here => page.on)
    BY Context
  <1>4. KeysOf(page, store, calls)
    BY DEF IndInv
  <1>5. keys \in Keys /\ keys[c.ws] # 0
        /\ (c.here => \A w \in Workspaces : keys[w] = page.revealed[w] \/ keys[w] # 0)
    BY <1>1, <1>3 DEF Pages, Requests, Keys
  <1> HIDE DEF keys
  <1>6. CASE store' = [store EXCEPT !.keys = keys] /\ c.here /\ page' = shown
    <2>1. /\ page' \in Pages /\ page'.on = page.on /\ SameMoney /\ SameModals
          /\ page'.given = page.given \cup {c.ws} /\ page'.revealed = keys
          /\ page'.loading = None /\ page'.syncing = page.syncing
          /\ page'.catalog = page.catalog /\ page'.apart = page.apart /\ page'.sim = page.sim /\ page'.lost = page.lost
      BY <1>1, <1>3, <1>5, <1>6 DEF Pages, SameMoney, SameModals
    <2>2. /\ store' \in Stores /\ store'.keys = keys /\ SameRates /\ SameCatalog
      BY <1>1, <1>3, <1>5, <1>6, <2>1 DEF Stores, SameRates, SameCatalog
    <2>3. \A w \in page'.given : page'.revealed[w] # 0
      <3>1. page.given \subseteq Workspaces /\ \A w \in page.given : page.revealed[w] # 0
        BY <1>3, <1>4, <1>6 DEF KeysOf, Pages
      <3> QED
        BY <1>5, <1>6, <2>1, <3>1
    <2>4. /\ calls' \subseteq Requests /\ \A d \in calls' : d.timer => d.kind \in Kinds
          /\ WaitsOf(page', calls')
          /\ (\E d \in calls' : d.here /\ d.kind = "fx") <=> (\E d \in calls : d.here /\ d.kind = "fx")
      BY <1>1, <2>1, KeyEnds
    <2>5. KeysOf(page', store', calls')
      BY <1>4, <2>1, <2>2, <2>3, <2>4 DEF KeysOf
    <2> QED
      BY <1>1, <2>1, <2>2, <2>4, <2>5, KeyStep
  <1>7. CASE /\ store' = [store EXCEPT !.keys = keys] /\ ~c.here
             /\ page' = [page EXCEPT !.overwritten = TRUE]
    <2>1. /\ page' \in Pages /\ page'.on = page.on /\ SameMoney /\ SameModals
          /\ page'.given = page.given /\ page'.revealed = page.revealed /\ page'.overwritten
          /\ page'.loading = page.loading /\ page'.syncing = page.syncing
          /\ page'.catalog = page.catalog /\ page'.apart = page.apart /\ page'.sim = page.sim /\ page'.lost = page.lost
      BY <1>3, <1>7 DEF Pages, SameMoney, SameModals
    <2>2. /\ store' \in Stores /\ SameRates /\ SameCatalog
      BY <1>1, <1>3, <1>5, <1>7, <2>1 DEF Stores, SameRates, SameCatalog
    <2>3. /\ calls' \subseteq Requests /\ \A d \in calls' : d.timer => d.kind \in Kinds
          /\ WaitsOf(page', calls') /\ SameWaits
      BY <1>1, <1>7, <2>1, KeyEnds
    <2>4. KeysOf(page', store', calls')
      BY <1>4, <2>1, <2>3 DEF KeysOf, SameWaits, Awaited
    <2> QED
      BY <1>1, <2>1, <2>2, <2>3, <2>4, KeyStep
  <1>8. CASE ~c.here /\ UNCHANGED <<store, page>>
    <2>1. SameRates /\ SameMoney /\ SameCatalog /\ SameModals /\ SameKeys
      BY <1>1, <1>8 DEF SameRates, SameMoney, SameCatalog, SameModals, SameKeys
    <2>2. /\ calls' \subseteq Requests /\ \A d \in calls' : d.timer => d.kind \in Kinds
          /\ WaitsOf(page', calls') /\ SameWaits
      BY <1>1, <1>8, KeyEnds
    <2>3. KeysOf(page', store', calls')
      BY <2>1, <2>2, Undisturbed
    <2> QED
      BY <1>1, <1>3, <1>8, <2>1, <2>2, <2>3, KeyStep
  <1> QED
    BY <1>2, <1>6, <1>7, <1>8

\* No key arrives.
LEMMA KeyFailsStep ==
    ASSUME IndInv, NEW c \in calls, KeyFails(c)
    PROVE  IndInv'
  <1>1. /\ c.kind = "key" /\ calls' = calls \ {c} /\ (Event \/ UNCHANGED events)
        /\ page' = IF c.here THEN [page EXCEPT !.loading = None] ELSE page
        /\ UNCHANGED <<store, table, exists, kept>>
    BY DEF KeyFails
  <1>2. SameRates /\ KeysOf(page, store, calls) /\ page \in Pages
    BY <1>1, Context DEF SameRates, IndInv
  <1>3. CASE c.here
    <2>1. /\ page' \in Pages /\ page'.on = page.on /\ SameMoney /\ SameModals /\ SameCatalog
          /\ page'.given = page.given /\ page'.revealed = page.revealed
          /\ page'.overwritten = page.overwritten /\ page'.loading = None
          /\ page'.syncing = page.syncing
      BY <1>1, <1>3, LoadingFacts DEF SameCatalog
    <2>2. /\ calls' \subseteq Requests /\ \A d \in calls' : d.timer => d.kind \in Kinds
          /\ WaitsOf(page', calls')
          /\ (\E d \in calls' : d.here /\ d.kind = "fx") <=> (\E d \in calls : d.here /\ d.kind = "fx")
      BY <1>1, <2>1, KeyEnds
    <2>3. KeysOf(page', store', calls')
      BY <1>1, <1>2, <2>1, <2>2 DEF KeysOf
    <2> QED
      BY <1>1, <1>2, <2>1, <2>2, <2>3, Context, KeyStep
  <1>4. CASE ~c.here
    <2>1. SameMoney /\ SameCatalog /\ SameModals /\ SameKeys /\ page' \in Pages
      BY <1>1, <1>2, <1>4 DEF SameMoney, SameCatalog, SameModals, SameKeys
    <2>2. /\ calls' \subseteq Requests /\ \A d \in calls' : d.timer => d.kind \in Kinds
          /\ WaitsOf(page', calls') /\ SameWaits
      BY <1>1, <1>4, KeyEnds
    <2>3. KeysOf(page', store', calls')
      BY <2>1, <2>2, Undisturbed
    <2> QED
      BY <1>1, <1>2, <2>1, <2>2, <2>3, Context, KeyStep
  <1> QED
    BY <1>3, <1>4

-----------------------------------------------------------------------------
(* Currencies and rates.                                                   *)

\* A step of rates that leaves the catalog, the keys and the modals alone.
LEMMA MoneyStep ==
    ASSUME IndInv, store' \in Stores, page' \in Pages, calls' \subseteq Requests,
           table' \in [Currencies -> Live \cup {1}], kept' \in [Currencies -> Nat],
           \A c \in calls' : c.timer => c.kind \in Kinds,
           Event \/ UNCHANGED events, UNCHANGED exists,
           RatesOf(store', kept'), MoneyOf(page', store', table'), SameCatalog,
           KeysOf(page', store', calls'), SameModals, WaitsOf(page', calls')
    PROVE  IndInv'
  <1>1. PageTyped'
    BY Context, EventType DEF PageTyped
  <1> QED
    BY <1>1, Undisturbed, PartsMakeInv

\* A currency is picked with a rate, which the user saved or the table had.
LEMMA PickFacts ==
    ASSUME IndInv, NEW c \in Currencies, NEW rate \in Nat \ {0}, NEW k \in {0, rate},
           store' = [store EXCEPT !.code = c, !.custom[c] = rate],
           kept' = [kept EXCEPT ![c] = k]
    PROVE  /\ store' \in Stores /\ kept' \in [Currencies -> Nat] /\ RatesOf(store', kept')
           /\ store'.pricing = store.pricing /\ store'.keys = store.keys
  <1>1. store \in Stores /\ kept \in [Currencies -> Nat] /\ RatesOf(store, kept) /\ c # None
    BY Context, SettingsAssumption DEF IndInv
  <1>2. store.custom \in [Currencies -> Nat]
    BY <1>1 DEF Stores
  <1> DEFINE custom == [store.custom EXCEPT ![c] = rate]
  <1>3. store' = [store EXCEPT !.code = c, !.custom = custom]
    BY <1>1 DEF Stores
  <1>4. custom \in [Currencies -> Nat] /\ custom[c] = rate
        /\ \A d \in Currencies : d # c => custom[d] = store.custom[d]
    BY <1>2
  <1> HIDE DEF custom
  <1>5. /\ store' \in Stores /\ store'.code = c /\ store'.custom = custom
        /\ store'.pricing = store.pricing /\ store'.keys = store.keys
    BY <1>1, <1>3, <1>4 DEF Stores
  <1>6. kept' \in [Currencies -> Nat] /\ kept'[c] = k
        /\ \A d \in Currencies : d # c => kept'[d] = kept[d]
    BY <1>1
  <1>7. RatesOf(store', kept')
    BY <1>1, <1>4, <1>5, <1>6 DEF RatesOf
  <1> QED
    BY <1>5, <1>6, <1>7

\* setActiveCurrency on this page.
LEMMA SetActiveStep ==
    ASSUME IndInv, NEW c \in Currencies, NEW rate \in Nat \ {0}, NEW k \in {0, rate},
           SetActiveCurrency(c, rate), kept' = [kept EXCEPT ![c] = k], Event
    PROVE  IndInv'
  <1>1. /\ store' = [store EXCEPT !.code = c, !.custom[c] = rate]
        /\ page' = Shows(page, store', table) /\ UNCHANGED <<table, exists, calls>>
    BY DEF SetActiveCurrency
  <1>2. /\ store' \in Stores /\ kept' \in [Currencies -> Nat] /\ RatesOf(store', kept')
        /\ store'.pricing = store.pricing /\ store'.keys = store.keys
    BY <1>1, PickFacts
  <1>3. /\ page' \in Pages /\ page'.currency = ActiveCurrency(store', table)
        /\ page'.on = page.on /\ page'.catalog = page.catalog /\ page'.apart = page.apart /\ page'.sim = page.sim /\ page'.lost = page.lost
        /\ page'.given = page.given /\ page'.revealed = page.revealed
        /\ page'.overwritten = page.overwritten /\ page'.loading = page.loading
        /\ page'.syncing = page.syncing /\ page'.delete = page.delete /\ page'.purge = page.purge
    BY <1>1, <1>2, Context, ShowsFacts
  <1>4. MoneyOf(page', store', table') /\ SameCatalog /\ SameKeys /\ SameModals
    BY <1>1, <1>2, <1>3 DEF MoneyOf, SameCatalog, SameKeys, SameModals
  <1>5. SameWaits
    BY <1>1, <1>3, CallsStay
  <1>6. KeysOf(page', store', calls') /\ WaitsOf(page', calls')
    BY <1>4, <1>5, Undisturbed
  <1> QED
    BY <1>1, <1>2, <1>3, <1>4, <1>6, Context, MoneyStep

\* A currency is picked from the list.
LEMMA SelectStep ==
    ASSUME IndInv, NEW c \in Currencies, SelectCurrency(c)
    PROVE  IndInv'
  <1>1. table[c] \in Nat \ {0}
    <2>1. table \in [Currencies -> Live \cup {1}]
      BY Context
    <2>2. Live \cup {1} \subseteq Nat \ {0}
      BY SettingsAssumption
    <2> QED
      BY <2>1, <2>2
  <1>2. SetActiveCurrency(c, table[c]) /\ kept' = [kept EXCEPT ![c] = 0] /\ Event
    BY DEF SelectCurrency
  <1> QED
    BY <1>1, <1>2, SetActiveStep

\* A rate is saved.
LEMMA SaveStep == IndInv /\ SaveFxRate => IndInv'
  <1> SUFFICES ASSUME IndInv, SaveFxRate
               PROVE  IndInv'
    OBVIOUS
  <1>1. page.currency.code \in Currencies /\ page.text \in Nat
    BY Context DEF Pages
  <1>2. page.text \in Nat \ {0}
    BY <1>1 DEF SaveFxRate
  <1>3. /\ SetActiveCurrency(page.currency.code, page.text) /\ Event
        /\ kept' = [kept EXCEPT ![page.currency.code] = page.text]
    BY DEF SaveFxRate
  <1> QED
    BY <1>1, <1>2, <1>3, SetActiveStep

\* Another tab picks a currency.
LEMMA OtherStep ==
    ASSUME IndInv, NEW c \in Currencies, OtherSelects(c)
    PROVE  IndInv'
  <1>1. /\ store' = [store EXCEPT !.code = c, !.custom[c] = 1] /\ kept' = [kept EXCEPT ![c] = 0]
        /\ page' = [page EXCEPT !.foreign = TRUE] /\ Event /\ UNCHANGED <<table, exists, calls>>
    BY DEF OtherSelects
  <1>2. /\ store' \in Stores /\ kept' \in [Currencies -> Nat] /\ RatesOf(store', kept')
        /\ store'.pricing = store.pricing /\ store'.keys = store.keys
    <2>1. 1 \in Nat \ {0} /\ 0 \in {0, 1}
      OBVIOUS
    <2> QED
      BY <1>1, <2>1, PickFacts
  <1>3. page \in Pages
    BY Context
  <1>4. page' \in Pages /\ page'.on = page.on /\ page'.foreign
    BY <1>1, <1>3 DEF Pages
  <1>5. SameCatalog /\ SameKeys /\ SameModals /\ MoneyOf(page', store', table')
    BY <1>1, <1>2, <1>3, <1>4 DEF Pages, SameCatalog, SameKeys, SameModals, MoneyOf
  <1>6. SameWaits
    BY <1>1, <1>4, CallsStay
  <1>7. KeysOf(page', store', calls') /\ WaitsOf(page', calls')
    BY <1>5, <1>6, Undisturbed
  <1> QED
    BY <1>1, <1>2, <1>4, <1>5, <1>7, Context, MoneyStep

\* A sync begins.
LEMMA SyncStep == IndInv /\ app \in Apps /\ SyncLiveFx => IndInv'
  <1> SUFFICES ASSUME IndInv, app \in Apps, SyncLiveFx
               PROVE  IndInv'
    OBVIOUS
  <1>1. /\ page.on /\ ~page.syncing /\ Event /\ page' = [page EXCEPT !.syncing = TRUE]
        /\ Ask("fx", None) /\ UNCHANGED <<store, table, exists, kept>>
    BY DEF SyncLiveFx
  <1>2. /\ calls' \subseteq Requests
        /\ \A c \in calls' : (c.timer => c.kind \in Kinds) /\ (c.here => page.on)
        /\ \E a : a.kind = "fx" /\ a.here /\ calls' = calls \cup {a}
    BY <1>1, AskFacts
  <1>3. page \in Pages /\ KeysOf(page, store, calls) /\ WaitsOf(page, calls)
    BY Context DEF IndInv
  <1>4. /\ page' \in Pages /\ page'.on = page.on /\ SameMoney /\ SameModals /\ SameCatalog
        /\ page'.given = page.given /\ page'.revealed = page.revealed
        /\ page'.overwritten = page.overwritten /\ page'.loading = page.loading
        /\ page'.syncing = TRUE
    BY <1>1, <1>3 DEF Pages, SameMoney, SameModals, SameCatalog
  <1>5. KeysOf(page', store', calls')
    BY <1>1, <1>2, <1>3, <1>4 DEF KeysOf
  <1>6. \A c \in calls : ~(c.here /\ c.kind = "fx")
    BY <1>1, <1>3 DEF KeysOf
  <1>7. WaitsOf(page', calls')
    BY <1>2, <1>3, <1>4, <1>6 DEF WaitsOf
  <1>8. SameRates
    BY <1>1 DEF SameRates
  <1> QED
    BY <1>1, <1>2, <1>4, <1>5, <1>7, <1>8, Context, KeyStep

\* The answer to a sync that still is awaited ends it.
LEMMA SyncedFacts ==
    ASSUME IndInv, NEW c \in calls, c.kind = "fx", calls' = calls \ {c},
           NEW p \in Pages, p.on = page.on, NEW s \in Stores, NEW t \in [Currencies -> Live \cup {1}],
           NEW source \in {"stored", "live", "fallback"},
           p.catalog = page.catalog, p.apart = page.apart /\ p.sim = page.sim /\ p.lost = page.lost, p.given = page.given,
           p.revealed = page.revealed, p.overwritten = page.overwritten,
           p.loading = page.loading, p.syncing = page.syncing,
           p.delete = page.delete, p.purge = page.purge,
           ~c.here => MoneyOf(p, s, t),
           store' = s, store'.pricing = store.pricing, store'.keys = store.keys,
           page' = Synced(p, c, s, t, source)
    PROVE  /\ page' \in Pages /\ MoneyOf(page', s, t) /\ SameCatalog /\ SameModals
           /\ KeysOf(page', store', calls') /\ WaitsOf(page', calls')
           /\ calls' \subseteq Requests /\ \A d \in calls' : d.timer => d.kind \in Kinds
  <1>1. /\ calls' \subseteq Requests
        /\ \A d \in calls' : d.timer => d.kind \in Kinds
        /\ KeysOf(page, store, calls) /\ WaitsOf(page, calls)
    BY Context DEF IndInv
  <1>2. (\E d \in calls' : d.here /\ d.kind = "key") <=> (\E d \in calls : d.here /\ d.kind = "key")
    OBVIOUS
  <1>3. CASE c.here
    <2> DEFINE q == Shows(p, s, t)
    <2>1. /\ q \in Pages /\ q.currency = ActiveCurrency(s, t) /\ q.on = p.on
          /\ q.catalog = p.catalog /\ q.apart = p.apart /\ q.sim = p.sim /\ q.lost = p.lost
          /\ q.given = p.given /\ q.revealed = p.revealed /\ q.overwritten = p.overwritten
          /\ q.loading = p.loading /\ q.delete = p.delete /\ q.purge = p.purge
      BY ShowsFacts
    <2>2. page' = [q EXCEPT !.syncing = FALSE, !.source = source]
      BY <1>3 DEF Synced
    <2> HIDE DEF q
    <2>3. /\ page' \in Pages /\ page'.currency = q.currency /\ page'.on = q.on
          /\ page'.catalog = q.catalog /\ page'.apart = q.apart /\ page'.sim = q.sim /\ page'.lost = q.lost
          /\ page'.given = q.given /\ page'.revealed = q.revealed
          /\ page'.overwritten = q.overwritten /\ page'.loading = q.loading
          /\ page'.delete = q.delete /\ page'.purge = q.purge /\ page'.syncing = FALSE
      BY <2>1, <2>2, ZenonT(60) DEF Pages
    <2>4. MoneyOf(page', s, t) /\ SameCatalog /\ SameModals
      BY <2>1, <2>3 DEF MoneyOf, SameCatalog, SameModals
    <2>5. \A d \in calls' : ~(d.here /\ d.kind = "fx")
      BY <1>1, <1>3 DEF WaitsOf
    <2>6. KeysOf(page', store', calls')
      BY <1>1, <1>2, <2>1, <2>3, <2>5 DEF KeysOf
    <2>7. WaitsOf(page', calls')
      BY <1>1, <2>1, <2>3 DEF WaitsOf
    <2> QED
      BY <1>1, <2>3, <2>4, <2>6, <2>7
  <1>4. CASE ~c.here
    <2>1. page' = p
      BY <1>4 DEF Synced
    <2>2. MoneyOf(page', s, t) /\ SameCatalog /\ SameModals /\ SameKeys
      BY <1>4, <2>1 DEF SameCatalog, SameModals, SameKeys
    <2>3. /\ Awaited(calls', "fx") = Awaited(calls, "fx")
          /\ Awaited(calls', "key") = Awaited(calls, "key")
      BY <1>4 DEF Awaited
    <2>4. SameWaits
      BY <2>1, <2>3, Context DEF SameWaits
    <2> QED
      BY <1>1, <2>1, <2>2, <2>4, Undisturbed
  <1> QED
    BY <1>3, <1>4

\* A source answers.
LEMMA FxAnswersStep ==
    ASSUME IndInv, NEW c \in calls, NEW got \in Rates, FxAnswers(c, got)
    PROVE  IndInv'
  <1> DEFINE live == [x \in DOMAIN got \cup {"USD"} |-> IF x = "USD" THEN 1 ELSE got[x]]
             t == [x \in Currencies |-> IF x \in DOMAIN live THEN live[x] ELSE table[x]]
             s == [store EXCEPT !.live = live]
             told == IF page.on THEN Shows(page, s, t) ELSE page
  <1>1. PICK cs \in SUBSET (Currencies \ {"USD"}) : got \in [cs -> Live]
    BY DEF Rates
  <1>2. "USD" \in Currencies /\ cs \cup {"USD"} \in SUBSET Currencies
    BY SettingsAssumption
  <1>3. live \in [cs \cup {"USD"} -> Live \cup {1}]
    BY <1>1
  <1>4. live \in LiveRates
    BY <1>2, <1>3 DEF LiveRates
  <1>5. /\ c.kind = "fx" /\ store' = s /\ table' = t /\ page' = Synced(told, c, s, t, "live")
        /\ calls' = calls \ {c} /\ UNCHANGED <<exists, kept, events>>
    BY DEF FxAnswers
  <1>6. /\ store \in Stores /\ table \in [Currencies -> Live \cup {1}] /\ page \in Pages
        /\ kept \in [Currencies -> Nat] /\ RatesOf(store, kept)
    BY Context DEF IndInv
  <1>7. t \in [Currencies -> Live \cup {1}]
    <2> HIDE DEF live
    <2> QED
      BY <1>3, <1>6
  <1> HIDE DEF live, t
  <1>8. /\ s \in Stores /\ s.code = store.code /\ s.custom = store.custom
        /\ s.pricing = store.pricing /\ s.keys = store.keys
    BY <1>4, <1>6 DEF Stores
  <1>9. RatesOf(store', kept')
    BY <1>5, <1>6, <1>8 DEF RatesOf
  <1> HIDE DEF s
  <1>10. /\ told \in Pages /\ MoneyOf(told, s, t) /\ told.on = page.on
         /\ told.catalog = page.catalog /\ told.apart = page.apart /\ told.sim = page.sim /\ told.lost = page.lost /\ told.given = page.given
         /\ told.revealed = page.revealed /\ told.overwritten = page.overwritten
         /\ told.loading = page.loading /\ told.syncing = page.syncing
         /\ told.delete = page.delete /\ told.purge = page.purge
    <2>1. CASE page.on
      <3>1. told = Shows(page, s, t)
        BY <2>1
      <3> HIDE DEF told
      <3>2. LET q == Shows(page, s, t) IN
            /\ q \in Pages /\ q.currency = ActiveCurrency(s, t) /\ q.on = page.on
            /\ q.catalog = page.catalog /\ q.apart = page.apart /\ q.sim = page.sim /\ q.lost = page.lost
            /\ q.given = page.given /\ q.revealed = page.revealed
            /\ q.overwritten = page.overwritten /\ q.loading = page.loading
            /\ q.syncing = page.syncing /\ q.delete = page.delete /\ q.purge = page.purge
        BY <1>6, <1>7, <1>8, ShowsFacts
      <3> QED
        BY <3>1, <3>2 DEF MoneyOf
    <2>2. CASE ~page.on
      BY <1>6, <2>2 DEF MoneyOf
    <2> QED
      BY <2>1, <2>2
  <1> HIDE DEF told
  <1>11. /\ page' \in Pages /\ MoneyOf(page', s, t) /\ SameCatalog /\ SameModals
         /\ KeysOf(page', store', calls') /\ WaitsOf(page', calls')
         /\ calls' \subseteq Requests /\ \A d \in calls' : d.timer => d.kind \in Kinds
    BY <1>5, <1>7, <1>8, <1>10, SyncedFacts
  <1> QED
    BY <1>5, <1>6, <1>7, <1>8, <1>9, <1>11, MoneyStep

\* A source fails.
LEMMA FxFailsStep ==
    ASSUME IndInv, NEW c \in calls, FxSourceFails(c)
    PROVE  IndInv'
  <1>1. /\ c.kind = "fx" /\ Event /\ UNCHANGED <<store, table, exists, kept>>
        /\ calls' = (calls \ {c}) \cup (IF c.source = Sources THEN {} ELSE {[c EXCEPT !.source = @ + 1]})
        /\ page' = IF c.source = Sources THEN Synced(page, c, store, table, "fallback") ELSE page
    BY DEF FxSourceFails
  <1>2. /\ store \in Stores /\ table \in [Currencies -> Live \cup {1}] /\ page \in Pages
        /\ kept \in [Currencies -> Nat] /\ c \in Requests
        /\ RatesOf(store, kept) /\ MoneyOf(page, store, table)
        /\ KeysOf(page, store, calls) /\ WaitsOf(page, calls)
    BY Context DEF IndInv
  <1>3. CASE c.source = Sources
    <2>1. calls' = calls \ {c} /\ page' = Synced(page, c, store, table, "fallback")
      BY <1>1, <1>3
    <2>2. /\ page' \in Pages /\ MoneyOf(page', store, table) /\ SameCatalog /\ SameModals
          /\ KeysOf(page', store', calls') /\ WaitsOf(page', calls')
          /\ calls' \subseteq Requests /\ \A d \in calls' : d.timer => d.kind \in Kinds
      BY <1>1, <1>2, <2>1, SyncedFacts
    <2> QED
      BY <1>1, <1>2, <2>2, MoneyStep
  <1>4. CASE c.source # Sources
    <2> DEFINE d == [c EXCEPT !.source = @ + 1]
    <2>1. c.source + 1 \in 1..Sources
      BY <1>2, <1>4, SettingsAssumption DEF Requests
    <2>2. d \in Requests /\ d.kind = "fx" /\ d.here = c.here /\ d.timer = c.timer
      BY <1>1, <1>2, <2>1 DEF Requests
    <2>3. calls' = (calls \ {c}) \cup {d} /\ page' = page
      BY <1>1, <1>4
    <2> HIDE DEF d
    <2>4. calls' \subseteq Requests /\ \A e \in calls' : e.timer => e.kind \in Kinds
      BY <1>1, <2>2, <2>3, Context
    <2>5. KeysOf(page', store', calls')
      <3>1. /\ (\E e \in calls' : e.here /\ e.kind = "fx") <=> (\E e \in calls : e.here /\ e.kind = "fx")
            /\ (\E e \in calls' : e.here /\ e.kind = "key") <=> (\E e \in calls : e.here /\ e.kind = "key")
        BY <1>1, <2>2, <2>3
      <3> QED
        BY <1>1, <1>2, <2>3, <3>1 DEF KeysOf
    <2>6. WaitsOf(page', calls')
      BY <1>1, <1>2, <2>2, <2>3 DEF WaitsOf
    <2>7. SameRates /\ SameMoney /\ SameCatalog /\ SameModals
      BY <1>1, <2>3 DEF SameRates, SameMoney, SameCatalog, SameModals
    <2> QED
      BY <1>1, <1>2, <2>3, <2>4, <2>5, <2>6, <2>7, KeyStep
  <1> QED
    BY <1>3, <1>4

-----------------------------------------------------------------------------
(* The page is left, opened and loaded.                                    *)

\* What is stored where a page is loaded anew, and the keys in it.
StoredAnew(s) ==
    /\ s \in Stores /\ s.code = store.code /\ s.custom = store.custom
    /\ s.pricing = store.pricing

\* A page is loaded anew.
LEMMA LoadStep ==
    ASSUME IndInv, NEW s, StoredAnew(s), NEW there \in SUBSET Workspaces, NEW w, LoadsAnew(s, there, w),
           Event \/ UNCHANGED events, UNCHANGED kept
    PROVE  IndInv'
  <1>1. /\ store' = s /\ exists' = there /\ table' = BuiltIn /\ calls' = {}
        /\ page' = IF page.on THEN Mounted(s, BuiltIn, {}) ELSE [page EXCEPT !.projects = {}]
    BY DEF LoadsAnew
  <1>2. BuiltIn \in [Currencies -> Live \cup {1}]
    BY DEF BuiltIn
  <1>3. /\ page \in Pages /\ RatesOf(store, kept) /\ CatalogOf(page, store) /\ WordsOf(page)
        /\ kept \in [Currencies -> Nat]
    BY Context DEF IndInv
  <1>4. s \in Stores /\ RatesOf(store', kept') /\ Distinct(s.pricing)
    BY <1>1, <1>3 DEF StoredAnew, RatesOf, CatalogOf
  <1>5. CASE page.on
    <2> DEFINE listed == {}
               q == Mounted(s, BuiltIn, listed)
    <2>0. listed \in SUBSET Workspaces
      OBVIOUS
    <2>1. page' = q
      BY <1>1, <1>5
    <2> HIDE DEF listed
    <2>2. /\ q \in Pages /\ q.on /\ MoneyOf(q, s, BuiltIn) /\ CatalogOf(q, s)
          /\ q.given = {} /\ q.revealed = s.keys /\ q.loading = None
          /\ q.syncing = FALSE /\ WordsOf(q)
      BY <1>2, <1>4, <2>0, MountedFacts
    <2> HIDE DEF q
    <2>3. KeysOf(page', store', calls') /\ WaitsOf(page', calls')
      BY <1>1, <2>1, <2>2 DEF KeysOf, WaitsOf
    <2>4. PageTyped'
      BY <1>1, <1>2, <1>3, <1>4, <2>1, <2>2, Context, EventType DEF PageTyped
    <2> QED
      BY <1>1, <1>4, <2>1, <2>2, <2>3, <2>4, PartsMakeInv
  <1>6. CASE ~page.on
    <2>1. page' = [page EXCEPT !.projects = {}]
      BY <1>1, <1>6
    <2>2. /\ page' \in Pages /\ ~page'.on /\ page'.catalog = page.catalog
          /\ page'.sim = page.sim /\ page'.lost = page.lost
          /\ page'.delete = page.delete /\ page'.purge = page.purge
      BY <1>3, <1>6, <2>1 DEF Pages
    <2>3. /\ MoneyOf(page', store', table') /\ CatalogOf(page', store') /\ WordsOf(page')
          /\ KeysOf(page', store', calls') /\ WaitsOf(page', calls')
      BY <1>1, <1>3, <1>4, <2>2 DEF MoneyOf, CatalogOf, WordsOf, KeysOf, WaitsOf
    <2>4. PageTyped'
      BY <1>1, <1>2, <1>3, <1>4, <2>2, Context, EventType DEF PageTyped
    <2> QED
      BY <1>4, <2>3, <2>4, PartsMakeInv
  <1> QED
    BY <1>5, <1>6

\* The tab is reloaded.
LEMMA ReloadStep == IndInv /\ ReloadPage => IndInv'
  <1> SUFFICES ASSUME IndInv, ReloadPage
               PROVE  IndInv'
    OBVIOUS
  <1>1. StoredAnew(store) /\ exists \in SUBSET Workspaces
    BY Context DEF StoredAnew
  <1>2. LoadsAnew(store, exists, app.saved) /\ Event /\ UNCHANGED kept
    BY DEF ReloadPage
  <1> QED
    BY <1>1, <1>2, LoadStep

\* A workspace is created.
LEMMA CreateStep ==
    ASSUME IndInv, NEW w \in Workspaces, Create(w)
    PROVE  IndInv'
  <1> DEFINE keys == [page.revealed EXCEPT ![w] = events + 1]
             s == [store EXCEPT !.keys = keys]
             there == exists \cup {w}
  <1>1. /\ Event /\ UNCHANGED kept
        /\ LoadsAnew(s, there, w) \/ LoadsAnew(store, there, w)
    BY DEF Create
  <1>2. /\ store \in Stores /\ page.revealed \in Keys /\ events + 1 \in Nat
        /\ there \in SUBSET Workspaces
    BY Context DEF Pages
  <1>3. keys \in Keys
    BY <1>2 DEF Keys
  <1> HIDE DEF keys
  <1>4. StoredAnew(s) /\ StoredAnew(store)
    BY <1>2, <1>3 DEF StoredAnew, Stores
  <1> HIDE DEF s, there
  <1> QED
    BY <1>1, <1>2, <1>4, LoadStep

\* A deletion is answered.
LEMMA DeleteStep ==
    ASSUME IndInv, NEW c \in calls, DeleteAnswers(c)
    PROVE  IndInv'
  <1>1. c.kind = "delete"
    BY DEF DeleteAnswers
  <1>2. CASE (\E w : LoadsAnew(store, exists \ {c.ws}, w)) /\ UNCHANGED <<kept, events>>
    <2>1. StoredAnew(store) /\ exists \ {c.ws} \in SUBSET Workspaces
      BY Context DEF StoredAnew
    <2> QED
      BY <1>2, <2>1, LoadStep
  <1>3. CASE /\ Done(c) /\ (Event \/ UNCHANGED events) /\ UNCHANGED <<store, table, exists, kept>>
    BY <1>1, <1>3, ModalSteps
  <1> QED
    BY <1>2, <1>3 DEF DeleteAnswers

\* The page is left.
LEMMA LeaveStep == IndInv /\ Leave => IndInv'
  <1> SUFFICES ASSUME IndInv, Leave
               PROVE  IndInv'
    OBVIOUS
  <1> DEFINE left(c) == IF c.here THEN [c EXCEPT !.here = FALSE, !.seen = page.revealed] ELSE c
  <1>1. /\ Event /\ UNCHANGED <<store, table, exists, kept>>
        /\ page' = [page EXCEPT !.on = FALSE] /\ calls' = {left(c) : c \in calls}
    BY DEF Leave, Unmounts
  <1>2. page \in Pages /\ page.revealed \in Keys
    BY Context DEF Pages
  <1>3. \A c \in calls : /\ left(c) \in Requests /\ ~left(c).here /\ left(c).kind = c.kind
                         /\ left(c).timer = c.timer
    BY <1>2, Context DEF Requests
  <1> HIDE DEF left
  <1>4. /\ calls' \subseteq Requests
        /\ \A c \in calls' : ~c.here /\ (c.timer => c.kind \in Kinds)
    BY <1>1, <1>3, Context
  <1>5. /\ page' \in Pages /\ ~page'.on /\ page'.catalog = page.catalog /\ SameModals
        /\ page'.sim = page.sim /\ page'.lost = page.lost
    BY <1>1, <1>2 DEF Pages, SameModals
  <1>6. SameRates
    BY <1>1 DEF SameRates
  <1>7. /\ MoneyOf(page', store', table') /\ KeysOf(page', store', calls')
        /\ WaitsOf(page', calls')
    BY <1>4, <1>5 DEF MoneyOf, KeysOf, WaitsOf
  <1>8. CatalogOf(page', store')
    BY <1>1, <1>5 DEF IndInv, CatalogOf
  <1>9. PageTyped'
    BY <1>1, <1>4, <1>5, Context, EventType DEF PageTyped
  <1> QED
    BY <1>5, <1>6, <1>7, <1>8, <1>9, Undisturbed, PartsMakeInv

\* The page is opened again.
LEMMA ReturnStep == IndInv /\ Return => IndInv'
  <1> SUFFICES ASSUME IndInv, Return
               PROVE  IndInv'
    OBVIOUS
  <1>1. /\ Event /\ ~page.on /\ page' = Mounted(store, table, page.projects)
        /\ UNCHANGED <<store, table, exists, calls, kept>>
    BY DEF Return
  <1>2. /\ store \in Stores /\ table \in [Currencies -> Live \cup {1}]
        /\ page.projects \in SUBSET Workspaces /\ Distinct(store.pricing)
        /\ \A c \in calls : ~c.here
    BY <1>1, Context DEF Pages
  <1>3. /\ page' \in Pages /\ page'.on /\ MoneyOf(page', store, table) /\ CatalogOf(page', store)
        /\ page'.given = {} /\ page'.revealed = store.keys /\ page'.loading = None
        /\ page'.syncing = FALSE /\ WordsOf(page')
    <2> DEFINE there == page.projects
               q == Mounted(store, table, there)
    <2>0. there \in SUBSET Workspaces
      BY <1>2
    <2> HIDE DEF there
    <2>1. /\ q \in Pages /\ q.on /\ MoneyOf(q, store, table) /\ CatalogOf(q, store)
          /\ q.given = {} /\ q.revealed = store.keys /\ q.loading = None
          /\ q.syncing = FALSE /\ WordsOf(q)
      BY <1>2, <2>0, MountedFacts
    <2>2. page' = q
      BY <1>1 DEF there
    <2> HIDE DEF q
    <2> QED
      BY <2>1, <2>2
  <1>4. KeysOf(page', store', calls') /\ WaitsOf(page', calls')
    BY <1>1, <1>2, <1>3 DEF KeysOf, WaitsOf
  <1>5. SameRates
    BY <1>1 DEF SameRates
  <1>6. PageTyped'
    BY <1>1, <1>3, Context, EventType DEF PageTyped
  <1> QED
    BY <1>1, <1>3, <1>4, <1>5, <1>6, Undisturbed, PartsMakeInv

\* The list of workspaces arrives.
LEMMA ArriveStep == IndInv /\ ProjectsArrive => IndInv'
  <1> SUFFICES ASSUME IndInv, ProjectsArrive
               PROVE  IndInv'
    OBVIOUS
  <1>1. /\ UNCHANGED <<store, table, exists, kept, events>>
        /\ \/ page' = [page EXCEPT !.projects = exists] /\ calls' = calls
           \/ page' = Mounted(store, table, exists) /\ Unmounts
    BY DEF ProjectsArrive
  <1>2. /\ store \in Stores /\ table \in [Currencies -> Live \cup {1}] /\ page \in Pages
        /\ exists \in SUBSET Workspaces /\ Distinct(store.pricing)
    BY Context
  <1>3. CASE page' = [page EXCEPT !.projects = exists] /\ calls' = calls
    <2>1. /\ page' \in Pages /\ page'.on = page.on /\ SameMoney /\ SameModals
      BY <1>2, <1>3 DEF Pages, SameMoney, SameModals
    <2>2. SameKeys /\ SameCatalog
      BY <1>1, <1>2, <1>3 DEF Pages, SameKeys, SameCatalog
    <2>3. SameWaits
      BY <1>3, <2>1, CallsStay
    <2>4. CatalogOf(page', store') /\ WordsOf(page')
      BY <2>1, <2>2, Undisturbed
    <2> QED
      BY <1>1, <1>3, <2>1, <2>2, <2>3, <2>4, Context, EditStep
  <1>4. CASE page' = Mounted(store, table, exists) /\ Unmounts
    <2> DEFINE left(c) == IF c.here THEN [c EXCEPT !.here = FALSE, !.seen = page.revealed] ELSE c
    <2>1. calls' = {left(c) : c \in calls} /\ page.revealed \in Keys
      BY <1>2, <1>4 DEF Unmounts, Pages
    <2>2. \A c \in calls : /\ left(c) \in Requests /\ ~left(c).here /\ left(c).kind = c.kind
                           /\ left(c).timer = c.timer
      BY <2>1, Context DEF Requests
    <2> HIDE DEF left
    <2>3. /\ calls' \subseteq Requests
          /\ \A c \in calls' : ~c.here /\ (c.timer => c.kind \in Kinds)
      BY <2>1, <2>2, Context
    <2>4. /\ page' \in Pages /\ page'.on /\ MoneyOf(page', store, table) /\ CatalogOf(page', store)
          /\ page'.given = {} /\ page'.revealed = store.keys /\ page'.loading = None
          /\ page'.syncing = FALSE /\ WordsOf(page')
      <3> DEFINE q == Mounted(store, table, exists)
      <3>1. /\ q \in Pages /\ q.on /\ MoneyOf(q, store, table) /\ CatalogOf(q, store)
            /\ q.given = {} /\ q.revealed = store.keys /\ q.loading = None
            /\ q.syncing = FALSE /\ WordsOf(q)
        BY <1>2, MountedFacts
      <3>2. page' = q
        BY <1>4
      <3> HIDE DEF q
      <3> QED
        BY <3>1, <3>2
    <2>5. KeysOf(page', store', calls') /\ WaitsOf(page', calls')
      BY <1>1, <2>3, <2>4 DEF KeysOf, WaitsOf
    <2>6. SameRates
      BY <1>1 DEF SameRates
    <2>7. PageTyped'
      BY <1>1, <2>3, <2>4, Context, EventType DEF PageTyped
    <2> QED
      BY <1>1, <2>4, <2>5, <2>6, <2>7, Undisturbed, PartsMakeInv
  <1> QED
    BY <1>1, <1>3, <1>4

\* A step that changes nothing but the workspace in the headers.
LEMMA HeaderStep ==
    ASSUME IndInv, UNCHANGED <<store, table, exists, page, calls, kept>>, Event \/ UNCHANGED events
    PROVE  IndInv'
  <1>1. SameRates /\ SameMoney /\ SameKeys
    BY DEF SameRates, SameMoney, SameKeys
  <1>2. SameWaits
    BY CallsStay
  <1> QED
    BY <1>1, <1>2, Context, PageStays, EditStep

-----------------------------------------------------------------------------
(* The first state, and every step.                                        *)

\* The tab opens with nothing kept and nothing under way.
LEMMA InitInvariant == Init => IndInv
  <1> SUFFICES ASSUME Init
               PROVE  IndInv
    OBVIOUS
  <1> DEFINE live == [c \in {} |-> 1]
             custom == [c \in Currencies |-> 0]
  <1>1. /\ store = [code |-> None, custom |-> custom, live |-> live, pricing |-> <<>>, keys |-> NoKeys]
        /\ table = BuiltIn /\ exists = Existing /\ calls = {} /\ events = 0 /\ kept = custom
        /\ \E ps \in {{}, exists} : page = Mounted(store, table, ps)
    BY DEF Init
  <1>2. live \in LiveRates
    <2>1. live \in [{} -> Live \cup {1}] /\ {} \in SUBSET Currencies
      OBVIOUS
    <2> QED
      BY <2>1 DEF LiveRates
  <1>3. custom \in [Currencies -> Nat] /\ NoKeys \in Keys /\ <<>> \in Seq(Rows)
    BY DEF NoKeys, Keys
  <1> HIDE DEF live
  <1>4. store \in Stores /\ store.code = None /\ store.pricing = <<>>
    BY <1>1, <1>2, <1>3 DEF Stores
  <1>5. RatesOf(store, kept)
    BY <1>1, <1>4 DEF RatesOf
  <1>6. BuiltIn \in [Currencies -> Live \cup {1}] /\ Existing \in SUBSET Workspaces
    BY SettingsAssumption DEF BuiltIn
  <1>7. Distinct(store.pricing)
    BY <1>4 DEF Distinct
  <1>8. /\ page \in Pages /\ page.on /\ MoneyOf(page, store, table) /\ CatalogOf(page, store)
        /\ page.given = {} /\ page.revealed = store.keys /\ page.loading = None
        /\ page.syncing = FALSE /\ WordsOf(page)
    <2>0. PICK ps \in {{}, exists} : page = Mounted(store, table, ps)
      BY <1>1
    <2> DEFINE q == Mounted(store, table, ps)
    <2>1. table \in [Currencies -> Live \cup {1}] /\ ps \in SUBSET Workspaces
      BY <1>1, <1>6, <2>0
    <2>2. /\ q \in Pages /\ q.on /\ MoneyOf(q, store, table) /\ CatalogOf(q, store)
          /\ q.given = {} /\ q.revealed = store.keys /\ q.loading = None
          /\ q.syncing = FALSE /\ WordsOf(q)
      BY <1>4, <1>7, <2>1, MountedFacts
    <2>3. page = q
      BY <2>0
    <2> HIDE DEF q
    <2> QED
      BY <2>2, <2>3
  <1>9. KeysOf(page, store, calls) /\ WaitsOf(page, calls)
    BY <1>1, <1>8 DEF KeysOf, WaitsOf
  <1>10. PageTyped
    BY <1>1, <1>3, <1>4, <1>6, <1>8 DEF PageTyped
  <1> QED
    BY <1>5, <1>8, <1>9, <1>10 DEF IndInv

\* Every step keeps the invariant.
LEMMA StepInvariant == IndInv /\ app \in Apps /\ [Next]_vars => IndInv'
  <1> SUFFICES ASSUME IndInv, app \in Apps, [Next]_vars
               PROVE  IndInv'
    OBVIOUS
  <1>1. CASE Leave \/ Return \/ ReloadPage \/ ProjectsArrive
    BY <1>1, LeaveStep, ReturnStep, ReloadStep, ArriveStep
  <1>2. CASE \E c \in Currencies : SelectCurrency(c) \/ OtherSelects(c)
    BY <1>2, SelectStep, OtherStep
  <1>3. CASE \E r \in Typed : TypeRate(r)
    BY <1>3, TypeRateStep
  <1>4. CASE SaveFxRate \/ SyncLiveFx
    BY <1>4, SaveStep, SyncStep
  <1>5. ASSUME NEW c \in calls,
               \/ \E got \in Rates : FxAnswers(c, got)
               \/ FxSourceFails(c) \/ KeyAnswers(c) \/ KeyFails(c)
               \/ DeleteAnswers(c) \/ PurgeAnswers(c) \/ ModalTimer(c)
        PROVE  IndInv'
    BY <1>5, FxAnswersStep, FxFailsStep, KeyAnswersStep, KeyFailsStep, DeleteStep, ModalSteps
  <1>6. ASSUME NEW i, (\E r \in Prices : UpdateModelRate(i, r)) \/ DeleteCustomModel(i) \/ SelectSimModel(i)
        PROVE  IndInv'
    BY <1>6, UpdateModelStep, CatalogSteps, SimStep
  <1>7. CASE SaveCatalog \/ ResetCatalog \/ \E m \in Models, r \in Prices : AddNewModel(m, r)
    BY <1>7, CatalogSteps
  <1>8. ASSUME NEW w \in Workspaces,
               FetchApiKey(w) \/ OtherKeys(w) \/ Create(w) \/ DeletedElsewhere(w) \/ SelectProject(w)
        PROVE  IndInv'
    <2>1. CASE SelectProject(w)
      <3>1. StoredAnew(store) /\ exists \in SUBSET Workspaces
        BY Context DEF StoredAnew
      <3>2. LoadsAnew(store, exists, w) /\ Event /\ UNCHANGED kept
        BY <2>1 DEF SelectProject
      <3> QED
        BY <3>1, <3>2, LoadStep
    <2> QED
      BY <1>8, <2>1, FetchStep, OtherKeysStep, CreateStep, ElsewhereStep
  <1>9. ASSUME NEW kind \in Kinds,
               (\E w \in Workspaces : OpenModal(kind, w)) \/ TypeOrCancel(kind) \/ Confirm(kind)
        PROVE  IndInv'
    BY <1>9, OpenStep, TypeOrCancelStep, ConfirmStep
  <1>10. CASE \/ UNCHANGED vars \/ FetchData
              \/ \E w \in Workspaces : OtherSelectsProject(w) \/ OlderFetch(w)
    <2>1. UNCHANGED <<store, table, exists, page, calls, kept>> /\ (Event \/ UNCHANGED events)
      BY <1>10 DEF vars, FetchData, OtherSelectsProject, OlderFetch
    <2> QED
      BY <2>1, HeaderStep
  <1>11. CASE \E m \in ModelNames, r \in Prices : OtherSaves(m, r)
    BY <1>11, OtherSavesStep
  <1>12. CASE Next
    BY <1>1, <1>2, <1>3, <1>4, <1>5, <1>6, <1>7, <1>8, <1>9, <1>10, <1>11, <1>12 DEF Next, Kinds
  <1> QED
    BY <1>10, <1>12

-----------------------------------------------------------------------------
(* The workspace that is selected, and the one in the headers.             *)

\* The workspaces that are or were selected since the tab was loaded.
Chosen == {app.active} \cup app.older

\* The headers have one of them, and so has every request and its timer; the
\* modal of a purge is open for the one that is selected.
HeaderInv ==
    /\ app \in Apps /\ app.header \in Chosen
    /\ ~app.settled => app.older = {}
    /\ \A c \in calls : c.by \in Chosen /\ (c.kind = "purge" => c.ws = c.by \/ c.ws \in app.older)
    /\ page.on /\ page.purge.ws # None => page.purge.ws = app.active

\* A step that leaves app alone, and adds no call but of a selected workspace.
LEMMA HeaderStays ==
    ASSUME HeaderInv, app' = app,
           \A c \in calls' :
              \/ \E d \in calls : c.by = d.by /\ c.kind = d.kind /\ c.ws = d.ws
              \/ (c.by = app.active /\ (c.kind = "purge" => c.ws = app.header)),
           page'.on /\ page'.purge.ws # None => page'.purge.ws = app.active
    PROVE  HeaderInv'
  <1>1. Chosen' = Chosen
    BY DEF Chosen
  <1>2. ASSUME NEW c \in calls'
        PROVE  c.by \in Chosen /\ (c.kind = "purge" => c.ws = c.by \/ c.ws \in app.older)
    <2>1. CASE \E d \in calls : c.by = d.by /\ c.kind = d.kind /\ c.ws = d.ws
      BY <2>1 DEF HeaderInv
    <2>2. CASE c.by = app.active /\ (c.kind = "purge" => c.ws = app.header)
      BY <2>2 DEF HeaderInv, Chosen
    <2> QED
      BY <2>1, <2>2
  <1> QED
    BY <1>1, <1>2 DEF HeaderInv

\* A fetchData puts a workspace into the headers.
LEMMA FetchesStep ==
    ASSUME HeaderInv, NEW w \in Chosen, Fetches(w), calls' \subseteq calls,
           page'.on /\ page'.purge.ws # None => page'.purge.ws = app.active
    PROVE  HeaderInv'
  <1>1. app \in Apps /\ w \in Workspaces
    BY DEF HeaderInv, Chosen, Apps
  <1>2. /\ app' \in Apps /\ app'.header = w /\ app'.active = app.active
        /\ app'.older = app.older /\ app'.settled = app.settled
    BY <1>1 DEF Fetches, Apps
  <1>3. Chosen' = Chosen
    BY <1>2 DEF Chosen
  <1> QED
    BY <1>2, <1>3 DEF HeaderInv

\* Every call that is left is one that was there, perhaps a step further.
Further == \A c \in calls' : \E d \in calls : c.by = d.by /\ c.kind = d.kind /\ c.ws = d.ws
PurgeStays == page'.on = page.on /\ page'.purge.ws = page.purge.ws

\* A step of that kind keeps what is known of the headers.
LEMMA QuietStep ==
    ASSUME HeaderInv, app' = app, Further, PurgeStays
    PROVE  HeaderInv'
  <1>1. page'.on /\ page'.purge.ws # None => page'.purge.ws = app.active
    BY DEF PurgeStays, HeaderInv
  <1> QED
    BY <1>1, HeaderStays DEF Further

\* What is typed, saved and set on the page.
LEMMA QuietEdits ==
    ASSUME IndInv, HeaderInv,
           \/ \E c \in Currencies : SelectCurrency(c) \/ OtherSelects(c)
           \/ \E r \in Typed : TypeRate(r)
           \/ SaveFxRate
           \/ \E i : (\E r \in Prices : UpdateModelRate(i, r)) \/ DeleteCustomModel(i) \/ SelectSimModel(i)
           \/ SaveCatalog \/ ResetCatalog
           \/ \E m \in Models, r \in Prices : AddNewModel(m, r)
           \/ \E m \in ModelNames, r \in Prices : OtherSaves(m, r)
           \/ \E w \in Workspaces : OtherKeys(w) \/ DeletedElsewhere(w)
    PROVE  HeaderInv'
  <1>1. page \in Pages
    BY Context
  <1>2. /\ app' = app /\ calls' = calls
        /\ \/ \E c \in Currencies : \E rate : SetActiveCurrency(c, rate)
           \/ \E r : page' = [page EXCEPT !.text = r]
           \/ page' = [page EXCEPT !.foreign = TRUE]
           \/ \E i, r : page' = [page EXCEPT !.catalog[i].price = r, !.catalog[i].custom = TRUE, !.apart = TRUE]
           \/ \E m : page' = [page EXCEPT !.sim = m, !.lost = FALSE]
           \/ \E c, s, l : Saves(c, s, l)
           \/ page' = [page EXCEPT !.apart = TRUE]
           \/ page' = [page EXCEPT !.overwritten = TRUE]
           \/ page' = page
    <2>1. ASSUME NEW c \in Currencies, SelectCurrency(c) \/ OtherSelects(c)
          PROVE  /\ app' = app /\ calls' = calls
                 /\ (\E rate : SetActiveCurrency(c, rate)) \/ page' = [page EXCEPT !.foreign = TRUE]
      BY <2>1 DEF SelectCurrency, OtherSelects, SetActiveCurrency
    <2>2. ASSUME SaveFxRate
          PROVE  app' = app /\ calls' = calls /\ \E c \in Currencies : \E rate : SetActiveCurrency(c, rate)
      BY <1>1, <2>2 DEF SaveFxRate, SetActiveCurrency, Pages
    <2>3. ASSUME NEW i, NEW r, TypeRate(r) \/ UpdateModelRate(i, r) \/ SelectSimModel(i)
          PROVE  /\ app' = app /\ calls' = calls
                 /\ \/ page' = [page EXCEPT !.text = r]
                    \/ page' = [page EXCEPT !.catalog[i].price = r, !.catalog[i].custom = TRUE, !.apart = TRUE]
                    \/ \E m : page' = [page EXCEPT !.sim = m, !.lost = FALSE]
      BY <2>3 DEF TypeRate, UpdateModelRate, SelectSimModel
    <2>4. ASSUME NEW c, NEW s, NEW l, Saves(c, s, l)
          PROVE  app' = app /\ calls' = calls
      BY <2>4 DEF Saves
    <2>5. ASSUME NEW i, DeleteCustomModel(i)
          PROVE  \E c, s, l : Saves(c, s, l)
      BY <2>5, Zenon DEF DeleteCustomModel
    <2>6. ASSUME NEW m, NEW r, AddNewModel(m, r)
          PROVE  \E c, s, l : Saves(c, s, l)
      BY <2>6, Zenon DEF AddNewModel
    <2>7. ASSUME SaveCatalog \/ ResetCatalog
          PROVE  \E c, s, l : Saves(c, s, l)
      BY <2>7, Zenon DEF SaveCatalog, ResetCatalog
    <2>8. ASSUME NEW m, NEW r, OtherSaves(m, r)
          PROVE  app' = app /\ calls' = calls /\ page' = [page EXCEPT !.apart = TRUE]
      BY <2>8 DEF OtherSaves
    <2>9. ASSUME NEW w, OtherKeys(w) \/ DeletedElsewhere(w)
          PROVE  /\ app' = app /\ calls' = calls
                 /\ page' = [page EXCEPT !.overwritten = TRUE] \/ page' = page
      BY <2>9 DEF OtherKeys, DeletedElsewhere
    <2> QED
      BY <2>1, <2>2, <2>3, <2>4, <2>5, <2>6, <2>7, <2>8, <2>9, Zenon
  <1>3. PurgeStays
    <2>1. ASSUME NEW c, NEW rate, SetActiveCurrency(c, rate)
          PROVE  PurgeStays
      <3> DEFINE a == ActiveCurrency(store', table)
                 v == a.rate
      <3>1. page' = [page EXCEPT !.currency = a, !.text = v, !.foreign = FALSE]
        BY <2>1 DEF SetActiveCurrency, Shows
      <3> HIDE DEF a, v
      <3> QED
        BY <1>1, <3>1 DEF Pages, PurgeStays
    <2>2. ASSUME NEW i, NEW r,
                 page' = [page EXCEPT !.catalog[i].price = r, !.catalog[i].custom = TRUE, !.apart = TRUE]
          PROVE  PurgeStays
      BY <1>1, <2>2, ZenonT(60) DEF Pages, PurgeStays
    <2>3. ASSUME NEW c, NEW s, NEW l, Saves(c, s, l)
          PROVE  PurgeStays
      BY <1>1, <2>3 DEF Saves, Pages, PurgeStays
    <2>4. ASSUME NEW r, \/ page' = [page EXCEPT !.text = r] \/ page' = [page EXCEPT !.foreign = TRUE]
                       \/ page' = [page EXCEPT !.sim = r, !.lost = FALSE]
                       \/ page' = [page EXCEPT !.apart = TRUE]
                       \/ page' = [page EXCEPT !.overwritten = TRUE] \/ page' = page
          PROVE  PurgeStays
      BY <1>1, <2>4 DEF Pages, PurgeStays
    <2> QED
      BY <1>2, <2>1, <2>2, <2>3, <2>4, Zenon
  <1>4. Further
    BY <1>2 DEF Further
  <1> QED
    BY <1>2, <1>3, <1>4, QuietStep

\* Requests.
LEMMA AskingSteps ==
    ASSUME IndInv, HeaderInv,
           \/ \E w \in Workspaces : FetchApiKey(w)
           \/ SyncLiveFx \/ \E kind \in Kinds : Confirm(kind)
    PROVE  HeaderInv'
  <1>1. page \in Pages /\ page.purge \in Modals /\ page.delete \in Modals
    BY Context DEF Pages
  <1>2. ASSUME NEW kind, NEW w, Ask(kind, w), kind = "purge" => w = app.header, app' = app, PurgeStays
        PROVE  HeaderInv'
    <2>1. \A c \in calls' :
             \/ \E d \in calls : c.by = d.by /\ c.kind = d.kind /\ c.ws = d.ws
             \/ (c.by = app.active /\ (c.kind = "purge" => c.ws = app.header))
      <3> DEFINE a == [kind |-> kind, ws |-> w, n |-> events + 1, here |-> TRUE, by |-> app.active,
                       seen |-> page.revealed, source |-> 1, timer |-> FALSE]
      <3>1. a.by = app.active /\ a.kind = kind /\ a.ws = w
        OBVIOUS
      <3>2. calls' = calls \cup {a}
        BY <1>2 DEF Ask
      <3> HIDE DEF a
      <3> QED
        BY <1>2, <3>1, <3>2
    <2>2. page'.on /\ page'.purge.ws # None => page'.purge.ws = app.active
      BY <1>2 DEF PurgeStays, HeaderInv
    <2> QED
      BY <1>2, <2>1, <2>2, HeaderStays
  <1>3. ASSUME NEW w \in Workspaces, FetchApiKey(w)
        PROVE  HeaderInv'
    <2>1. PurgeStays
      BY <1>1, <1>3 DEF FetchApiKey, Pages, PurgeStays
    <2> QED
      BY <1>2, <1>3, <2>1 DEF FetchApiKey
  <1>4. ASSUME SyncLiveFx
        PROVE  HeaderInv'
    <2>1. PurgeStays
      BY <1>1, <1>4 DEF SyncLiveFx, Pages, PurgeStays
    <2> QED
      BY <1>2, <1>4, <2>1 DEF SyncLiveFx
  <1>5. ASSUME NEW kind \in Kinds, Confirm(kind)
        PROVE  HeaderInv'
    <2>1. page' = [page EXCEPT ![kind].says = "busy"]
      BY <1>5 DEF Confirm
    <2>2. PurgeStays
      <3>1. CASE kind = "delete"
        BY <1>1, <2>1, <3>1 DEF Pages, PurgeStays
      <3>2. CASE kind = "purge"
        BY <1>1, <2>1, <3>2 DEF Pages, Modals, PurgeStays
      <3> QED
        BY <3>1, <3>2 DEF Kinds
    <2>3. app' = app /\ Ask(kind, IF kind = "purge" THEN app.header ELSE page[kind].ws)
      BY <1>5 DEF Confirm
    <2> QED
      BY <1>2, <2>2, <2>3
  <1> QED
    BY <1>3, <1>4, <1>5

\* A workspace is loaded anew.
LEMMA AnewStep ==
    ASSUME IndInv, HeaderInv, NEW s \in Stores, Distinct(s.pricing), NEW there, NEW w \in Workspaces,
           LoadsAnew(s, there, w)
    PROVE  HeaderInv'
  <1>1. /\ calls' = {}
        /\ app' = [active |-> w, header |-> w, saved |-> w, older |-> {}, settled |-> FALSE]
        /\ page' = IF page.on THEN Mounted(s, BuiltIn, {}) ELSE [page EXCEPT !.projects = {}]
    BY DEF LoadsAnew
  <1>2. app' \in Apps /\ app'.header \in Chosen' /\ app'.older = {}
    BY <1>1 DEF Apps, Chosen
  <1>3. page'.on => page'.purge.ws = None
    <2>1. CASE page.on
      <3> DEFINE listed == {}
                 q == Mounted(s, BuiltIn, listed)
      <3>1. BuiltIn \in [Currencies -> Live \cup {1}] /\ listed \in SUBSET Workspaces
        BY DEF BuiltIn
      <3>3. page' = q
        BY <1>1, <2>1
      <3> HIDE DEF listed
      <3>2. q.purge.ws = None
        BY <3>1, MountedFacts
      <3> HIDE DEF q
      <3> QED
        BY <3>2, <3>3
    <2>2. CASE ~page.on
      BY <1>1, <2>2, Context DEF Pages
    <2> QED
      BY <2>1, <2>2
  <1> QED
    BY <1>1, <1>2, <1>3 DEF HeaderInv

\* Steps that load the page anew.
LEMMA AnewSteps ==
    ASSUME IndInv, HeaderInv,
           \/ ReloadPage \/ \E w \in Workspaces : Create(w) \/ SelectProject(w)
           \/ \E c \in calls, w \in page.projects \cup {app.saved} : LoadsAnew(store, exists \ {c.ws}, w)
    PROVE  HeaderInv'
  <1>1. /\ store \in Stores /\ Distinct(store.pricing) /\ page.projects \in SUBSET Workspaces
        /\ app.saved \in Workspaces /\ page.revealed \in Keys /\ events + 1 \in Nat
    BY Context DEF Pages, HeaderInv, Apps
  <1>2. CASE ReloadPage
    BY <1>1, <1>2, AnewStep DEF ReloadPage
  <1>3. ASSUME NEW w \in Workspaces, SelectProject(w)
        PROVE  HeaderInv'
    BY <1>1, <1>3, AnewStep DEF SelectProject
  <1>4. ASSUME NEW w \in Workspaces, Create(w)
        PROVE  HeaderInv'
    <2> DEFINE keys == [page.revealed EXCEPT ![w] = events + 1]
               s == [store EXCEPT !.keys = keys]
               there == exists \cup {w}
    <2>1. LoadsAnew(s, there, w) \/ LoadsAnew(store, there, w)
      BY <1>4 DEF Create
    <2>2. keys \in Keys
      BY <1>1 DEF Keys
    <2> HIDE DEF keys, there
    <2>3. s \in Stores /\ s.pricing = store.pricing
      BY <1>1, <2>2 DEF Stores
    <2> HIDE DEF s
    <2> QED
      BY <1>1, <2>1, <2>3, AnewStep
  <1>5. CASE \E c \in calls, w \in page.projects \cup {app.saved} : LoadsAnew(store, exists \ {c.ws}, w)
    BY <1>1, <1>5, AnewStep
  <1> QED
    BY <1>2, <1>3, <1>4, <1>5

\* What a modal says does not change whom it is open for.
LEMMA SaysStays ==
    ASSUME IndInv, NEW kind \in Kinds, NEW says, page' = [page EXCEPT ![kind].says = says]
    PROVE  PurgeStays
  <1>1. page \in Pages /\ page.purge \in Modals /\ page.delete \in Modals
    BY Context DEF Pages
  <1>2. CASE kind = "delete"
    BY <1>1, <1>2 DEF Pages, PurgeStays
  <1>3. CASE kind = "purge"
    BY <1>1, <1>3 DEF Pages, Modals, PurgeStays
  <1> QED
    BY <1>2, <1>3 DEF Kinds

\* Nor does a page that shows another currency.
LEMMA ShowsStay ==
    ASSUME NEW p \in Pages, NEW s, NEW t
    PROVE  Shows(p, s, t).on = p.on /\ Shows(p, s, t).purge = p.purge
  <1> DEFINE a == ActiveCurrency(s, t)
             v == a.rate
  <1>1. Shows(p, s, t) = [p EXCEPT !.currency = a, !.text = v, !.foreign = FALSE]
    BY DEF Shows
  <1> HIDE DEF a, v
  <1> QED
    BY <1>1 DEF Pages

\* The end of a sync leaves the modals, and whether the page is on, alone.
LEMMA SyncedStays ==
    ASSUME NEW p, p \in Pages, NEW c, NEW s \in Stores, NEW t \in [Currencies -> Live \cup {1}], NEW source
    PROVE  Synced(p, c, s, t, source).on = p.on /\ Synced(p, c, s, t, source).purge = p.purge
  <1>1. CASE c.here
    <2> DEFINE q == Shows(p, s, t)
    <2>1. q \in Pages /\ q.on = p.on /\ q.purge = p.purge
      BY ShowsFacts, ShowsStay
    <2>2. Synced(p, c, s, t, source) = [q EXCEPT !.syncing = FALSE, !.source = source]
      BY <1>1 DEF Synced
    <2> HIDE DEF q
    <2> QED
      BY <2>1, <2>2 DEF Pages
  <1>2. CASE ~c.here
    BY <1>2 DEF Synced
  <1> QED
    BY <1>1, <1>2

\* Answers that change no workspace.
LEMMA AnswerSteps ==
    ASSUME IndInv, HeaderInv, NEW c \in calls,
           \/ \E got \in Rates : FxAnswers(c, got)
           \/ FxSourceFails(c) \/ KeyAnswers(c) \/ KeyFails(c) \/ PurgeAnswers(c)
           \/ (c.kind = "delete" /\ Done(c) /\ app' = app)
    PROVE  HeaderInv'
  <1>1. /\ store \in Stores /\ table \in [Currencies -> Live \cup {1}] /\ page \in Pages
        /\ c \in Requests
    BY Context
  <1>2. ASSUME calls' \subseteq calls
        PROVE  Further
    BY <1>2 DEF Further
  <1>3. CASE \E got \in Rates : FxAnswers(c, got)
    <2>1. PICK got \in Rates : FxAnswers(c, got)
      BY <1>3
    <2>2. app' = app /\ Further
      BY <1>2, <2>1 DEF FxAnswers
    <2> DEFINE told == IF page.on THEN Shows(page, store', table') ELSE page
    <2>3. page' = Synced(told, c, store', table', "live")
      BY <2>1 DEF FxAnswers
    <2>4. PageTyped'
      BY <2>1, FxAnswersStep DEF IndInv
    <2>5. store' \in Stores /\ table' \in [Currencies -> Live \cup {1}]
      BY <2>4 DEF PageTyped
    <2>6. told \in Pages /\ told.on = page.on /\ told.purge = page.purge
      BY <1>1, <2>5, ShowsFacts, ShowsStay
    <2> HIDE DEF told
    <2>7. PurgeStays
      BY <2>3, <2>5, <2>6, SyncedStays DEF PurgeStays
    <2> QED
      BY <2>2, <2>7, QuietStep
  <1>4. CASE FxSourceFails(c)
    <2> DEFINE d == [c EXCEPT !.source = c.source + 1]
    <2>1. d.by = c.by /\ d.kind = c.kind /\ d.ws = c.ws
      BY <1>1 DEF Requests
    <2>2. /\ app' = app /\ calls' \subseteq calls \cup {d}
          /\ page' = page \/ page' = Synced(page, c, store, table, "fallback")
      BY <1>4 DEF FxSourceFails
    <2> HIDE DEF d
    <2>3. Further
      BY <2>1, <2>2 DEF Further
    <2>4. PurgeStays
      BY <1>1, <2>2, SyncedStays DEF PurgeStays
    <2> QED
      BY <2>2, <2>3, <2>4, QuietStep
  <1>5. CASE KeyAnswers(c)
    <2>1. app' = app /\ calls' \subseteq calls
      BY <1>5 DEF KeyAnswers
    <2>2. \/ \E keys, given : page' = [page EXCEPT !.revealed = keys, !.given = given, !.loading = None]
          \/ page' = [page EXCEPT !.overwritten = TRUE] \/ page' = page
      BY <1>5, Zenon DEF KeyAnswers
    <2>3. PurgeStays
      BY <1>1, <2>2 DEF Pages, PurgeStays
    <2> QED
      BY <1>2, <2>1, <2>3, QuietStep
  <1>6. CASE KeyFails(c)
    <2>1. /\ app' = app /\ calls' \subseteq calls
          /\ page' = [page EXCEPT !.loading = None] \/ page' = page
      BY <1>6 DEF KeyFails
    <2>2. PurgeStays
      BY <1>1, <2>1 DEF Pages, PurgeStays
    <2> QED
      BY <1>2, <2>1, <2>2, QuietStep
  <1>7. ASSUME c.kind \in Kinds, Done(c), app' = app
        PROVE  HeaderInv'
    <2> DEFINE d == [c EXCEPT !.timer = TRUE]
    <2>1. d.by = c.by /\ d.kind = c.kind /\ d.ws = c.ws
      BY <1>1 DEF Requests
    <2>2. /\ calls' = (calls \ {c}) \cup {d}
          /\ page' = page \/ page' = [page EXCEPT ![c.kind].says = "done"]
      BY <1>7 DEF Done
    <2> HIDE DEF d
    <2>3. Further
      BY <2>1, <2>2 DEF Further
    <2>4. PurgeStays
      BY <1>7, <2>2, SaysStays DEF PurgeStays
    <2> QED
      BY <1>7, <2>3, <2>4, QuietStep
  <1>8. CASE PurgeAnswers(c)
    <2>1. c.kind \in Kinds /\ app' = app
      BY <1>8 DEF PurgeAnswers, Kinds
    <2>2. CASE Done(c)
      BY <1>7, <2>1, <2>2
    <2>3. CASE /\ calls' = calls \ {c}
               /\ page' = IF c.here THEN [page EXCEPT !.purge.says = "error"] ELSE page
      <3>1. page' = page \/ page' = [page EXCEPT !["purge"].says = "error"]
        BY <2>3
      <3>2. PurgeStays
        BY <3>1, SaysStays DEF PurgeStays, Kinds
      <3> QED
        BY <1>2, <2>1, <2>3, <3>2, QuietStep
    <2> QED
      BY <1>8, <2>2, <2>3 DEF PurgeAnswers
  <1> QED
    BY <1>3, <1>4, <1>5, <1>6, <1>7, <1>8 DEF Kinds

\* The modals, and their timers.
LEMMA ModalHeaderSteps ==
    ASSUME IndInv, HeaderInv,
           \/ \E kind \in Kinds, w \in Workspaces : OpenModal(kind, w)
           \/ \E kind \in Kinds : TypeOrCancel(kind)
           \/ \E c \in calls : ModalTimer(c)
    PROVE  HeaderInv'
  <1>1. page \in Pages /\ page.purge \in Modals /\ page.delete \in Modals
    BY Context DEF Pages
  <1>2. ASSUME NEW kind \in Kinds, NEW m, page' = [page EXCEPT ![kind] = m],
               kind = "purge" /\ m.ws # None => m.ws = app.active \/ (m.ws = page.purge.ws /\ page.on)
        PROVE  page'.on /\ page'.purge.ws # None => page'.purge.ws = app.active
    <2>1. CASE kind = "delete"
      <3>1. page' = [page EXCEPT !.delete = m]
        BY <1>2, <2>1
      <3>2. page'.on = page.on /\ page'.purge = page.purge
        BY <1>1, <3>1 DEF Pages
      <3> QED
        BY <3>2 DEF HeaderInv
    <2>2. CASE kind = "purge"
      <3>1. page' = [page EXCEPT !.purge = m]
        BY <1>2, <2>2
      <3>2. page'.purge = m
        BY <1>1, <3>1 DEF Pages
      <3> QED
        BY <1>2, <2>2, <3>2 DEF HeaderInv
    <2> QED
      BY <2>1, <2>2 DEF Kinds
  <1>3. ASSUME NEW kind \in Kinds, NEW w \in Workspaces, OpenModal(kind, w)
        PROVE  HeaderInv'
    <2> DEFINE m == [Closed EXCEPT !.ws = w]
    <2>1. /\ page' = [page EXCEPT ![kind] = m] /\ app' = app /\ calls' = calls
          /\ kind = "purge" => w = app.active
      BY <1>3 DEF OpenModal
    <2>2. m.ws = w
      BY DEF Closed
    <2> HIDE DEF m
    <2>3. page'.on /\ page'.purge.ws # None => page'.purge.ws = app.active
      BY <1>2, <2>1, <2>2
    <2> QED
      BY <2>1, <2>3, HeaderStays
  <1>4. ASSUME NEW kind \in Kinds, TypeOrCancel(kind)
        PROVE  HeaderInv'
    <2> DEFINE typed == [page[kind] EXCEPT !.words = TRUE, !.wordsFor = page[kind].ws]
               cancelled == [page[kind] EXCEPT !.ws = None]
    <2>1. page[kind] \in Modals
      BY ModalType
    <2>2. typed.ws = page[kind].ws /\ cancelled.ws = None
      BY <2>1 DEF Modals
    <2>3. page.on /\ app' = app /\ calls' = calls
      BY <1>4 DEF TypeOrCancel
    <2>4. page' = [page EXCEPT ![kind] = typed] \/ page' = [page EXCEPT ![kind] = cancelled]
      <3>1. CASE kind = "delete"
        BY <1>1, <1>4, <3>1 DEF TypeOrCancel, Pages, Modals
      <3>2. CASE kind = "purge"
        BY <1>1, <1>4, <3>2 DEF TypeOrCancel, Pages, Modals
      <3> QED
        BY <3>1, <3>2 DEF Kinds
    <2> HIDE DEF typed, cancelled
    <2>5. page'.on /\ page'.purge.ws # None => page'.purge.ws = app.active
      BY <1>2, <2>2, <2>3, <2>4
    <2> QED
      BY <2>3, <2>5, HeaderStays
  <1>5. ASSUME NEW c \in calls, ModalTimer(c)
        PROVE  HeaderInv'
    <2>1. c.kind \in Kinds /\ calls' = calls \ {c} /\ c.by \in Chosen
      BY <1>5, Context DEF ModalTimer, HeaderInv
    <2>2. page'.on /\ page'.purge.ws # None => page'.purge.ws = app.active
      <3>1. Closed.ws = None
        BY DEF Closed
      <3>2. CASE page' = page
        BY <3>2 DEF HeaderInv
      <3>3. CASE page' = [page EXCEPT ![c.kind] = Closed]
        BY <1>2, <2>1, <3>1, <3>3
      <3> QED
        BY <1>5, <3>2, <3>3 DEF ModalTimer
    <2>3. CASE c.kind = "purge"
      <3>1. Fetches(c.by)
        BY <1>5, <2>3 DEF ModalTimer
      <3> QED
        BY <2>1, <2>2, <3>1, FetchesStep
    <2>4. CASE c.kind # "purge"
      <3>1. app' = app
        BY <1>5, <2>4 DEF ModalTimer
      <3> QED
        BY <2>1, <2>2, <3>1, HeaderStays
    <2> QED
      BY <2>3, <2>4
  <1> QED
    BY <1>3, <1>4, <1>5

\* What is under way goes on without the page, for the workspaces it was for.
LEMMA UnmountsFurther ==
    ASSUME IndInv, Unmounts
    PROVE  Further
  <1> DEFINE left(c) == IF c.here THEN [c EXCEPT !.here = FALSE, !.seen = page.revealed] ELSE c
  <1>1. calls' = {left(c) : c \in calls}
    BY DEF Unmounts
  <1>2. \A c \in calls : left(c).by = c.by /\ left(c).kind = c.kind /\ left(c).ws = c.ws
    BY Context DEF Requests
  <1> HIDE DEF left
  <1> QED
    BY <1>1, <1>2 DEF Further

\* The page is left, and opened again.
LEMMA VisitSteps ==
    ASSUME IndInv, HeaderInv, Leave \/ Return
    PROVE  HeaderInv'
  <1>1. CASE Leave
    <2>1. page' = [page EXCEPT !.on = FALSE] /\ app' = app /\ Unmounts
      BY <1>1 DEF Leave
    <2>2. ~page'.on
      BY <2>1, Context DEF Pages
    <2>3. Further
      BY <2>1, UnmountsFurther
    <2> QED
      BY <2>1, <2>2, <2>3, HeaderStays DEF Further
  <1>2. CASE Return
    <2> DEFINE there == page.projects
               q == Mounted(store, table, there)
    <2>1. there \in SUBSET Workspaces
      BY Context DEF Pages
    <2>2. page' = Mounted(store, table, there) /\ app' = app /\ calls' = calls
      BY <1>2 DEF Return
    <2> HIDE DEF there
    <2>3. q.purge.ws = None
      BY <2>1, Context, MountedFacts
    <2>4. page' = q
      BY <2>2
    <2> HIDE DEF q
    <2> QED
      BY <2>2, <2>3, <2>4, HeaderStays
  <1> QED
    BY <1>1, <1>2

\* The list of workspaces arrives, and may select another.
LEMMA ArriveHeader ==
    ASSUME IndInv, HeaderInv, ProjectsArrive
    PROVE  HeaderInv'
  <1>1. /\ store \in Stores /\ table \in [Currencies -> Live \cup {1}] /\ page \in Pages
        /\ exists \in SUBSET Workspaces /\ Distinct(store.pricing) /\ app \in Apps
    BY Context DEF HeaderInv
  <1>2. PICK w \in Workspaces :
           /\ app' = [active |-> w, header |-> w, saved |-> w, older |-> {app.active} \ {w},
                      settled |-> TRUE]
           /\ \/ /\ ~page.on \/ w = app.active
                 /\ page' = [page EXCEPT !.projects = exists] /\ UNCHANGED calls
              \/ page' = Mounted(store, table, exists) /\ Unmounts
    <2>1. {app.saved, app.active} \subseteq Workspaces /\ exists \subseteq Workspaces
      BY <1>1 DEF Apps
    <2> QED
      BY <2>1, Zenon DEF ProjectsArrive
  <1>3. ~app.settled /\ app.older = {} /\ app.active \in Workspaces
    BY <1>1 DEF ProjectsArrive, HeaderInv, Apps
  <1>4. /\ app'.active = w /\ app'.header = w /\ app'.older = {app.active} \ {w} /\ app'.settled
    BY <1>2
  <1>5. app' \in Apps
    BY <1>2, <1>3 DEF Apps
  <1>6. app'.header \in Chosen' /\ app.active \in Chosen'
    BY <1>4 DEF Chosen
  <1>7. Further
    BY <1>2, UnmountsFurther DEF Further
  <1>8. \A d \in calls : d.by = app.active /\ (d.kind = "purge" => d.ws = d.by)
    BY <1>3 DEF HeaderInv, Chosen
  <1>9. \A c \in calls' : c.by \in Chosen' /\ (c.kind = "purge" => c.ws = c.by \/ c.ws \in app'.older)
    BY <1>6, <1>7, <1>8 DEF Further
  <1>10. page'.on /\ page'.purge.ws # None => page'.purge.ws = app'.active
    <2>1. CASE (~page.on \/ w = app.active) /\ page' = [page EXCEPT !.projects = exists]
      <3>1. page'.on = page.on /\ page'.purge = page.purge
        BY <1>1, <2>1 DEF Pages
      <3> QED
        BY <1>4, <2>1, <3>1 DEF HeaderInv
    <2>2. CASE page' = Mounted(store, table, exists)
      <3> DEFINE q == Mounted(store, table, exists)
      <3>1. q.purge.ws = None
        BY <1>1, MountedFacts
      <3>2. page' = q
        BY <2>2
      <3> HIDE DEF q
      <3> QED
        BY <3>1, <3>2
    <2> QED
      BY <1>2, <2>1, <2>2
  <1> QED
    BY <1>4, <1>5, <1>6, <1>9, <1>10 DEF HeaderInv

\* What changes nothing but the selection, in this tab or another.
LEMMA SelectionSteps ==
    ASSUME IndInv, HeaderInv,
           FetchData \/ \E w \in Workspaces : OlderFetch(w) \/ OtherSelectsProject(w)
    PROVE  HeaderInv'
  <1>1. page' = page /\ calls' = calls
    BY DEF FetchData, OlderFetch, OtherSelectsProject
  <1>2. page'.on /\ page'.purge.ws # None => page'.purge.ws = app.active
    BY <1>1 DEF HeaderInv
  <1>3. ASSUME NEW w \in Chosen, Fetches(w)
        PROVE  HeaderInv'
    BY <1>1, <1>2, <1>3, FetchesStep
  <1>4. CASE FetchData
    BY <1>3, <1>4 DEF FetchData, Chosen
  <1>5. ASSUME NEW w \in Workspaces, OlderFetch(w)
        PROVE  HeaderInv'
    BY <1>3, <1>5 DEF OlderFetch, Chosen
  <1>6. ASSUME NEW w \in Workspaces, OtherSelectsProject(w)
        PROVE  HeaderInv'
    <2>1. app' = [app EXCEPT !.saved = w] /\ app \in Apps
      BY <1>6 DEF OtherSelectsProject, HeaderInv
    <2>2. /\ app' \in Apps /\ app'.active = app.active /\ app'.header = app.header
          /\ app'.older = app.older /\ app'.settled = app.settled
      BY <2>1 DEF Apps
    <2> QED
      BY <1>1, <1>2, <2>2 DEF HeaderInv, Chosen
  <1> QED
    BY <1>4, <1>5, <1>6

\* At first the headers have the workspace that is selected.
LEMMA HeaderInit == Init => HeaderInv
  <1> SUFFICES ASSUME Init
               PROVE  HeaderInv
    OBVIOUS
  <1>1. PICK w \in Existing, v \in Existing, there \in {{}, exists}, older \in SUBSET Existing :
           /\ page = Mounted(store, table, there)
           /\ \/ app = [active |-> w, header |-> w, saved |-> w, older |-> older, settled |-> TRUE]
              \/ /\ older = {}
                 /\ app = [active |-> w, header |-> w, saved |-> v, older |-> older, settled |-> FALSE]
    <2>1. PICK w \in Existing, v \in Existing :
             \/ /\ app = [active |-> w, header |-> w, saved |-> w, older |-> {v} \ {w}, settled |-> TRUE]
                /\ page = Mounted(store, table, exists)
             \/ /\ app = [active |-> w, header |-> w, saved |-> v, older |-> {}, settled |-> FALSE]
                /\ page = Mounted(store, table, {})
      BY Zenon DEF Init
    <2>2. {v} \ {w} \in SUBSET Existing /\ {} \in SUBSET Existing
      OBVIOUS
    <2> QED
      BY <2>1, <2>2
  <1>2. w \in Workspaces /\ v \in Workspaces /\ older \in SUBSET Workspaces
    BY SettingsAssumption
  <1>3. app \in Apps /\ app.header = app.active /\ (~app.settled => app.older = {})
    <2>1. CASE app = [active |-> w, header |-> w, saved |-> w, older |-> older, settled |-> TRUE]
      BY <1>2, <2>1 DEF Apps
    <2>2. CASE /\ older = {}
               /\ app = [active |-> w, header |-> w, saved |-> v, older |-> older, settled |-> FALSE]
      BY <1>2, <2>2 DEF Apps
    <2> QED
      BY <1>1, <2>1, <2>2
  <1>4. calls = {}
    BY DEF Init
  <1>5. page.purge.ws = None
    <2> DEFINE a == ActiveCurrency(store, table)
               r == a.rate
               m == [on |-> TRUE, projects |-> there, currency |-> None, text |-> 0,
                     foreign |-> FALSE, syncing |-> FALSE, source |-> "stored",
                     catalog |-> StoredCatalog(store), apart |-> FALSE, sim |-> Simulated,
                     lost |-> ~HasRow(StoredCatalog(store), Simulated),
                     revealed |-> store.keys, given |-> {}, loading |-> None, overwritten |-> FALSE,
                     delete |-> Closed, purge |-> Closed]
    <2>1. page = [m EXCEPT !.currency = a, !.text = r, !.foreign = FALSE]
      BY <1>1 DEF Mounted, Shows
    <2> HIDE DEF a, r
    <2> QED
      BY <2>1 DEF Closed
  <1> QED
    BY <1>3, <1>4, <1>5 DEF HeaderInv, Chosen

\* Every step keeps what is known of the headers.
LEMMA HeaderNext == IndInv /\ HeaderInv /\ [Next]_vars => HeaderInv'
  <1> SUFFICES ASSUME IndInv, HeaderInv, [Next]_vars
               PROVE  HeaderInv'
    OBVIOUS
  <1>1. CASE UNCHANGED vars
    BY <1>1 DEF vars, HeaderInv, Chosen
  <1>2. CASE Leave \/ Return
    BY <1>2, VisitSteps
  <1>3. CASE ProjectsArrive
    BY <1>3, ArriveHeader
  <1>4. CASE FetchData \/ \E w \in Workspaces : OlderFetch(w) \/ OtherSelectsProject(w)
    BY <1>4, SelectionSteps
  <1>5. CASE \/ \E c \in Currencies : SelectCurrency(c) \/ OtherSelects(c)
             \/ \E r \in Typed : TypeRate(r)
             \/ SaveFxRate
             \/ \E i : (\E r \in Prices : UpdateModelRate(i, r)) \/ DeleteCustomModel(i) \/ SelectSimModel(i)
             \/ SaveCatalog \/ ResetCatalog
             \/ \E m \in Models, r \in Prices : AddNewModel(m, r)
             \/ \E m \in ModelNames, r \in Prices : OtherSaves(m, r)
             \/ \E w \in Workspaces : OtherKeys(w) \/ DeletedElsewhere(w)
    BY <1>5, QuietEdits
  <1>6. CASE \/ \E w \in Workspaces : FetchApiKey(w)
             \/ SyncLiveFx \/ \E kind \in Kinds : Confirm(kind)
    BY <1>6, AskingSteps
  <1>7. CASE ReloadPage \/ \E w \in Workspaces : Create(w) \/ SelectProject(w)
    BY <1>7, AnewSteps
  <1>8. CASE \/ \E kind \in Kinds, w \in Workspaces : OpenModal(kind, w)
             \/ \E kind \in Kinds : TypeOrCancel(kind)
    BY <1>8, ModalHeaderSteps
  <1>9. ASSUME NEW c \in calls,
               \/ \E got \in Rates : FxAnswers(c, got)
               \/ FxSourceFails(c) \/ KeyAnswers(c) \/ KeyFails(c)
               \/ DeleteAnswers(c) \/ PurgeAnswers(c) \/ ModalTimer(c)
        PROVE  HeaderInv'
    <2>1. CASE DeleteAnswers(c)
      <3>1. CASE \E w \in page.projects \cup {app.saved} : LoadsAnew(store, exists \ {c.ws}, w)
        BY <3>1, AnewSteps
      <3>2. CASE c.kind = "delete" /\ Done(c) /\ app' = app
        BY <3>2, AnswerSteps
      <3> QED
        BY <2>1, <3>1, <3>2, Zenon DEF DeleteAnswers
    <2> QED
      BY <1>9, <2>1, AnswerSteps, ModalHeaderSteps
  <1>10. CASE Next
    BY <1>2, <1>3, <1>4, <1>5, <1>6, <1>7, <1>8, <1>9, <1>10 DEF Next, Kinds
  <1> QED
    BY <1>1, <1>10

Inv == IndInv /\ HeaderInv

\* Every step keeps both invariants.
LEMMA StepInv == Inv /\ [Next]_vars => Inv'
  BY StepInvariant, HeaderNext DEF Inv, HeaderInv

\* Both invariants hold in every state of every behaviour.
THEOREM Invariance == Spec => []Inv
  <1>1. Init => Inv
    BY InitInvariant, HeaderInit DEF Inv
  <1> QED
    BY <1>1, StepInv, PTL DEF Spec

-----------------------------------------------------------------------------
(* The theorems.                                                           *)

\* The shape of the state.
THEOREM TypeCorrect == Spec => []TypeOK
  <1>1. Inv => TypeOK
    BY DEF Inv, IndInv, HeaderInv, TypeOK
  <1> QED
    BY <1>1, Invariance, PTL

\* The invariant explains what currency is shown.
LEMMA MoneyFollows == IndInv => MoneyExplained
  <1> SUFFICES ASSUME IndInv
               PROVE  MoneyExplained
    OBVIOUS
  <1>1. /\ RatesOf(store, kept) /\ MoneyOf(page, store, table)
        /\ kept \in [Currencies -> Nat] /\ None \notin Currencies
    BY Context, SettingsAssumption DEF IndInv
  <1>2. ASSUME NEW c \in Currencies, kept[c] # 0
        PROVE  /\ store.custom[c] = kept[c]
               /\ store.code = c => ActiveCurrency(store, table).rate = kept[c]
    <2>1. store.custom[c] = kept[c] /\ kept[c] > 0
      BY <1>1, <1>2 DEF RatesOf
    <2> QED
      BY <1>1, <2>1 DEF ActiveCurrency
  <1> QED
    BY <1>1, <1>2 DEF MoneyExplained, RatesOf, MoneyOf

\* MoneyExplained: a rate the user saved stays the one that amounts are shown
\* in, whatever syncs bring, and the page shows the currency that is used
\* (formatters.ts:45, 51 and 155, SettingsPage.tsx:137, 153 and 222).
THEOREM MoneyIsExplained == Spec => []MoneyExplained
  <1>1. Inv => MoneyExplained
    BY MoneyFollows DEF Inv
  <1> QED
    BY <1>1, Invariance, PTL

\* The invariant explains the catalog.
LEMMA CatalogFollows == IndInv => CatalogExplained
  <1> SUFFICES ASSUME IndInv
               PROVE  CatalogExplained
    OBVIOUS
  <1>1. \A i \in DOMAIN page.catalog :
           PriceOf(page.catalog[i].model, page.catalog) = page.catalog[i].price
    BY Context, OwnPrice
  <1>2. CatalogOf(page, store)
    BY DEF IndInv
  <1>3. ASSUME ~page.lost
        PROVE  \E i \in DOMAIN page.catalog :
                  /\ page.catalog[i].model = ShownModel
                  /\ page.catalog[i].price = PriceOf(page.sim, page.catalog)
    <2>1. HasRow(page.catalog, page.sim)
      BY <1>2, <1>3 DEF CatalogOf
    <2>2. ShownModel = page.sim
      BY <2>1 DEF ShownModel
    <2>3. PICK i \in DOMAIN page.catalog : page.catalog[i].model = page.sim
      BY <2>1 DEF HasRow
    <2>4. page.catalog[i].price = PriceOf(page.sim, page.catalog)
      BY <1>1, <2>3
    <2> QED
      BY <2>2, <2>3, <2>4
  <1> QED
    BY <1>1, <1>2, <1>3 DEF CatalogOf, CatalogExplained

\* CatalogExplained: the catalog on the screen is the one that is kept, unless
\* prices were typed and not saved or another tab has saved; each model is
\* priced by its own row, and what the calculator shows is the price of the
\* row its select names, unless its model was removed (pricing.ts:31 and 62,
\* SettingsPage.tsx:102, 244, 275, 291 and 576-583).
THEOREM CatalogIsExplained == Spec => []CatalogExplained
  <1>1. Inv => CatalogExplained
    BY CatalogFollows DEF Inv
  <1> QED
    BY <1>1, Invariance, PTL

\* The invariants keep keys and waits, and say which workspace is purged.
LEMMA KeysFollow == Inv => KeysKept
  <1> SUFFICES ASSUME IndInv, HeaderInv
               PROVE  KeysKept
    BY DEF Inv
  <1>1. KeysStay
    BY DEF IndInv, KeysOf, KeysStay
  <1>2. \A kind \in Kinds :
           page[kind].ws # None /\ page[kind].words => page[kind].wordsFor = page[kind].ws
    BY ModalType
  <1>3. /\ page.on /\ page.purge.ws # None => page.purge.ws = app.active
        /\ app.header # app.active => app.settled /\ app.header \in app.older
        /\ \A c \in calls : c.kind = "purge" /\ c.ws # c.by => c.ws \in app.older
    <2>1. app.settled \in BOOLEAN
      BY DEF HeaderInv, Apps
    <2> QED
      BY <2>1 DEF HeaderInv, Chosen
  <1> QED
    BY <1>1, <1>2, <1>3 DEF KeysKept, WordsTyped

\* KeysKept: a key that was shown stays, unless another visit or tab has
\* replaced the cache; a button that waits waits for an answer that can come;
\* the words that unlock a deletion were typed for the workspace it is of;
\* and a purge is of the workspace its modal named, or of one that was selected
\* before the list of workspaces had arrived (SettingsPage.tsx:116-134, 187 and
\* 205, client.ts:183, App.tsx:208-211 and 271).
THEOREM KeysAreKept == Spec => []KeysKept
  <1> QED
    BY KeysFollow, Invariance, PTL

-----------------------------------------------------------------------------
(* Induction over numbers, and the functions it defines.                   *)

\* A set of numbers that has 0, and with every number the next, has them all.
LEMMA Numbers ==
    ASSUME NEW T, 0 \in T, \A n \in Nat : n \in T => n + 1 \in T
    PROVE  \A n \in Nat : n \in T
  <1> DEFINE missing == {n \in Nat : n \notin T}
  <1>1. SUFFICES ASSUME missing # {} PROVE FALSE
    OBVIOUS
  <1>2. PICK n \in missing : \A m \in missing : ~ (<<m, n>> \in OpToRel(<, Nat))
    BY <1>1, WFMin, NatLessThanWellFounded, Zenon
  <1>3. \A m \in missing : ~ (m < n)
    BY <1>2 DEF OpToRel
  <1>4. n \in Nat /\ n # 0 /\ n \notin T
    BY <1>2
  <1>5. n - 1 \in Nat /\ n - 1 < n /\ n - 1 + 1 = n
    BY <1>4
  <1>6. n - 1 \in T
    BY <1>3, <1>5
  <1> QED
    BY <1>4, <1>5, <1>6

\* g begins to iterate step, from v, up to m.
Begins(g, m, V, v, step) ==
    /\ g \in [0..m -> V] /\ g[0] = v
    /\ \A n \in 0..m : n # m => g[n + 1] = step[<<n, g[n]>>]

\* f goes on for ever.
Goes(f, V, v, step) ==
    /\ f \in [Nat -> V] /\ f[0] = v
    /\ \A n \in Nat : f[n + 1] = step[<<n, f[n]>>]

\* What is given for 0, and for every number from the value before it, is a
\* function.
LEMMA Iterates ==
    ASSUME NEW V, NEW v \in V, NEW step \in [Nat \X V -> V]
    PROVE  \E f : Goes(f, V, v, step)
  <1>1. \A m \in Nat : \E g : Begins(g, m, V, v, step)
    <2> DEFINE T == {m \in Nat : \E g : Begins(g, m, V, v, step)}
    <2>1. 0 \in T
      <3> DEFINE g == [i \in 0..0 |-> v]
      <3>1. Begins(g, 0, V, v, step)
        BY DEF Begins
      <3> QED
        BY <3>1
    <2>2. ASSUME NEW m \in Nat, m \in T PROVE m + 1 \in T
      <3>1. PICK g : Begins(g, m, V, v, step)
        BY <2>2
      <3> DEFINE h == [i \in 0..(m + 1) |-> IF i = m + 1 THEN step[<<m, g[m]>>] ELSE g[i]]
      <3>2. g[m] \in V /\ step[<<m, g[m]>>] \in V
        BY <3>1 DEF Begins
      <3>3. h \in [0..(m + 1) -> V] /\ h[0] = v
        BY <3>1, <3>2 DEF Begins
      <3>4. ASSUME NEW n \in 0..(m + 1), n # m + 1
            PROVE  h[n + 1] = step[<<n, h[n]>>]
        <4>1. CASE n = m
          BY <4>1
        <4>2. CASE n # m
          <5>1. n \in 0..m /\ n + 1 \in 0..m /\ n + 1 # m + 1
            BY <3>4, <4>2
          <5>2. h[n] = g[n] /\ h[n + 1] = g[n + 1]
            BY <5>1
          <5> QED
            BY <3>1, <4>2, <5>1, <5>2 DEF Begins
        <4> QED
          BY <4>1, <4>2
      <3>5. Begins(h, m + 1, V, v, step)
        BY <3>3, <3>4 DEF Begins
      <3> QED
        BY <3>5
    <2> HIDE DEF T
    <2>3. \A m \in Nat : m \in T
      BY <2>1, <2>2, Numbers
    <2> QED
      BY <2>3 DEF T
  <1>2. ASSUME NEW m \in Nat, NEW k \in Nat, m <= k,
               NEW g, Begins(g, m, V, v, step), NEW h, Begins(h, k, V, v, step)
        PROVE  \A i \in 0..m : g[i] = h[i]
    <2> DEFINE T == {n \in Nat : n <= m => g[n] = h[n]}
    <2>1. 0 \in T
      BY <1>2 DEF Begins
    <2>2. ASSUME NEW n \in Nat, n \in T PROVE n + 1 \in T
      <3>1. SUFFICES ASSUME n + 1 <= m PROVE g[n + 1] = h[n + 1]
        OBVIOUS
      <3>2. n \in 0..m /\ n # m /\ n \in 0..k /\ n # k
        BY <1>2, <3>1
      <3> QED
        <4>1. g[n + 1] = step[<<n, g[n]>>] /\ h[n + 1] = step[<<n, h[n]>>]
          BY <1>2, <3>2 DEF Begins
        <4>2. g[n] = h[n]
          BY <2>2, <3>2
        <4> QED
          BY <4>1, <4>2
    <2> HIDE DEF T
    <2>3. \A n \in Nat : n \in T
      BY <2>1, <2>2, Numbers
    <2> QED
      BY <2>3 DEF T
  <1> DEFINE g(m) == CHOOSE g : Begins(g, m, V, v, step)
             f == [m \in Nat |-> g(m)[m]]
  <1>3. \A m \in Nat : Begins(g(m), m, V, v, step)
    BY <1>1
  <1> HIDE DEF g
  <1>4. f \in [Nat -> V] /\ f[0] = v
    BY <1>3 DEF Begins
  <1>5. ASSUME NEW n \in Nat
        PROVE  f[n + 1] = step[<<n, f[n]>>]
    <2>1. g(n + 1)[n + 1] = step[<<n, g(n + 1)[n]>>]
      BY <1>3 DEF Begins
    <2>2. g(n + 1)[n] = g(n)[n]
      BY <1>2, <1>3
    <2> QED
      BY <2>1, <2>2
  <1>6. Goes(f, V, v, step)
    BY <1>4, <1>5 DEF Goes
  <1> QED
    BY <1>6

-----------------------------------------------------------------------------
(* A trace.                                                                *)

L == Len(trace.spans)
Parent(i) == Viewer!Span(i).parent

\* The spans are numbered, and their parents are among them.
LEMMA TraceFacts ==
    ASSUME Viewer!IsTrace(trace)
    PROVE  /\ L \in Nat /\ Viewer!Spans = 1..L
           /\ IsFiniteSet(Viewer!Spans) /\ Cardinality(Viewer!Spans) = L
           /\ \A i \in Viewer!Spans : Parent(i) \in 0..L /\ (Parent(i) # 0 => Parent(i) \in Viewer!Spans)
  <1>1. L \in Nat /\ Viewer!Spans = 1..L
    BY DEF L, Viewer!IsTrace, Viewer!Spans
  <1>1a. \A i \in Viewer!Spans : Viewer!Span(i) \in Viewer!AnySpan(0..L)
    BY <1>1 DEF L, Viewer!IsTrace, Viewer!Spans, Viewer!Span
  <1>2. \A i \in Viewer!Spans : Parent(i) \in 0..L
    BY <1>1a DEF Viewer!AnySpan, Parent
  <1>3. IsFiniteSet(1..L) /\ Cardinality(1..L) = L
    BY <1>1, FS_Interval
  <1> QED
    BY <1>1, <1>2, <1>3

-----------------------------------------------------------------------------
(* Ancestors.                                                              *)

UpOf(f) ==
    [n \in Nat |->
        [i \in Viewer!Spans |-> IF n = 0 \/ Viewer!Span(i).parent = 0 THEN {}
                         ELSE {Viewer!Span(i).parent} \cup f[n - 1][Viewer!Span(i).parent]]]

\* What Up is.
LEMMA UpFacts ==
    ASSUME Viewer!IsTrace(trace)
    PROVE  /\ Viewer!Up \in [Nat -> [Viewer!Spans -> SUBSET Viewer!Spans]]
           /\ \A i \in Viewer!Spans :
                /\ Viewer!Up[0][i] = {}
                /\ \A n \in Nat : Viewer!Up[n + 1][i] =
                      IF Parent(i) = 0 THEN {} ELSE {Parent(i)} \cup Viewer!Up[n][Parent(i)]
  <1> DEFINE V == [Viewer!Spans -> SUBSET Viewer!Spans]
             next(g) == [i \in Viewer!Spans |->
                          IF Parent(i) = 0 THEN {} ELSE {Parent(i)} \cup g[Parent(i)]]
             step == [x \in Nat \X V |-> next(x[2])]
             v == [i \in Viewer!Spans |-> {}]
  <1>1. \A g \in V : next(g) \in V
    BY TraceFacts
  <1> HIDE DEF next
  <1>2. v \in V /\ step \in [Nat \X V -> V]
    BY <1>1
  <1>2a. \A n \in Nat, g \in V : step[<<n, g>>] = next(g)
    OBVIOUS
  <1> HIDE DEF step, v, V
  <1>3. PICK f : Goes(f, V, v, step)
    BY <1>2, Iterates
  <1>3a. f \in [Nat -> V] /\ f[0] = v /\ \A n \in Nat : f[n + 1] = next(f[n])
    BY <1>2a, <1>3 DEF Goes
  <1>4. f = UpOf(f)
    <2>1. ASSUME NEW n \in Nat PROVE f[n] = UpOf(f)[n]
      <3>1. CASE n = 0
        BY <1>3a, <3>1 DEF UpOf, v
      <3>2. CASE n # 0
        <4>1. n - 1 \in Nat /\ n - 1 + 1 = n
          BY <3>2
        <4>2. f[n] = next(f[n - 1])
          BY <1>3a, <4>1
        <4> QED
          BY <3>2, <4>2 DEF UpOf, next, Parent
      <3> QED
        BY <3>1, <3>2
    <2> QED
      BY <1>3a, <2>1 DEF UpOf
  <1>5. Viewer!Up = UpOf(Viewer!Up)
    <2>1. Viewer!Up = CHOOSE g : g = UpOf(g)
      BY DEF Viewer!Up, UpOf
    <2> QED
      BY <1>4, <2>1
  <1>6. ASSUME NEW i \in Viewer!Spans
        PROVE  /\ Viewer!Up[0][i] = {}
               /\ \A n \in Nat : Viewer!Up[n + 1][i] =
                     IF Parent(i) = 0 THEN {} ELSE {Parent(i)} \cup Viewer!Up[n][Parent(i)]
    <2>1. \A n \in Nat : Viewer!Up[n] = UpOf(Viewer!Up)[n]
      BY <1>5
    <2>2. ASSUME NEW n \in Nat
          PROVE  UpOf(Viewer!Up)[n + 1][i] =
                     IF Parent(i) = 0 THEN {} ELSE {Parent(i)} \cup Viewer!Up[n][Parent(i)]
      <3>1. n + 1 \in Nat /\ n + 1 # 0 /\ n + 1 - 1 = n
        OBVIOUS
      <3> QED
        BY <3>1 DEF UpOf, Parent
    <2>3. UpOf(Viewer!Up)[0][i] = {}
      BY DEF UpOf
    <2> QED
      BY <2>1, <2>2, <2>3
  <1>7. \A n \in Nat : Viewer!Up[n] \in V
    <2> DEFINE T == {n \in Nat : Viewer!Up[n] \in V}
    <2>0. ASSUME NEW n \in Nat, \A i \in Viewer!Spans : Viewer!Up[n][i] \in SUBSET Viewer!Spans
          PROVE  Viewer!Up[n] \in V
      <3>1. Viewer!Up[n] = UpOf(Viewer!Up)[n]
        BY <1>5
      <3>2. Viewer!Up[n] = [i \in Viewer!Spans |-> Viewer!Up[n][i]]
        BY <3>1 DEF UpOf
      <3> QED
        BY <2>0, <3>2 DEF V
    <2>1. 0 \in T
      BY <1>6, <2>0
    <2>2. ASSUME NEW n \in Nat, n \in T PROVE n + 1 \in T
      <3>1. \A i \in Viewer!Spans : Viewer!Up[n][i] \in SUBSET Viewer!Spans
        BY <2>2 DEF V
      <3>2. \A i \in Viewer!Spans : Viewer!Up[n + 1][i] \in SUBSET Viewer!Spans
        BY <1>6, <3>1, TraceFacts
      <3> QED
        BY <2>0, <3>2
    <2> HIDE DEF T
    <2>3. \A n \in Nat : n \in T
      BY <2>1, <2>2, Numbers
    <2> QED
      BY <2>3 DEF T
  <1>8. Viewer!Up = [n \in Nat |-> Viewer!Up[n]]
    BY <1>5 DEF UpOf
  <1>9. Viewer!Up \in [Nat -> V]
    BY <1>7, <1>8
  <1> QED
    BY <1>6, <1>9 DEF V

Parents(A) == {Parent(a) : a \in {b \in A : Parent(b) # 0}}

\* The way up can also be extended at its end.
LEMMA UpAtTheEnd ==
    ASSUME Viewer!IsTrace(trace)
    PROVE  \A n \in Nat : \A i \in Viewer!Spans : Parent(i) # 0 =>
               Viewer!Up[n + 1][i] = {Parent(i)} \cup Parents(Viewer!Up[n][i])
  <1> DEFINE T == {n \in Nat : \A i \in Viewer!Spans : Parent(i) # 0 =>
                       Viewer!Up[n + 1][i] = {Parent(i)} \cup Parents(Viewer!Up[n][i])}
  <1>1. \A i \in Viewer!Spans : Parent(i) # 0 => Parent(i) \in Viewer!Spans
    BY TraceFacts
  <1>2. 0 \in T
    <2>1. ASSUME NEW i \in Viewer!Spans, Parent(i) # 0
          PROVE  Viewer!Up[0 + 1][i] = {Parent(i)} \cup Parents(Viewer!Up[0][i])
      <3>1. Viewer!Up[0 + 1][i] = {Parent(i)} \cup Viewer!Up[0][Parent(i)]
        BY <2>1, UpFacts
      <3>2. Viewer!Up[0][Parent(i)] = {} /\ Viewer!Up[0][i] = {}
        BY <1>1, <2>1, UpFacts
      <3> QED
        BY <3>1, <3>2 DEF Parents
    <2> QED
      BY <2>1
  <1>3. ASSUME NEW n \in Nat, n \in T PROVE n + 1 \in T
    <2>1. ASSUME NEW i \in Viewer!Spans, Parent(i) # 0
          PROVE  Viewer!Up[n + 1 + 1][i] = {Parent(i)} \cup Parents(Viewer!Up[n + 1][i])
      <3> DEFINE p == Parent(i)
      <3>1. p \in Viewer!Spans /\ n + 1 \in Nat
        BY <1>1, <2>1
      <3>2. Viewer!Up[n + 1 + 1][i] = {p} \cup Viewer!Up[n + 1][p]
        BY <2>1, <3>1, UpFacts
      <3>3. Viewer!Up[n + 1][i] = {p} \cup Viewer!Up[n][p]
        BY <2>1, <3>1, UpFacts
      <3>4. Viewer!Up[n + 1][p] = Parents({p} \cup Viewer!Up[n][p])
        <4>1. CASE Parent(p) = 0
          <5>1. \A m \in Nat : Viewer!Up[m + 1][p] = {}
            BY <3>1, <4>1, UpFacts
          <5>2. n = 0 \/ (n - 1 \in Nat /\ n = n - 1 + 1)
            OBVIOUS
          <5>3. Viewer!Up[n][p] = {}
            BY <3>1, <5>1, <5>2, UpFacts
          <5> QED
            BY <4>1, <5>1, <5>3 DEF Parents
        <4>2. CASE Parent(p) # 0
          <5>1. Viewer!Up[n + 1][p] = {Parent(p)} \cup Parents(Viewer!Up[n][p])
            BY <1>3, <3>1, <4>2
          <5> QED
            BY <4>2, <5>1 DEF Parents
        <4> QED
          BY <4>1, <4>2
      <3> QED
        BY <3>2, <3>3, <3>4
    <2> QED
      BY <2>1
  <1> HIDE DEF T
  <1>4. \A n \in Nat : n \in T
    BY <1>2, <1>3, Numbers
  <1> QED
    BY <1>4 DEF T

\* The way up never gets shorter.
LEMMA UpGrows ==
    ASSUME Viewer!IsTrace(trace)
    PROVE  \A n \in Nat : \A i \in Viewer!Spans : Viewer!Up[n][i] \subseteq Viewer!Up[n + 1][i]
  <1> DEFINE T == {n \in Nat : \A i \in Viewer!Spans : Viewer!Up[n][i] \subseteq Viewer!Up[n + 1][i]}
  <1>1. 0 \in T
    BY UpFacts
  <1>2. ASSUME NEW n \in Nat, n \in T PROVE n + 1 \in T
    <2>1. ASSUME NEW i \in Viewer!Spans
          PROVE  Viewer!Up[n + 1][i] \subseteq Viewer!Up[n + 1 + 1][i]
      <3>1. n + 1 \in Nat
        OBVIOUS
      <3>2. CASE Parent(i) = 0
        BY <3>1, <3>2, UpFacts
      <3>3. CASE Parent(i) # 0
        <4>1. Parent(i) \in Viewer!Spans
          BY <3>3, TraceFacts
        <4>2. Viewer!Up[n][Parent(i)] \subseteq Viewer!Up[n + 1][Parent(i)]
          BY <1>2, <4>1
        <4>3. /\ Viewer!Up[n + 1][i] = {Parent(i)} \cup Viewer!Up[n][Parent(i)]
              /\ Viewer!Up[n + 1 + 1][i] = {Parent(i)} \cup Viewer!Up[n + 1][Parent(i)]
          BY <3>1, <3>3, UpFacts
        <4> QED
          BY <4>2, <4>3
      <3> QED
        BY <3>2, <3>3
    <2> QED
      BY <2>1
  <1> HIDE DEF T
  <1>3. \A n \in Nat : n \in T
    BY <1>1, <1>2, Numbers
  <1> QED
    BY <1>3 DEF T

\* It is at its end after as many steps as there are spans: as long as it grows
\* it has a span for every step.
LEMMA UpSettles ==
    ASSUME Viewer!IsTrace(trace), NEW i \in Viewer!Spans
    PROVE  Viewer!Up[L + 1][i] = Viewer!Up[L][i]
  <1> DEFINE U(n) == Viewer!Up[n][i]
             T == {n \in Nat : U(n + 1) # U(n) => Cardinality(U(n + 1)) >= n + 1}
  <1>1. \A n \in Nat : U(n) \subseteq Viewer!Spans /\ U(n) \subseteq U(n + 1)
    BY UpFacts, UpGrows
  <1>2. \A n \in Nat : IsFiniteSet(U(n)) /\ Cardinality(U(n)) \in Nat /\ Cardinality(U(n)) <= L
    <2>1. ASSUME NEW n \in Nat
          PROVE  IsFiniteSet(U(n)) /\ Cardinality(U(n)) <= L
      BY <1>1, TraceFacts, FS_Subset
    <2> QED
      BY <2>1, FS_CardinalityType
  <1>3. CASE Parent(i) = 0
    <2>1. \A n \in Nat : U(n + 1) = {}
      BY <1>3, UpFacts
    <2>2. L \in Nat /\ (L = 0 \/ (L - 1 \in Nat /\ L = L - 1 + 1))
      BY TraceFacts
    <2>3. U(L) = {}
      <3>1. CASE L = 0
        BY <3>1, UpFacts
      <3>2. CASE L - 1 \in Nat /\ L = L - 1 + 1
        BY <2>1, <3>2
      <3> QED
        BY <2>2, <3>1, <3>2
    <2> QED
      BY <2>1, <2>2, <2>3
  <1>4. CASE Parent(i) # 0
    <2>1. \A n \in Nat : U(n + 1) = {Parent(i)} \cup Parents(U(n))
      BY <1>4, UpAtTheEnd
    <2> HIDE DEF U
    <2>2. 0 \in T
      <3>1. Parent(i) \in U(1)
        BY <2>1
      <3>2. Cardinality(U(1)) # 0
        BY <1>2, <3>1, FS_EmptySet
      <3>3. Cardinality(U(1)) >= 1
        BY <1>2, <3>2
      <3> QED
        BY <3>3
    <2>3. ASSUME NEW n \in Nat, n \in T PROVE n + 1 \in T
      <3>1. SUFFICES ASSUME U(n + 1 + 1) # U(n + 1)
                     PROVE  Cardinality(U(n + 1 + 1)) >= n + 1 + 1
        OBVIOUS
      <3>0. n + 1 \in Nat
        OBVIOUS
      <3>2. U(n + 1) # U(n)
        <4>1. /\ U(n + 1) = {Parent(i)} \cup Parents(U(n))
              /\ U(n + 1 + 1) = {Parent(i)} \cup Parents(U(n + 1))
          BY <2>1, <3>0
        <4> QED
          BY <3>1, <4>1
      <3>3. Cardinality(U(n + 1)) >= n + 1
        BY <2>3, <3>2
      <3>4. PICK a : a \in U(n + 1 + 1) /\ a \notin U(n + 1)
        BY <1>1, <3>1
      <3>5. Cardinality(U(n + 1) \cup {a}) = Cardinality(U(n + 1)) + 1
        <4>1. IsFiniteSet(U(n + 1))
          BY <1>2, <3>0
        <4> HIDE DEF T
        <4> QED
          BY <3>4, <4>1, FS_AddElement
      <3>6. U(n + 1) \cup {a} \subseteq U(n + 1 + 1)
        BY <1>1, <3>4
      <3>7. Cardinality(U(n + 1) \cup {a}) <= Cardinality(U(n + 1 + 1))
        BY <1>2, <3>6, FS_Subset
      <3> QED
        BY <1>2, <3>3, <3>5, <3>7
    <2>4. \A n \in Nat : n \in T
      <3> HIDE DEF T
      <3> QED
        BY <2>2, <2>3, Numbers
    <2>5. L \in Nat
      BY TraceFacts
    <2>6. U(L + 1) # U(L) => Cardinality(U(L + 1)) >= L + 1
      BY <2>4, <2>5
    <2>7. Cardinality(U(L + 1)) <= L /\ Cardinality(U(L + 1)) \in Nat
      BY <1>2, <2>5
    <2>8. U(L + 1) = U(L)
      BY <2>5, <2>6, <2>7
    <2> QED
      BY <2>8 DEF U
  <1> QED
    BY <1>3, <1>4

-----------------------------------------------------------------------------

Anc(i) == Viewer!Ancestors(i)

\* The ancestors of a span are its parent and the ancestors of that, and they
\* have all their parents.
LEMMA AncestorsFacts ==
    ASSUME Viewer!IsTrace(trace)
    PROVE  \A i \in Viewer!Spans :
              /\ Anc(i) \subseteq Viewer!Spans
              /\ IsFiniteSet(Anc(i)) /\ Cardinality(Anc(i)) \in Nat
              /\ Anc(i) = IF Parent(i) = 0 THEN {} ELSE {Parent(i)} \cup Anc(Parent(i))
              /\ \A a \in Anc(i) : Parent(a) # 0 => Parent(a) \in Anc(i)
  <1> TAKE i \in Viewer!Spans
  <1>1. L \in Nat
    BY TraceFacts
  <1>2. Anc(i) = Viewer!Up[L][i]
    BY DEF Anc, Viewer!Ancestors, L
  <1>3. Anc(i) \subseteq Viewer!Spans
    BY <1>1, <1>2, UpFacts
  <1>4. IsFiniteSet(Anc(i)) /\ Cardinality(Anc(i)) \in Nat
    BY <1>3, TraceFacts, FS_Subset, FS_CardinalityType
  <1>5. Anc(i) = Viewer!Up[L + 1][i]
    BY <1>2, UpSettles
  <1>6. Anc(i) = IF Parent(i) = 0 THEN {} ELSE {Parent(i)} \cup Anc(Parent(i))
    <2>1. CASE Parent(i) = 0
      BY <1>1, <1>5, <2>1, UpFacts
    <2>2. CASE Parent(i) # 0
      <3>1. Anc(Parent(i)) = Viewer!Up[L][Parent(i)]
        BY DEF Anc, Viewer!Ancestors, L
      <3> QED
        BY <1>1, <1>5, <2>2, <3>1, UpFacts
    <2> QED
      BY <2>1, <2>2
  <1>7. ASSUME NEW a \in Anc(i), Parent(a) # 0
        PROVE  Parent(a) \in Anc(i)
    <2>1. Parent(i) # 0
      BY <1>6, <1>7
    <2>2. Anc(i) = {Parent(i)} \cup Parents(Anc(i))
      BY <1>1, <1>2, <1>5, <2>1, UpAtTheEnd
    <2>3. Parent(a) \in Parents(Anc(i))
      BY <1>7 DEF Parents
    <2> QED
      BY <2>2, <2>3
  <1> QED
    BY <1>3, <1>4, <1>6, <1>7

\* A set that has the parents of its spans has the ancestors of them.
LEMMA Ascends ==
    ASSUME Viewer!IsTrace(trace), NEW S \in SUBSET Viewer!Spans,
           \A a \in S : Parent(a) # 0 => Parent(a) \in S, NEW i \in S
    PROVE  Anc(i) \subseteq S
  <1> DEFINE T == {n \in Nat : \A j \in S : Viewer!Up[n][j] \subseteq S}
  <1>1. 0 \in T
    BY UpFacts
  <1>2. ASSUME NEW n \in Nat, n \in T PROVE n + 1 \in T
    <2>1. ASSUME NEW j \in S PROVE Viewer!Up[n + 1][j] \subseteq S
      <3>1. Viewer!Up[n + 1][j] = IF Parent(j) = 0 THEN {} ELSE {Parent(j)} \cup Viewer!Up[n][Parent(j)]
        BY UpFacts
      <3> QED
        BY <1>2, <3>1
    <2> QED
      BY <2>1
  <1> HIDE DEF T
  <1>3. \A n \in Nat : n \in T
    BY <1>1, <1>2, Numbers
  <1>4. L \in T
    BY <1>3, TraceFacts
  <1> QED
    BY <1>4 DEF T, Anc, Viewer!Ancestors, L

\* The ancestors of an ancestor are ancestors.
LEMMA AncestorsNest ==
    ASSUME Viewer!IsTrace(trace), NEW i \in Viewer!Spans, NEW a \in Anc(i)
    PROVE  Anc(a) \subseteq Anc(i)
  BY Ascends, AncestorsFacts

\* Of two spans on the way up from a third, one is above the other.
LEMMA AncestorsLine ==
    ASSUME Viewer!IsTrace(trace), NEW i \in Viewer!Spans,
           NEW a \in {i} \cup Anc(i), NEW b \in {i} \cup Anc(i)
    PROVE  a = b \/ a \in Anc(b) \/ b \in Anc(a)
  <1> DEFINE S == {c \in {i} \cup Anc(i) : c = a \/ c \in Anc(a) \/ a \in Anc(c)}
  <1>1. {i} \cup Anc(i) \subseteq Viewer!Spans
    BY AncestorsFacts
  <1>2. ASSUME NEW c \in S, Parent(c) # 0
        PROVE  Parent(c) \in S
    <2>1. c \in Viewer!Spans /\ Parent(c) \in Anc(c) /\ Anc(c) = {Parent(c)} \cup Anc(Parent(c))
      BY <1>1, <1>2, AncestorsFacts
    <2>2. Parent(c) \in Anc(i)
      BY <1>2, <2>1, AncestorsFacts
    <2>3. CASE c = a
      BY <2>1, <2>2, <2>3
    <2>4. CASE c \in Anc(a)
      BY <1>1, <1>2, <2>2, <2>4, AncestorsFacts
    <2>5. CASE a \in Anc(c)
      BY <2>1, <2>2, <2>5
    <2> QED
      BY <1>2, <2>3, <2>4, <2>5
  <1>3. i \in S
    OBVIOUS
  <1>4. S \in SUBSET Viewer!Spans
    BY <1>1
  <1> HIDE DEF S
  <1>5. Anc(i) \subseteq S
    BY <1>2, <1>3, <1>4, Ascends
  <1>6. b \in S
    BY <1>3, <1>5
  <1> QED
    BY <1>6 DEF S

\* What is above a span that is its own ancestor is its own ancestor.
LEMMA CyclesClose ==
    ASSUME Viewer!IsTrace(trace), NEW a \in Viewer!Spans, a \in Anc(a)
    PROVE  \A b \in Anc(a) : a \in Anc(b)
  <1> DEFINE S == {b \in Viewer!Spans : a \in Anc(b)}
  <1>1. ASSUME NEW b \in S, Parent(b) # 0
        PROVE  Parent(b) \in S
    <2>1. Anc(b) = {Parent(b)} \cup Anc(Parent(b)) /\ Parent(b) \in Viewer!Spans
      BY <1>1, AncestorsFacts, TraceFacts
    <2>2. a = Parent(b) \/ a \in Anc(Parent(b))
      BY <2>1
    <2> QED
      BY <2>1, <2>2
  <1>2. a \in S /\ S \in SUBSET Viewer!Spans
    OBVIOUS
  <1> HIDE DEF S
  <1>3. Anc(a) \subseteq S
    BY <1>1, <1>2, Ascends
  <1> QED
    BY <1>3 DEF S

\* The spans whose ancestors end, and a span with what is below it.
Tree == Viewer!Spans \ Viewer!Circular
Family(i) == {i} \cup Viewer!Below(i)

\* On the tree nothing is its own ancestor and a span has one ancestor more than
\* its parent; and what has its parent there is there.
LEMMA TreeFacts ==
    ASSUME Viewer!IsTrace(trace)
    PROVE  /\ Tree \subseteq Viewer!Spans
           /\ \A i \in Tree :
                 /\ i \notin Anc(i) /\ Anc(i) \subseteq Tree
                 /\ Cardinality(Anc(i)) \in Nat /\ Cardinality(Anc(i)) < L
                 /\ Parent(i) # 0 => /\ Parent(i) \in Tree
                                     /\ Cardinality(Anc(i)) = Cardinality(Anc(Parent(i))) + 1
           /\ \A i \in Viewer!Spans : Parent(i) = 0 => i \in Tree /\ Anc(i) = {}
           /\ \A i \in Viewer!Spans : \A c \in {i} \cup Anc(i) : c \in Tree => i \in Tree
  <1>1. \A i \in Viewer!Spans : i \in Tree <=> \A a \in {i} \cup Anc(i) : a \notin Anc(a)
    BY DEF Tree, Viewer!Circular, Anc
  <1>2. Tree \subseteq Viewer!Spans
    BY DEF Tree
  <1>3. ASSUME NEW i \in Tree
        PROVE  /\ i \notin Anc(i) /\ Anc(i) \subseteq Tree
               /\ Cardinality(Anc(i)) \in Nat /\ Cardinality(Anc(i)) < L
               /\ Parent(i) # 0 => /\ Parent(i) \in Tree
                                   /\ Cardinality(Anc(i)) = Cardinality(Anc(Parent(i))) + 1
    <2>1. i \in Viewer!Spans /\ i \notin Anc(i)
      BY <1>1, <1>2
    <2>2. Anc(i) \subseteq Viewer!Spans /\ IsFiniteSet(Anc(i)) /\ Cardinality(Anc(i)) \in Nat
      BY <2>1, AncestorsFacts
    <2>3. Anc(i) \subseteq Tree
      BY <1>1, <2>1, <2>2, AncestorsNest
    <2>4. Cardinality(Anc(i)) < L
      <3>1. Cardinality(Anc(i) \cup {i}) = Cardinality(Anc(i)) + 1
        BY <2>1, <2>2, FS_AddElement
      <3>2. Anc(i) \cup {i} \subseteq Viewer!Spans
        BY <2>1, <2>2
      <3>3. Cardinality(Anc(i) \cup {i}) <= L /\ L \in Nat
        BY <3>2, TraceFacts, FS_Subset
      <3> QED
        BY <2>2, <3>1, <3>3
    <2>5. ASSUME Parent(i) # 0
          PROVE  /\ Parent(i) \in Tree
                 /\ Cardinality(Anc(i)) = Cardinality(Anc(Parent(i))) + 1
      <3>1. Anc(i) = {Parent(i)} \cup Anc(Parent(i))
        BY <2>1, <2>5, AncestorsFacts
      <3>2. Parent(i) \in Tree
        BY <2>3, <3>1
      <3>3. Parent(i) \notin Anc(Parent(i)) /\ IsFiniteSet(Anc(Parent(i)))
        BY <1>1, <1>2, <3>2, AncestorsFacts
      <3>4. Cardinality(Anc(Parent(i)) \cup {Parent(i)}) = Cardinality(Anc(Parent(i))) + 1
        BY <3>3, FS_AddElement
      <3>5. Anc(i) = Anc(Parent(i)) \cup {Parent(i)}
        BY <3>1
      <3> QED
        BY <3>2, <3>4, <3>5
    <2> QED
      BY <2>1, <2>2, <2>3, <2>4, <2>5
  <1>4. ASSUME NEW i \in Viewer!Spans, Parent(i) = 0
        PROVE  i \in Tree /\ Anc(i) = {}
    <2>1. Anc(i) = {}
      BY <1>4, AncestorsFacts
    <2> QED
      BY <1>1, <2>1
  <1>5. ASSUME NEW i \in Viewer!Spans, NEW c \in {i} \cup Anc(i), c \in Tree, i \notin Tree
        PROVE  FALSE
    <2>1. PICK a \in {i} \cup Anc(i) : a \in Anc(a)
      BY <1>1, <1>5
    <2>2. a \in Viewer!Spans /\ c \in Viewer!Spans
      BY <1>5, AncestorsFacts
    <2>3. c \notin Anc(c) /\ \A b \in Anc(c) : b \notin Anc(b)
      BY <1>1, <1>5, <2>2
    <2>4. c \in Anc(a)
      BY <2>1, <2>3, <1>5, AncestorsLine
    <2>5. a \in Anc(c)
      BY <2>1, <2>2, <2>4, CyclesClose
    <2> QED
      BY <2>1, <2>3, <2>5
  <1> QED
    BY <1>2, <1>3, <1>4, <1>5

\* The family of a span is the span and the families of its children, which
\* have nothing in common, nor has one of them its parent.
LEMMA FamilyFacts ==
    ASSUME Viewer!IsTrace(trace)
    PROVE  /\ \A i, j \in Viewer!Spans : j \in Family(i) <=> i \in {j} \cup Anc(j)
           /\ \A i \in Tree : Family(i) \subseteq Tree
           /\ \A i \in Tree, j \in Viewer!Spans : j \in Family(i) <=>
                 j = i \/ \E c \in Tree : Parent(c) = i /\ j \in Family(c)
           /\ \A c, d \in Tree : Parent(c) = Parent(d) /\ c # d => Family(c) \cap Family(d) = {}
           /\ \A c \in Tree : Parent(c) \notin Family(c)
           /\ \A c \in Tree : \A j \in Family(c) : Parent(j) \in Family(c) \/ j = c
  <1>1. \A i, j \in Viewer!Spans : j \in Family(i) <=> i \in {j} \cup Anc(j)
    BY DEF Family, Viewer!Below, Anc
  <1>1a. \A i \in Viewer!Spans : Family(i) \subseteq Viewer!Spans
    BY DEF Family, Viewer!Below
  <1>2. \A i \in Tree : Family(i) \subseteq Tree
    BY <1>1, <1>1a, TreeFacts
  <1>3. ASSUME NEW i \in Tree, NEW j \in Viewer!Spans
        PROVE  j \in Family(i) <=> j = i \/ \E c \in Tree : Parent(c) = i /\ j \in Family(c)
    <2>0. i \in Viewer!Spans
      BY TreeFacts
    <2>1. ASSUME j \in Family(i), j # i
          PROVE  \E c \in Tree : Parent(c) = i /\ j \in Family(c)
      <3>1. SUFFICES ASSUME \A c \in {j} \cup Anc(j) : Parent(c) # i
                     PROVE  FALSE
        <4>1. \A c \in {j} \cup Anc(j) : c \in Viewer!Spans /\ c \in Tree
          BY <1>2, <2>1, TreeFacts, AncestorsFacts
        <4> QED
          BY <1>1, <4>1
      <3> DEFINE R == {b \in {j} \cup Anc(j) : i \in Anc(b)}
      <3>2. R \in SUBSET Viewer!Spans
        BY AncestorsFacts
      <3>3. j \in R
        BY <1>1, <2>0, <2>1
      <3>4. ASSUME NEW b \in R, Parent(b) # 0
            PROVE  Parent(b) \in R
        <4>1. b \in Viewer!Spans /\ Anc(b) = {Parent(b)} \cup Anc(Parent(b))
          BY <3>2, <3>4, AncestorsFacts
        <4>2. i \in Anc(Parent(b))
          BY <3>1, <3>4, <4>1
        <4>3. Parent(b) \in Anc(j)
          BY <3>4, <4>1, AncestorsFacts
        <4> QED
          BY <4>2, <4>3
      <3> HIDE DEF R
      <3>5. Anc(j) \subseteq R
        BY <3>2, <3>3, <3>4, Ascends
      <3>6. i \in R
        BY <3>3, <3>5 DEF R
      <3> QED
        BY <3>6, TreeFacts DEF R
    <2>2. ASSUME NEW c \in Tree, Parent(c) = i, j \in Family(c)
          PROVE  j \in Family(i)
      <3>1. c \in Viewer!Spans /\ Parent(c) # 0
        BY <2>0, <2>2, TreeFacts, TraceFacts
      <3>2. i \in Anc(c)
        BY <2>2, <3>1, AncestorsFacts
      <3>3. i \in Anc(j)
        BY <1>1, <2>2, <3>1, <3>2, AncestorsNest
      <3> QED
        BY <1>1, <2>0, <3>3
    <2>3. i \in Family(i)
      BY DEF Family
    <2> QED
      BY <2>1, <2>2, <2>3
  <1>4. ASSUME NEW c \in Tree
        PROVE  Parent(c) \notin Family(c)
    <2>1. c \in Viewer!Spans /\ Anc(c) = IF Parent(c) = 0 THEN {} ELSE {Parent(c)} \cup Anc(Parent(c))
      BY TreeFacts, AncestorsFacts
    <2>2. CASE Parent(c) = 0
      BY <1>1a, <2>1, <2>2, TraceFacts
    <2>3. CASE Parent(c) # 0
      <3>1. Parent(c) \in Viewer!Spans /\ c \notin Anc(c) /\ Parent(c) \in Anc(c)
        BY <2>1, <2>3, TreeFacts, TraceFacts
      <3> QED
        BY <1>1, <2>1, <2>3, <3>1
    <2> QED
      BY <2>2, <2>3
  <1>5. ASSUME NEW c \in Tree, NEW d \in Tree, Parent(c) = Parent(d), c # d,
               NEW j \in Family(c), j \in Family(d)
        PROVE  FALSE
    <2>1. c \in Viewer!Spans /\ d \in Viewer!Spans /\ j \in Viewer!Spans
      BY <1>1a, <1>5, TreeFacts
    <2>2. c \in {j} \cup Anc(j) /\ d \in {j} \cup Anc(j)
      BY <1>1, <1>5, <2>1
    <2>3. c \in Anc(d) \/ d \in Anc(c)
      BY <1>5, <2>1, <2>2, AncestorsLine
    <2>4. Anc(c) = Anc(d)
      BY <1>5, <2>1, AncestorsFacts
    <2> QED
      BY <2>3, <2>4, TreeFacts
  <1>6. ASSUME NEW c \in Tree, NEW j \in Family(c), j # c
        PROVE  Parent(j) \in Family(c)
    <2>1. c \in Viewer!Spans /\ j \in Viewer!Spans
      BY <1>1a, TreeFacts
    <2>2. c \in Anc(j) /\ Parent(j) # 0 /\ Anc(j) = {Parent(j)} \cup Anc(Parent(j)) /\ Parent(j) \in Viewer!Spans
      BY <1>1, <1>6, <2>1, AncestorsFacts, TraceFacts
    <2> QED
      BY <1>1, <2>1, <2>2
  <1> QED
    BY <1>1, <1>2, <1>3, <1>4, <1>5, <1>6

-----------------------------------------------------------------------------
(* Sets in an order.                                                       *)

\* Of two elements of S one comes before the other.
Orders(order, S) ==
    /\ \A x, y \in S : x # y => <<x, y>> \in order \/ <<y, x>> \in order
    /\ \A x, y \in S : <<x, y>> \in order => <<y, x>> \notin order
    /\ \A x, y, z \in S : <<x, y>> \in order /\ <<y, z>> \in order => <<x, z>> \in order

\* s has every element of S in one place, what comes before before.
InOrder(s, S, order) ==
    /\ s \in Seq(S) /\ \A x \in S : \E k \in 1..Len(s) : s[k] = x
    /\ \A k, l \in 1..Len(s) : k < l => <<s[k], s[l]>> \in order /\ s[k] # s[l]

\* So it has no element twice.
LEMMA InOrderOnce ==
    ASSUME NEW s, NEW S, NEW order, InOrder(s, S, order)
    PROVE  /\ s \in Seq(S) /\ Len(s) \in Nat /\ \A x \in S : \E k \in 1..Len(s) : s[k] = x
           /\ \A k, l \in 1..Len(s) : s[k] = s[l] => k = l
  <1>1. s \in Seq(S) /\ Len(s) \in Nat /\ \A x \in S : \E k \in 1..Len(s) : s[k] = x
    BY DEF InOrder
  <1>2. \A k, l \in 1..Len(s) : k < l => s[k] # s[l]
    BY DEF InOrder
  <1>3. ASSUME NEW k \in 1..Len(s), NEW l \in 1..Len(s), s[k] = s[l]
        PROVE  k = l
    <2>1. ~(k < l) /\ ~(l < k)
      BY <1>2, <1>3
    <2> QED
      BY <1>1, <2>1
  <1> QED
    BY <1>1, <1>3

\* A function on the first numbers is a sequence.
LEMMA Sequences ==
    ASSUME NEW X, NEW n \in Nat, NEW s, s \in [1..n -> X]
    PROVE  s \in Seq(X) /\ Len(s) = n
  OBVIOUS

\* TraceViewer has its own copy of the definition.
LEMMA SameCardinality ==
    ASSUME NEW S
    PROVE  Viewer!Cardinality(S) = Cardinality(S)
  BY DEF Viewer!Cardinality, Cardinality, Viewer!IsFiniteSet, IsFiniteSet

\* Arranged does that.
LEMMA ArrangedFacts ==
    ASSUME NEW S, IsFiniteSet(S), NEW order, Orders(order, S)
    PROVE  InOrder(Viewer!Arranged(S, order), S, order)
  <1> DEFINE n == Cardinality(S)
             before(x) == {y \in S : <<y, x>> \in order}
             rank(x) == Cardinality(before(x))
             s == Viewer!Arranged(S, order)
  <1>1. n \in Nat
    BY FS_CardinalityType
  <1>2. \A x \in S : IsFiniteSet(before(x)) /\ rank(x) \in Nat
    BY FS_Subset, FS_CardinalityType
  <1>3. ASSUME NEW x \in S, NEW y \in S, <<x, y>> \in order
        PROVE  rank(x) < rank(y)
    <2>1. x \notin before(x)
      BY DEF Orders
    <2>2. before(x) \cup {x} \subseteq before(y)
      BY <1>3 DEF Orders
    <2>3. Cardinality(before(x) \cup {x}) = rank(x) + 1
      BY <1>2, <2>1, FS_AddElement
    <2>4. Cardinality(before(x) \cup {x}) <= rank(y)
      BY <1>2, <2>2, FS_Subset
    <2> QED
      BY <1>2, <2>3, <2>4
  <1>4. \A x \in S : rank(x) \in 0..(n - 1)
    <2> TAKE x \in S
    <2>1. before(x) \subseteq S \ {x}
      BY DEF Orders
    <2>2. IsFiniteSet(S \ {x}) /\ Cardinality(S \ {x}) = n - 1
      BY FS_RemoveElement
    <2>3. rank(x) <= n - 1
      <3> HIDE DEF before
      <3> QED
        BY <2>1, <2>2, FS_Subset
    <2> QED
      BY <1>1, <1>2, <2>3
  <1>5. \A x, y \in S : rank(x) = rank(y) => x = y
    <2> SUFFICES ASSUME NEW x \in S, NEW y \in S, rank(x) = rank(y), x # y PROVE FALSE
      OBVIOUS
    <2>1. <<x, y>> \in order \/ <<y, x>> \in order
      BY DEF Orders
    <2>2. rank(x) \in Nat /\ rank(y) \in Nat /\ ~(rank(x) < rank(y)) /\ ~(rank(y) < rank(x))
      BY <1>2
    <2> QED
      BY <1>3, <2>1, <2>2
  <1> DEFINE place(x) == Viewer!Cardinality(before(x))
  <1>6. s = [k \in 1..n |-> CHOOSE x \in S : place(x) = k - 1]
    <2>1. Viewer!Cardinality(S) = n
      BY SameCardinality
    <2>2. s = [k \in 1..Viewer!Cardinality(S) |-> CHOOSE x \in S : place(x) = k - 1]
      BY DEF Viewer!Arranged
    <2> HIDE DEF s, n, place
    <2> QED
      BY <2>1, <2>2
  <1>6a. \A x \in S : place(x) = rank(x)
    BY SameCardinality
  <1> HIDE DEF rank, n, s, place
  <1> DEFINE ranks == [x \in S |-> rank(x)]
  <1>7. ranks \in Injection(S, 0..(n - 1))
    BY <1>4, <1>5 DEF Injection, IsInjective
  <1>8. IsFiniteSet(0..(n - 1)) /\ Cardinality(0..(n - 1)) = n
    BY <1>1, FS_Interval
  <1>9. ranks \in Surjection(S, 0..(n - 1))
    <2> HIDE DEF ranks
    <2> QED
      BY <1>7, <1>8, FS_Injection DEF n
  <1>10. ASSUME NEW k \in 1..n
         PROVE  s[k] \in S /\ rank(s[k]) = k - 1
    <2>1. k - 1 \in 0..(n - 1)
      BY <1>1
    <2>2. \E x \in S : rank(x) = k - 1
      BY <1>9, <2>1 DEF Surjection
    <2> QED
      BY <1>6, <1>6a, <2>2
  <1>11. s \in Seq(S) /\ Len(s) = n
    <2>1. DOMAIN s = 1..n /\ s = [k \in 1..n |-> s[k]]
      BY <1>6
    <2>2. s \in [1..n -> S]
      BY <1>10, <2>1
    <2> QED
      BY <1>1, <2>2
  <1>12. ASSUME NEW x \in S
         PROVE  \E k \in 1..Len(s) : s[k] = x
    <2>1. rank(x) + 1 \in 1..n /\ rank(x) \in Int
      BY <1>1, <1>4
    <2>2. s[rank(x) + 1] \in S /\ rank(s[rank(x) + 1]) = rank(x)
      BY <1>10, <2>1
    <2>3. s[rank(x) + 1] = x
      BY <1>5, <2>2
    <2> QED
      BY <1>11, <2>1, <2>3
  <1>13. ASSUME NEW k \in 1..Len(s), NEW l \in 1..Len(s), k < l
         PROVE  <<s[k], s[l]>> \in order /\ s[k] # s[l]
    <2>1. s[k] \in S /\ s[l] \in S /\ rank(s[k]) < rank(s[l]) /\ rank(s[k]) \in Int /\ rank(s[l]) \in Int
      BY <1>1, <1>10, <1>11, <1>13
    <2>2. s[k] # s[l] /\ <<s[l], s[k]>> \notin order
      BY <1>3, <2>1
    <2> QED
      BY <2>1, <2>2 DEF Orders
  <1>14. InOrder(s, S, order)
    BY <1>11, <1>12, <1>13 DEF InOrder
  <1> QED
    BY <1>14 DEF s

\* Both ways of listing spans are orders of them.
LEMMA OrdersHold ==
    ASSUME Viewer!IsTrace(trace)
    PROVE  Orders(Viewer!Listed, Viewer!Spans) /\ Orders(Viewer!Earlier, Viewer!Spans)
  <1>1. \A i, j \in Viewer!Spans : <<i, j>> \in Viewer!Listed <=> i < j
    BY DEF Viewer!Listed
  <1>2. \A i, j \in Viewer!Spans : <<i, j>> \in Viewer!Earlier <=>
            \/ Viewer!Span(i).start < Viewer!Span(j).start
            \/ Viewer!Span(i).start = Viewer!Span(j).start /\ i < j
    BY DEF Viewer!Earlier
  <1>3. \A i \in Viewer!Spans : i \in Nat /\ Viewer!Span(i).start \in Nat
    <2>1. \A i \in Viewer!Spans : Viewer!Span(i) \in Viewer!AnySpan(0..L)
      BY TraceFacts DEF L, Viewer!IsTrace, Viewer!Spans, Viewer!Span
    <2> QED
      BY <2>1, TraceFacts DEF Viewer!AnySpan
  <1>4. Orders(Viewer!Listed, Viewer!Spans)
    BY <1>1, <1>3 DEF Orders
  <1>5. Orders(Viewer!Earlier, Viewer!Spans)
    BY <1>2, <1>3 DEF Orders
  <1> QED
    BY <1>4, <1>5

\* The children of i, or the roots for 0.
Kids(i) == {j \in Viewer!Spans : Parent(j) = i}

\* The tree and the mind map list children as they come, the timeline by their
\* start.
LEMMA ChildrenFacts ==
    ASSUME Viewer!IsTrace(trace)
    PROVE  /\ \A S \in SUBSET Viewer!Spans : InOrder(Viewer!Arranged(S, Viewer!Listed), S, Viewer!Listed)
           /\ InOrder(Viewer!Roots, Kids(0), Viewer!Listed)
           /\ \A i \in Viewer!Spans :
                 /\ InOrder(Viewer!Children(i), Kids(i), Viewer!Listed)
                 /\ InOrder(Viewer!ByStart(Viewer!Children(i)), Kids(i), Viewer!Earlier)
  <1>4. ASSUME NEW S \in SUBSET Viewer!Spans
        PROVE  IsFiniteSet(S) /\ Orders(Viewer!Listed, S) /\ Orders(Viewer!Earlier, S)
    <2>1. IsFiniteSet(S)
      BY TraceFacts, FS_Subset
    <2>2. Orders(Viewer!Listed, S)
      BY OrdersHold DEF Orders
    <2>3. Orders(Viewer!Earlier, S)
      BY OrdersHold DEF Orders
    <2> QED
      BY <2>1, <2>2, <2>3
  <1>5. \A S \in SUBSET Viewer!Spans : InOrder(Viewer!Arranged(S, Viewer!Listed), S, Viewer!Listed)
    BY <1>4, ArrangedFacts
  <1>6. \A i : Kids(i) \in SUBSET Viewer!Spans
    BY DEF Kids
  <1>7. InOrder(Viewer!Roots, Kids(0), Viewer!Listed)
    BY <1>5, <1>6 DEF Viewer!Roots, Kids, Parent
  <1>8. ASSUME NEW i \in Viewer!Spans
        PROVE  /\ InOrder(Viewer!Children(i), Kids(i), Viewer!Listed)
               /\ InOrder(Viewer!ByStart(Viewer!Children(i)), Kids(i), Viewer!Earlier)
    <2>1. InOrder(Viewer!Children(i), Kids(i), Viewer!Listed)
      BY <1>5, <1>6 DEF Viewer!Children, Kids, Parent
    <2>2. Viewer!Range(Viewer!Children(i)) = Kids(i)
      BY <2>1 DEF InOrder, Viewer!Range
    <2>3. InOrder(Viewer!Arranged(Kids(i), Viewer!Earlier), Kids(i), Viewer!Earlier)
      BY <1>4, <1>6, ArrangedFacts
    <2> QED
      BY <2>1, <2>2, <2>3 DEF Viewer!ByStart
  <1> QED
    BY <1>5, <1>7, <1>8

-----------------------------------------------------------------------------
(* Sequences put one after the other.                                      *)

\* f has what the first k of the parts make, for every k.
Grows(f, parts, k) == f[k + 1] = f[k] \o parts[k + 1]
Joins(f, parts, X) ==
    /\ f \in [Nat -> Seq(X)] /\ f[0] = <<>>
    /\ \A k \in Nat : k + 1 \in 1..Len(parts) => Grows(f, parts, k)

FlatOf(g, parts) ==
    [i \in 1..Len(parts) |-> IF i = 1 THEN parts[i] ELSE g[i - 1] \o parts[i]]

\* FlattenSeq joins all parts.
LEMMA FlattenFacts ==
    ASSUME NEW X, NEW parts \in Seq(Seq(X))
    PROVE  \E f : Joins(f, parts, X) /\ Viewer!FlattenSeq(parts) = f[Len(parts)]
  <1> DEFINE n == Len(parts)
             V == Seq(X)
             step == [x \in Nat \X V |-> IF x[1] + 1 \in 1..n THEN x[2] \o parts[x[1] + 1] ELSE x[2]]
  <1>1. n \in Nat /\ \A k \in 1..n : parts[k] \in V
    OBVIOUS
  <1>2. step \in [Nat \X V -> V]
    <2>1. ASSUME NEW x \in Nat \X V
          PROVE  (IF x[1] + 1 \in 1..n THEN x[2] \o parts[x[1] + 1] ELSE x[2]) \in V
      <3>1. x[1] \in Nat /\ x[2] \in V
        OBVIOUS
      <3>2. CASE x[1] + 1 \in 1..n
        <4>1. parts[x[1] + 1] \in V
          BY <1>1, <3>2
        <4>2. x[2] \o parts[x[1] + 1] \in V
          BY <3>1, <4>1
        <4> QED
          BY <3>2, <4>2
      <3> QED
        BY <3>1, <3>2
    <2> QED
      BY <2>1
  <1>3. <<>> \in V
    OBVIOUS
  <1>4. \A m \in Nat, s \in V : m + 1 \in 1..n => step[<<m, s>>] = s \o parts[m + 1]
    OBVIOUS
  <1> HIDE DEF step, V
  <1>5. PICK f : Goes(f, V, <<>>, step)
    BY <1>2, <1>3, Iterates
  <1>6. Joins(f, parts, X)
    <2>1. ASSUME NEW k \in Nat, k + 1 \in 1..n
          PROVE  Grows(f, parts, k)
      <3>1. f[k + 1] = step[<<k, f[k]>>] /\ f[k] \in V
        BY <1>5 DEF Goes
      <3> QED
        BY <1>4, <2>1, <3>1 DEF Grows
    <2> QED
      BY <1>5, <2>1 DEF Goes, Joins, V
  <1>7. CASE n = 0
    <2>1. parts = <<>> /\ f[Len(parts)] = <<>>
      BY <1>6, <1>7 DEF Joins
    <2>2. Viewer!FlattenSeq(parts) = parts
      BY <1>7 DEF Viewer!FlattenSeq
    <2> QED
      BY <1>6, <2>1, <2>2
  <1>8. CASE n # 0
    <2> DEFINE g == [i \in 1..n |-> f[i]]
    <2>1. g = FlatOf(g, parts)
      <3>1. ASSUME NEW i \in 1..n
            PROVE  f[i] = IF i = 1 THEN parts[i] ELSE g[i - 1] \o parts[i]
        <4>1. f[i] = f[i - 1] \o parts[i]
          <5>1. i - 1 \in Nat /\ i - 1 + 1 = i
            BY <1>1
          <5>2. Grows(f, parts, i - 1)
            BY <1>6, <5>1 DEF Joins
          <5> QED
            BY <5>1, <5>2 DEF Grows
        <4>2. CASE i = 1
          <5>1. f[1 - 1] = <<>> /\ parts[1] \in Seq(X)
            BY <1>1, <1>6, <4>2 DEF Joins, V
          <5>2. <<>> \o parts[1] = parts[1]
            BY <5>1
          <5> QED
            BY <4>1, <4>2, <5>1, <5>2
        <4>3. CASE i # 1
          <5>1. i - 1 \in 1..n
            BY <1>1, <4>3
          <5> QED
            BY <4>1, <4>3, <5>1
        <4> QED
          BY <4>2, <4>3
      <3>2. \A i \in 1..n : g[i] = f[i]
        OBVIOUS
      <3> HIDE DEF g
      <3>3. FlatOf(g, parts) = [i \in 1..n |-> f[i]]
        BY <3>1 DEF FlatOf
      <3> QED
        BY <3>3 DEF g
    <2> DEFINE h == CHOOSE flatten : flatten = FlatOf(flatten, parts)
    <2>2. h = FlatOf(h, parts)
      BY <2>1
    <2>3. Viewer!FlattenSeq(parts) = h[n]
      BY <1>8 DEF Viewer!FlattenSeq, FlatOf
    <2> HIDE DEF h
    <2>3a. \A i \in 1..n : h[i] = IF i = 1 THEN parts[i] ELSE h[i - 1] \o parts[i]
      BY <2>2 DEF FlatOf
    <2>3b. \A i \in 1..n : g[i] = IF i = 1 THEN parts[i] ELSE g[i - 1] \o parts[i]
      <3> HIDE DEF g
      <3> QED
        BY <2>1 DEF FlatOf
    <2> DEFINE T == {k \in Nat : k \in 1..n => h[k] = f[k]}
    <2>4. 0 \in T
      OBVIOUS
    <2>5. ASSUME NEW k \in Nat, k \in T PROVE k + 1 \in T
      <3>1. SUFFICES ASSUME k + 1 \in 1..n PROVE h[k + 1] = f[k + 1]
        OBVIOUS
      <3>2. h[k + 1] = IF k + 1 = 1 THEN parts[k + 1] ELSE h[k + 1 - 1] \o parts[k + 1]
        BY <2>3a, <3>1
      <3>3. f[k + 1] = IF k + 1 = 1 THEN parts[k + 1] ELSE g[k + 1 - 1] \o parts[k + 1]
        <4>1. f[k + 1] = g[k + 1]
          BY <3>1
        <4> HIDE DEF g, T
        <4>2. g[k + 1] = IF k + 1 = 1 THEN parts[k + 1] ELSE g[k + 1 - 1] \o parts[k + 1]
          BY <2>3b, <3>1
        <4> QED
          BY <4>1, <4>2
      <3>4. k + 1 # 1 => h[k + 1 - 1] = g[k + 1 - 1]
        <4>1. k + 1 - 1 = k /\ (k + 1 # 1 => k \in 1..n)
          BY <1>1, <3>1
        <4>2. k \in 1..n => h[k] = f[k] /\ g[k] = f[k]
          BY <2>5
        <4> QED
          BY <4>1, <4>2
      <3> QED
        BY <3>2, <3>3, <3>4
    <2> HIDE DEF T
    <2>6. \A k \in Nat : k \in T
      BY <2>4, <2>5, Numbers
    <2>7. h[n] = f[n]
      BY <1>1, <1>8, <2>6 DEF T
    <2> QED
      BY <1>6, <2>3, <2>7
  <1> QED
    BY <1>7, <1>8

-----------------------------------------------------------------------------
(* Spans below one another.                                                *)

\* w has every span of F once.
Lists(w, F) ==
    /\ w \in Seq(F) /\ \A j \in F : \E k \in 1..Len(w) : w[k] = j
    /\ \A k, l \in 1..Len(w) : w[k] = w[l] => k = l

\* Only what is below the parent of a span is between the two.
Nests(w, F) ==
    \A k \in 1..Len(w) : Parent(w[k]) \in F =>
        \E l \in 1..Len(w) : /\ l < k /\ w[l] = Parent(w[k])
                             /\ \A m \in (l + 1)..k : Parent(w[k]) \in Anc(w[m])

\* The children of a span are in order.
Sorts(w, F, order) ==
    \A k, l \in 1..Len(w) :
        (/\ Parent(w[k]) = Parent(w[l]) /\ Parent(w[k]) \in F
         /\ <<w[k], w[l]>> \in order) => k < l

Walks(w, F, order) == Lists(w, F) /\ Nests(w, F) /\ Sorts(w, F, order)

\* In w come the spans of cs, as far as n, in the order they have there.
Leads(w, cs, n) ==
    \A a, b \in 1..n : a < b =>
        \A k, l \in 1..Len(w) : w[k] = cs[a] /\ w[l] = cs[b] => k < l

\* u is v with w behind it.
Joined(u, v, w, E, F) ==
    /\ u \in Seq(E \cup F) /\ Len(u) = Len(v) + Len(w)
    /\ Len(v) \in Nat /\ Len(w) \in Nat
    /\ \A k \in 1..Len(v) : u[k] = v[k] /\ v[k] \in E
    /\ \A k \in 1..Len(w) : u[Len(v) + k] = w[k] /\ w[k] \in F
    /\ \A k \in 1..Len(u) : \/ k \in 1..Len(v) /\ u[k] = v[k]
                            \/ \E l \in 1..Len(w) : k = Len(v) + l /\ u[k] = w[l]

\* Where the elements of two sequences are when they are joined.
LEMMA JoinFacts ==
    ASSUME NEW E, NEW F, NEW v \in Seq(E), NEW w \in Seq(F)
    PROVE  Joined(v \o w, v, w, E, F)
  <1>1. v \in Seq(E \cup F) /\ w \in Seq(E \cup F)
    OBVIOUS
  <1>2. v \o w \in Seq(E \cup F) /\ Len(v \o w) = Len(v) + Len(w) /\ Len(v) \in Nat /\ Len(w) \in Nat
    BY <1>1
  <1>3. \A k \in 1..Len(v) : (v \o w)[k] = v[k] /\ v[k] \in E
    BY <1>1, <1>2
  <1>4. \A k \in 1..Len(w) : (v \o w)[Len(v) + k] = w[k] /\ w[k] \in F
    BY <1>1, <1>2
  <1>5. ASSUME NEW k \in 1..Len(v \o w)
        PROVE  \/ k \in 1..Len(v) /\ (v \o w)[k] = v[k]
               \/ \E l \in 1..Len(w) : k = Len(v) + l /\ (v \o w)[k] = w[l]
    <2>1. k \in 1..Len(v) \/ (k - Len(v) \in 1..Len(w) /\ k = Len(v) + (k - Len(v)))
      BY <1>2
    <2> QED
      BY <1>3, <1>4, <2>1
  <1> QED
    BY <1>2, <1>3, <1>4, <1>5 DEF Joined

\* Two walks over spans that have nothing to do with one another.
LEMMA WalksJoin ==
    ASSUME NEW order, NEW E, NEW F, NEW v, NEW w,
           Walks(v, E, order), Walks(w, F, order), E \cap F = {},
           \A j \in E : Parent(j) \notin F, \A j \in F : Parent(j) \notin E
    PROVE  Walks(v \o w, E \cup F, order)
  <1> DEFINE u == v \o w
             m == Len(v)
             n == Len(w)
  <1>1. v \in Seq(E) /\ w \in Seq(F)
    BY DEF Walks, Lists
  <1>2. /\ u \in Seq(E \cup F) /\ Len(u) = m + n /\ m \in Nat /\ n \in Nat
        /\ \A k \in 1..m : u[k] = v[k] /\ v[k] \in E
        /\ \A k \in 1..n : u[m + k] = w[k] /\ w[k] \in F
        /\ \A k \in 1..Len(u) : \/ k \in 1..m /\ u[k] = v[k]
                                \/ \E l \in 1..n : k = m + l /\ u[k] = w[l]
    <2>1. Joined(u, v, w, E, F)
      BY <1>1, JoinFacts
    <2> HIDE DEF u
    <2> QED
      BY <2>1 DEF Joined
  <1>3. \A k \in 1..m : k \in 1..Len(u)
    BY <1>2
  <1>4. \A k \in 1..n : m + k \in 1..Len(u)
    BY <1>2
  <1> HIDE DEF u, m, n
  <1>5. Lists(u, E \cup F)
    <2>1. ASSUME NEW j \in E \cup F
          PROVE  \E k \in 1..Len(u) : u[k] = j
      <3>1. CASE j \in E
        <4>1. PICK k \in 1..m : v[k] = j
          BY <3>1 DEF Walks, Lists, m
        <4> QED
          BY <1>2, <1>3, <4>1
      <3>2. CASE j \in F
        <4>1. PICK k \in 1..n : w[k] = j
          BY <3>2 DEF Walks, Lists, n
        <4> QED
          BY <1>2, <1>4, <4>1
      <3> QED
        BY <3>1, <3>2
    <2>2. ASSUME NEW k \in 1..Len(u), NEW l \in 1..Len(u), u[k] = u[l]
          PROVE  k = l
      <3>1. CASE k \in 1..m /\ l \in 1..m /\ u[k] = v[k] /\ u[l] = v[l]
        BY <2>2, <3>1 DEF Walks, Lists, m
      <3>2. CASE k \in 1..m /\ u[k] = v[k] /\ \E b \in 1..n : l = m + b /\ u[l] = w[b]
        BY <1>2, <2>2, <3>2
      <3>3. CASE l \in 1..m /\ u[l] = v[l] /\ \E a \in 1..n : k = m + a /\ u[k] = w[a]
        BY <1>2, <2>2, <3>3
      <3>4. ASSUME NEW a \in 1..n, k = m + a, u[k] = w[a], NEW b \in 1..n, l = m + b, u[l] = w[b]
            PROVE  k = l
        <4>1. w[a] = w[b]
          BY <2>2, <3>4
        <4>2. a = b
          BY <4>1 DEF Walks, Lists, n
        <4> QED
          BY <3>4, <4>2
      <3> QED
        BY <1>2, <3>1, <3>2, <3>3, <3>4
    <2> QED
      BY <1>2, <2>1, <2>2 DEF Lists
  <1>6. Nests(u, E \cup F)
    <2> SUFFICES ASSUME NEW k \in 1..Len(u), Parent(u[k]) \in E \cup F
                 PROVE  \E l \in 1..Len(u) : /\ l < k /\ u[l] = Parent(u[k])
                             /\ \A i \in (l + 1)..k : Parent(u[k]) \in Anc(u[i])
      BY DEF Nests
    <2>1. CASE k \in 1..m /\ u[k] = v[k]
      <3>1. Parent(v[k]) \in E
        BY <1>2, <2>1
      <3>2. PICK l \in 1..m : /\ l < k /\ v[l] = Parent(v[k])
                              /\ \A i \in (l + 1)..k : Parent(v[k]) \in Anc(v[i])
        BY <2>1, <3>1 DEF Walks, Nests, m
      <3>3. \A i \in (l + 1)..k : i \in 1..m
        BY <1>2, <2>1
      <3> QED
        BY <1>2, <1>3, <2>1, <3>2, <3>3
    <2>2. ASSUME NEW a \in 1..n, k = m + a, u[k] = w[a]
          PROVE  \E l \in 1..Len(u) : /\ l < k /\ u[l] = Parent(u[k])
                             /\ \A i \in (l + 1)..k : Parent(u[k]) \in Anc(u[i])
      <3>1. Parent(w[a]) \in F
        BY <1>2, <2>2
      <3>2. PICK b \in 1..n : /\ b < a /\ w[b] = Parent(w[a])
                              /\ \A i \in (b + 1)..a : Parent(w[a]) \in Anc(w[i])
        BY <2>2, <3>1 DEF Walks, Nests, n
      <3>3. m + b \in 1..Len(u) /\ m + b < k /\ u[m + b] = Parent(u[k])
        BY <1>2, <1>4, <2>2, <3>2
      <3>4. ASSUME NEW i \in (m + b + 1)..k
            PROVE  Parent(u[k]) \in Anc(u[i])
        <4>1. i - m \in (b + 1)..a /\ i - m \in 1..n /\ i = m + (i - m)
          BY <1>2, <2>2, <3>2
        <4>2. u[i] = w[i - m]
          BY <1>2, <4>1
        <4> QED
          BY <2>2, <3>2, <4>1, <4>2
      <3> QED
        BY <3>3, <3>4
    <2> QED
      BY <1>2, <2>1, <2>2
  <1>7. Sorts(u, E \cup F, order)
    <2> SUFFICES ASSUME NEW k \in 1..Len(u), NEW l \in 1..Len(u),
                        Parent(u[k]) = Parent(u[l]), Parent(u[k]) \in E \cup F,
                        <<u[k], u[l]>> \in order
                 PROVE  k < l
      BY DEF Sorts
    <2>1. CASE k \in 1..m /\ l \in 1..m /\ u[k] = v[k] /\ u[l] = v[l]
      <3>1. Parent(v[k]) \in E
        BY <1>2, <2>1
      <3> QED
        BY <2>1, <3>1 DEF Walks, Sorts, m
    <2>2. CASE k \in 1..m /\ u[k] = v[k] /\ \E b \in 1..n : l = m + b /\ u[l] = w[b]
      BY <1>2, <2>2
    <2>3. CASE l \in 1..m /\ u[l] = v[l] /\ \E a \in 1..n : k = m + a /\ u[k] = w[a]
      BY <1>2, <2>3
    <2>4. ASSUME NEW a \in 1..n, k = m + a, u[k] = w[a], NEW b \in 1..n, l = m + b, u[l] = w[b]
          PROVE  k < l
      <3>1. Parent(w[a]) \in F
        BY <1>2, <2>4
      <3>2. a < b
        BY <2>4, <3>1 DEF Walks, Sorts, n
      <3> QED
        BY <1>2, <2>4, <3>2
    <2> QED
      BY <1>2, <2>1, <2>2, <2>3, <2>4
  <1> QED
    BY <1>5, <1>6, <1>7 DEF Walks, u

\* What is drawn for the spans of w.
Shown(w, r) == [k \in 1..Len(w) |-> r[w[k]]]

Splits(v, w, r) == Shown(v \o w, r) = Shown(v, r) \o Shown(w, r)

\* It is drawn for each of two parts on its own.
LEMMA ShownJoins ==
    ASSUME NEW S, NEW Y, NEW r \in [S -> Y], NEW v \in Seq(S), NEW w \in Seq(S)
    PROVE  Shown(v, r) \in Seq(Y) /\ Splits(v, w, r)
  <1>1. \A u \in Seq(S) : Shown(u, r) \in Seq(Y) /\ Len(Shown(u, r)) = Len(u)
    <2> TAKE u \in Seq(S)
    <2>1. Len(u) \in Nat /\ \A k \in 1..Len(u) : r[u[k]] \in Y
      OBVIOUS
    <2>2. Shown(u, r) \in [1..Len(u) -> Y]
      BY <2>1 DEF Shown
    <2> QED
      BY <2>1, <2>2
  <1> DEFINE a == Shown(v \o w, r)
             b == Shown(v, r) \o Shown(w, r)
  <1>2. Joined(v \o w, v, w, S, S)
    BY JoinFacts
  <1>3. Joined(b, Shown(v, r), Shown(w, r), Y, Y)
    BY <1>1, JoinFacts
  <1>4. v \o w \in Seq(S) /\ Len(v \o w) = Len(v) + Len(w) /\ Len(v) \in Nat /\ Len(w) \in Nat
    BY <1>2 DEF Joined
  <1>5. a \in Seq(Y) /\ Len(a) = Len(v) + Len(w)
    BY <1>1, <1>4
  <1>6. b \in Seq(Y) /\ Len(b) = Len(v) + Len(w)
    BY <1>1, <1>3 DEF Joined
  <1>7. ASSUME NEW k \in 1..(Len(v) + Len(w))
        PROVE  a[k] = b[k]
    <2>1. a[k] = r[(v \o w)[k]]
      BY <1>4 DEF Shown
    <2> HIDE DEF a, b
    <2>2. CASE k \in 1..Len(v)
      <3>1. (v \o w)[k] = v[k]
        BY <1>2, <2>2 DEF Joined
      <3>2. b[k] = Shown(v, r)[k]
        BY <1>1, <1>3, <2>2 DEF Joined
      <3> QED
        BY <2>1, <2>2, <3>1, <3>2 DEF Shown
    <2>3. CASE k \notin 1..Len(v)
      <3> DEFINE l == k - Len(v)
      <3>1. l \in 1..Len(w) /\ k = Len(v) + l
        BY <1>4, <2>3
      <3> HIDE DEF l
      <3>2. (v \o w)[k] = w[l]
        BY <1>2, <3>1 DEF Joined
      <3>3. b[k] = Shown(w, r)[l]
        BY <1>1, <1>3, <3>1 DEF Joined
      <3> QED
        BY <2>1, <3>1, <3>2, <3>3 DEF Shown
    <2> QED
      BY <2>2, <2>3
  <1> HIDE DEF a, b
  <1>8. a = b
    BY <1>5, <1>6, <1>7
  <1> QED
    BY <1>1, <1>8 DEF a, b, Splits

Families(cs, n) == UNION {Family(cs[a]) : a \in 1..n}

\* The spans of cs have the parent p, and for each there is a part that shows a
\* walk through its family.
Grove(cs, p, parts, Y, r, order) ==
    /\ cs \in Seq(Tree) /\ \A a \in 1..Len(cs) : Parent(cs[a]) = p
    /\ \A a, b \in 1..Len(cs) : cs[a] = cs[b] => a = b
    /\ r \in [Viewer!Spans -> Y] /\ parts \in Seq(Seq(Y)) /\ Len(parts) = Len(cs)
    /\ \A a \in 1..Len(cs) : \E w : Walks(w, Family(cs[a]), order) /\ parts[a] = Shown(w, r)

\* Then the parts one after the other show a walk through all the families.
LEMMA Forest ==
    ASSUME Viewer!IsTrace(trace), NEW order, NEW Y, NEW r, NEW p, NEW cs, NEW parts,
           Grove(cs, p, parts, Y, r, order)
    PROVE  \E w : /\ Walks(w, Families(cs, Len(cs)), order) /\ Leads(w, cs, Len(cs))
                  /\ Viewer!FlattenSeq(parts) = Shown(w, r)
  <1> DEFINE m == Len(cs)
             E(n) == Families(cs, n)
  <1>0. m \in Nat /\ \A a \in 1..m : cs[a] \in Tree /\ Parent(cs[a]) = p
    BY DEF Grove
  <1>1. \A a \in 1..m : Family(cs[a]) \subseteq Tree /\ cs[a] \in Family(cs[a])
    BY <1>0, FamilyFacts DEF Family
  <1>2. \A a, b \in 1..m : a # b => Family(cs[a]) \cap Family(cs[b]) = {}
    BY <1>0, FamilyFacts DEF Grove
  <1>3. \A a \in 1..m : p \notin Family(cs[a])
    BY <1>0, FamilyFacts
  <1>4. \A a \in 1..m : \A j \in Family(cs[a]) : Parent(j) \in Family(cs[a]) \/ Parent(j) = p
    BY <1>0, FamilyFacts
  <1>5. PICK f : Joins(f, parts, Y) /\ Viewer!FlattenSeq(parts) = f[Len(parts)]
    BY FlattenFacts DEF Grove
  <1>5b. Len(parts) = m /\ r \in [Viewer!Spans -> Y]
    BY DEF Grove
  <1> DEFINE Reached(w, n) == Walks(w, E(n), order) /\ Leads(w, cs, n) /\ f[n] = Shown(w, r)
             T == {n \in Nat : n <= m => \E w : Reached(w, n)}
  <1>6. 0 \in T
    <2>1. E(0) = {}
      BY DEF Families
    <2>2. Walks(<<>>, E(0), order)
      BY <2>1 DEF Walks, Lists, Nests, Sorts
    <2>3. Leads(<<>>, cs, 0)
      BY DEF Leads
    <2>4. f[0] = Shown(<<>>, r)
      BY <1>5 DEF Joins, Shown
    <2> QED
      BY <2>2, <2>3, <2>4
  <1>7. ASSUME NEW n \in Nat, n \in T PROVE n + 1 \in T
    <2> SUFFICES ASSUME n + 1 <= m PROVE \E w : Reached(w, n + 1)
      OBVIOUS
    <2>1. PICK v : Reached(v, n)
      BY <1>0, <1>7
    <2>1a. Walks(v, E(n), order) /\ Leads(v, cs, n) /\ f[n] = Shown(v, r)
      BY <2>1
    <2> DEFINE c == cs[n + 1]
               F == Family(c)
    <2>2. n + 1 \in 1..m /\ n \in 0..m
      BY <1>0
    <2>3. PICK w : Walks(w, F, order) /\ parts[n + 1] = Shown(w, r)
      BY <2>2 DEF Grove
    <2>4. E(n + 1) = E(n) \cup F
      <3>1. \A a : a \in 1..(n + 1) <=> a \in 1..n \/ a = n + 1
        OBVIOUS
      <3> QED
        BY <3>1 DEF Families
    <2>5. \A j \in E(n) : \E a \in 1..m : a # n + 1 /\ j \in Family(cs[a])
      <3>1. \A a \in 1..n : a \in 1..m /\ a # n + 1
        BY <2>2
      <3> QED
        BY <3>1 DEF Families
    <2>5a. /\ \A a \in 1..m : a # n + 1 => Family(cs[a]) \cap F = {}
           /\ p \notin F /\ \A j \in F : Parent(j) \in F \/ Parent(j) = p
      BY <1>2, <1>3, <1>4, <2>2
    <2>5b. /\ \A a \in 1..n : cs[a] \in E(n)
           /\ cs[n + 1] \in F
      <3>1. \A a \in 1..m : cs[a] \in Family(cs[a])
        BY <1>1
      <3>2. \A a \in 1..n : a \in 1..m
        BY <2>2
      <3> QED
        BY <2>2, <3>1, <3>2 DEF Families
    <2>5c. E(n) \subseteq Viewer!Spans /\ F \subseteq Viewer!Spans
      <3>1. Tree \subseteq Viewer!Spans
        BY DEF Tree
      <3>2. \A a \in 1..m : Family(cs[a]) \subseteq Viewer!Spans
        BY <1>1, <3>1
      <3> HIDE DEF E
      <3> QED
        BY <2>2, <2>5, <3>2
    <2> HIDE DEF F, E, Reached
    <2>6. E(n) \cap F = {}
      BY <2>5, <2>5a
    <2>7. \A j \in E(n) : Parent(j) \notin F
      <3> TAKE j \in E(n)
      <3>1. PICK a \in 1..m : a # n + 1 /\ j \in Family(cs[a])
        BY <2>5
      <3>2. Parent(j) \in Family(cs[a]) \/ Parent(j) = p
        BY <1>4, <3>1
      <3> QED
        BY <2>5a, <3>1, <3>2
    <2>8. \A j \in F : Parent(j) \notin E(n)
      <3> TAKE j \in F
      <3>1. ASSUME Parent(j) \in E(n) PROVE FALSE
        <4>1. PICK a \in 1..m : a # n + 1 /\ Parent(j) \in Family(cs[a])
          BY <2>5, <3>1
        <4>2. Parent(j) # p
          BY <1>3, <4>1
        <4> QED
          BY <2>5a, <4>1, <4>2
      <3> QED
        BY <3>1
    <2>9. Walks(v \o w, E(n + 1), order)
      <3>1. Walks(v, E(n), order) /\ Walks(w, F, order)
        BY <2>1a, <2>3
      <3>2. Walks(v \o w, E(n) \cup F, order)
        BY <2>6, <2>7, <2>8, <3>1, WalksJoin
      <3> QED
        BY <2>4, <3>2
    <2>10. v \in Seq(E(n)) /\ w \in Seq(F)
      BY <2>1a, <2>3 DEF Walks, Lists
    <2>11. Joined(v \o w, v, w, E(n), F)
      BY <2>10, JoinFacts
    <2>12. Leads(v \o w, cs, n + 1)
      <3> DEFINE u == v \o w
      <3> SUFFICES ASSUME NEW a \in 1..(n + 1), NEW b \in 1..(n + 1), a < b,
                          NEW k \in 1..Len(u), NEW l \in 1..Len(u), u[k] = cs[a], u[l] = cs[b]
                   PROVE  k < l
        BY DEF Leads
      <3>1. /\ Len(v) \in Nat
            /\ \A i \in 1..Len(v) : v[i] \in E(n)
            /\ \A i \in 1..Len(w) : w[i] \in F
            /\ \A i \in 1..Len(u) : \/ i \in 1..Len(v) /\ u[i] = v[i]
                                    \/ \E j \in 1..Len(w) : i = Len(v) + j /\ u[i] = w[j]
        BY <2>11 DEF Joined
      <3> HIDE DEF u
      <3>2. a \in 1..n /\ (b \in 1..n \/ b = n + 1)
        OBVIOUS
      <3>3. \A i \in 1..Len(u) : u[i] \in E(n) => i \in 1..Len(v) /\ u[i] = v[i]
        BY <2>6, <3>1
      <3>4. \A i \in 1..Len(u) : u[i] \in F => \E j \in 1..Len(w) : i = Len(v) + j
        BY <2>6, <3>1
      <3>5. k \in 1..Len(v) /\ v[k] = cs[a]
        BY <2>5b, <3>2, <3>3
      <3>6. CASE b \in 1..n
        <4>1. l \in 1..Len(v) /\ v[l] = cs[b]
          BY <2>5b, <3>3, <3>6
        <4> QED
          BY <2>1a, <3>2, <3>5, <3>6, <4>1 DEF Leads
      <3>7. CASE b = n + 1
        <4>1. \E j \in 1..Len(w) : l = Len(v) + j
          BY <2>5b, <3>4, <3>7
        <4> QED
          BY <3>1, <3>5, <4>1
      <3> QED
        BY <3>2, <3>6, <3>7
    <2>13. f[n + 1] = Shown(v \o w, r)
      <3>1. f[n + 1] = f[n] \o parts[n + 1]
        <4>1. Grows(f, parts, n)
          BY <1>5, <1>5b, <2>2 DEF Joins
        <4> QED
          BY <4>1 DEF Grows
      <3>2. v \in Seq(Viewer!Spans) /\ w \in Seq(Viewer!Spans)
        BY <2>5c, <2>10
      <3>3. Shown(v \o w, r) = Shown(v, r) \o Shown(w, r)
        <4>1. Splits(v, w, r)
          BY <1>5b, <3>2, ShownJoins
        <4> QED
          BY <4>1 DEF Splits
      <3>4. f[n] = Shown(v, r) /\ parts[n + 1] = Shown(w, r)
        BY <2>1a, <2>3
      <3> QED
        BY <3>1, <3>3, <3>4
    <2>14. Reached(v \o w, n + 1)
      BY <2>9, <2>12, <2>13 DEF Reached
    <2> QED
      BY <2>14
  <1> HIDE DEF T, Reached
  <1>8. \A n \in Nat : n \in T
    BY <1>6, <1>7, Numbers
  <1>9. PICK w : Reached(w, m)
    BY <1>0, <1>8 DEF T
  <1>10. Walks(w, E(m), order) /\ Leads(w, cs, m) /\ f[m] = Shown(w, r)
    BY <1>9 DEF Reached
  <1> QED
    BY <1>5, <1>5b, <1>10

\* A span in front of a walk through the families of its children.
LEMMA Prepends ==
    ASSUME Viewer!IsTrace(trace), NEW order, Orders(order, Viewer!Spans),
           NEW i \in Tree, NEW cs, InOrder(cs, Kids(i), order),
           NEW w, Walks(w, Family(i) \ {i}, order), Leads(w, cs, Len(cs))
    PROVE  Walks(<<i>> \o w, Family(i), order)
  <1> DEFINE u == <<i>> \o w
             n == Len(w)
             F == Family(i) \ {i}
  <1>1. /\ Family(i) \subseteq Tree /\ i \in Family(i) /\ Tree \subseteq Viewer!Spans
        /\ Parent(i) \notin Family(i)
        /\ \A j \in F : i \in Anc(j)
    BY FamilyFacts, TreeFacts DEF Family
  <1>2. w \in Seq(F) /\ <<i>> \in Seq({i}) /\ Len(<<i>>) = 1 /\ <<i>>[1] = i
    BY DEF Walks, Lists
  <1>3. /\ u \in Seq(Family(i)) /\ Len(u) = 1 + n /\ n \in Nat /\ u[1] = i
        /\ \A k \in 1..n : u[1 + k] = w[k] /\ w[k] \in F
        /\ \A k \in 1..Len(u) : k = 1 \/ \E l \in 1..n : k = 1 + l /\ u[k] = w[l]
    <2>1. Joined(u, <<i>>, w, {i}, F)
      BY <1>2, JoinFacts
    <2>2. {i} \cup F = Family(i)
      BY <1>1
    <2>3. 1 \in 1..Len(<<i>>) /\ \A k \in 1..Len(<<i>>) : k = 1
      BY <1>2
    <2> HIDE DEF u, F
    <2> QED
      BY <1>2, <2>1, <2>2, <2>3 DEF Joined
  <1>4. \A k \in 1..n : 1 + k \in 1..Len(u)
    BY <1>3
  <1>4a. 1 \in 1..Len(u)
    BY <1>3
  <1> HIDE DEF u, n
  <1>5. Lists(u, Family(i))
    <2>1. ASSUME NEW j \in Family(i)
          PROVE  \E k \in 1..Len(u) : u[k] = j
      <3>1. CASE j = i
        BY <1>3, <1>4a, <3>1
      <3>2. CASE j \in F
        <4>1. PICK k \in 1..n : w[k] = j
          BY <3>2 DEF Walks, Lists, n
        <4> QED
          BY <1>3, <1>4, <4>1
      <3> QED
        BY <3>1, <3>2
    <2>2. ASSUME NEW k \in 1..Len(u), NEW l \in 1..Len(u), u[k] = u[l]
          PROVE  k = l
      <3>1. ASSUME NEW a \in 1..n, k = 1 + a, u[k] = w[a], NEW b \in 1..n, l = 1 + b, u[l] = w[b]
            PROVE  k = l
        <4>1. w[a] = w[b]
          BY <2>2, <3>1
        <4>2. a = b
          BY <4>1 DEF Walks, Lists, n
        <4> QED
          BY <3>1, <4>2
      <3> QED
        BY <1>3, <2>2, <3>1
    <2> QED
      BY <1>3, <2>1, <2>2 DEF Lists
  <1>6. Nests(u, Family(i))
    <2> SUFFICES ASSUME NEW k \in 1..Len(u), Parent(u[k]) \in Family(i)
                 PROVE  \E l \in 1..Len(u) : /\ l < k /\ u[l] = Parent(u[k])
                             /\ \A j \in (l + 1)..k : Parent(u[k]) \in Anc(u[j])
      BY DEF Nests
    <2>1. PICK a \in 1..n : k = 1 + a /\ u[k] = w[a]
      BY <1>1, <1>3
    <2>2. CASE Parent(w[a]) = i
      <3>1. 1 \in 1..Len(u) /\ 1 < k /\ u[1] = Parent(u[k])
        BY <1>3, <1>4a, <2>1, <2>2
      <3>2. ASSUME NEW j \in (1 + 1)..k PROVE i \in Anc(u[j])
        <4>1. j - 1 \in 1..n /\ j = 1 + (j - 1)
          BY <1>3, <2>1
        <4>2. u[j] \in F
          BY <1>3, <4>1
        <4> QED
          BY <1>1, <4>2
      <3> QED
        BY <2>1, <2>2, <3>1, <3>2
    <2>3. CASE Parent(w[a]) # i
      <3>1. Parent(w[a]) \in F
        BY <2>1, <2>3
      <3>2. PICK b \in 1..n : /\ b < a /\ w[b] = Parent(w[a])
                              /\ \A j \in (b + 1)..a : Parent(w[a]) \in Anc(w[j])
        BY <3>1 DEF Walks, Nests, n
      <3>3. 1 + b \in 1..Len(u) /\ 1 + b < k /\ u[1 + b] = Parent(u[k])
        BY <1>3, <1>4, <2>1, <3>2
      <3>4. ASSUME NEW j \in (1 + b + 1)..k
            PROVE  Parent(u[k]) \in Anc(u[j])
        <4>1. j - 1 \in (b + 1)..a /\ j - 1 \in 1..n /\ j = 1 + (j - 1)
          BY <1>3, <2>1, <3>2
        <4>2. u[j] = w[j - 1]
          BY <1>3, <4>1
        <4> QED
          BY <2>1, <3>2, <4>1, <4>2
      <3> QED
        BY <3>3, <3>4
    <2> QED
      BY <2>2, <2>3
  <1>7. Sorts(u, Family(i), order)
    <2> SUFFICES ASSUME NEW k \in 1..Len(u), NEW l \in 1..Len(u),
                        Parent(u[k]) = Parent(u[l]), Parent(u[k]) \in Family(i),
                        <<u[k], u[l]>> \in order
                 PROVE  k < l
      BY DEF Sorts
    <2>1. PICK a \in 1..n : k = 1 + a /\ u[k] = w[a]
      BY <1>1, <1>3
    <2>2. PICK b \in 1..n : l = 1 + b /\ u[l] = w[b]
      BY <1>1, <1>3
    <2>3. a < b
      <3>1. CASE Parent(w[a]) = i
        <4>1. w[a] \in Kids(i) /\ w[b] \in Kids(i)
          BY <1>1, <1>3, <2>1, <2>2, <3>1 DEF Kids
        <4>2. PICK c, d \in 1..Len(cs) : cs[c] = w[a] /\ cs[d] = w[b]
          BY <4>1 DEF InOrder
        <4>3. Len(cs) \in Nat
          BY DEF InOrder
        <4>4. <<w[a], w[b]>> \in order /\ w[a] \in Viewer!Spans /\ w[b] \in Viewer!Spans
          BY <2>1, <2>2, <4>1 DEF Kids
        <4>5. <<w[b], w[a]>> \notin order
          BY <4>4 DEF Orders
        <4>6. ~ (d < c)
          BY <4>2, <4>5 DEF InOrder
        <4>7. c # d
          BY <4>2, <4>4, <4>5
        <4>8. c < d
          BY <4>2, <4>3, <4>6, <4>7
        <4> QED
          BY <4>2, <4>8 DEF Leads, n
      <3>2. CASE Parent(w[a]) # i
        <4>1. Parent(w[a]) = Parent(w[b]) /\ Parent(w[a]) \in F /\ <<w[a], w[b]>> \in order
          BY <2>1, <2>2, <3>2
        <4> QED
          BY <4>1 DEF Walks, Sorts, n
      <3> QED
        BY <3>1, <3>2
    <2> QED
      BY <2>1, <2>2, <2>3
  <1> QED
    BY <1>5, <1>6, <1>7 DEF Walks, u

\* s shows a walk through F.
Draws(s, F, r, order) == \E w : Walks(w, F, order) /\ s = Shown(w, r)

\* The children of i, drawn by g, one after the other.
Inside(g, kids, i) == Viewer!FlattenSeq([k \in 1..Len(kids[i]) |-> g[kids[i][k]]])

\* f draws a span, with as many steps as are left below it, as r does, and then
\* the children one after the other.
Descends(f, kids, r) ==
    \A n \in Nat : \A i \in Tree : n + 1 + Cardinality(Anc(i)) = L =>
        f[n + 1][i] = <<r[i]>> \o Inside(f[n], kids, i)

\* That makes a walk through all that is below the span.
LEMMA Descent ==
    ASSUME Viewer!IsTrace(trace), NEW order, Orders(order, Viewer!Spans),
           NEW Y, NEW r, r \in [Viewer!Spans -> Y],
           NEW kids, \A i \in Viewer!Spans : InOrder(kids[i], Kids(i), order),
           NEW f, f \in [Nat -> [Viewer!Spans -> Seq(Y)]], Descends(f, kids, r)
    PROVE  \A n \in Nat : \A i \in Tree :
               n + Cardinality(Anc(i)) = L => Draws(f[n][i], Family(i), r, order)
  <1> DEFINE T == {n \in Nat : \A i \in Tree :
                       n + Cardinality(Anc(i)) = L => Draws(f[n][i], Family(i), r, order)}
  <1>1. 0 \in T
    <2>1. \A i \in Tree : 0 + Cardinality(Anc(i)) # L
      BY TreeFacts
    <2> QED
      BY <2>1
  <1>2. ASSUME NEW n \in Nat, n \in T PROVE n + 1 \in T
    <2> SUFFICES ASSUME NEW i \in Tree, n + 1 + Cardinality(Anc(i)) = L
                 PROVE  Draws(f[n + 1][i], Family(i), r, order)
      OBVIOUS
    <2> DEFINE cs == kids[i]
               parts == [k \in 1..Len(cs) |-> f[n][cs[k]]]
    <2>1. i \in Viewer!Spans /\ Tree \subseteq Viewer!Spans /\ Cardinality(Anc(i)) \in Nat
      BY TreeFacts
    <2>2. InOrder(cs, Kids(i), order)
      BY <2>1
    <2>3. \A c \in Kids(i) : c \in Tree /\ Parent(c) = i /\ n + Cardinality(Anc(c)) = L
      <3> TAKE c \in Kids(i)
      <3>1. c \in Viewer!Spans /\ Parent(c) = i /\ i # 0
        BY <2>1, TraceFacts DEF Kids
      <3>2. i \in Anc(c)
        BY <3>1, AncestorsFacts
      <3>3. c \in Tree
        BY <3>1, <3>2, TreeFacts
      <3>4. Cardinality(Anc(c)) = Cardinality(Anc(i)) + 1
        BY <3>1, <3>3, TreeFacts
      <3> QED
        BY <2>1, <3>1, <3>3, <3>4
    <2>4. cs \in Seq(Kids(i)) /\ \A a, b \in 1..Len(cs) : cs[a] = cs[b] => a = b
      BY <2>2, InOrderOnce
    <2>5. \A a \in 1..Len(cs) : cs[a] \in Kids(i)
      BY <2>4
    <2>6. \A a \in 1..Len(cs) : \E w : Walks(w, Family(cs[a]), order) /\ parts[a] = Shown(w, r)
      <3> TAKE a \in 1..Len(cs)
      <3>1. cs[a] \in Tree /\ n + Cardinality(Anc(cs[a])) = L
        BY <2>3, <2>5
      <3>2. Draws(f[n][cs[a]], Family(cs[a]), r, order)
        BY <1>2, <3>1
      <3> QED
        BY <3>2 DEF Draws
    <2>7. parts \in Seq(Seq(Y)) /\ Len(parts) = Len(cs)
      <3>1. Len(cs) \in Nat
        BY <2>4
      <3>2. \A a \in 1..Len(cs) : f[n][cs[a]] \in Seq(Y)
        <4>1. \A a \in 1..Len(cs) : cs[a] \in Viewer!Spans
          BY <2>5 DEF Kids
        <4>2. f[n] \in [Viewer!Spans -> Seq(Y)]
          OBVIOUS
        <4> QED
          BY <4>1, <4>2
      <3>3. parts \in [1..Len(cs) -> Seq(Y)]
        BY <3>2
      <3> HIDE DEF parts, cs
      <3> QED
        BY <3>1, <3>3, Sequences
    <2>8. f[n + 1][i] = <<r[i]>> \o Viewer!FlattenSeq(parts)
      BY DEF Descends, Inside
    <2> HIDE DEF parts, cs, T
    <2>9. Grove(cs, i, parts, Y, r, order)
      <3>1. cs \in Seq(Tree)
        <4>1. Kids(i) \subseteq Tree
          BY <2>3
        <4> QED
          BY <2>4, <4>1
      <3>2. \A a \in 1..Len(cs) : Parent(cs[a]) = i
        BY <2>3, <2>5
      <3> QED
        BY <2>4, <2>6, <2>7, <3>1, <3>2 DEF Grove
    <2>10. PICK w : /\ Walks(w, Families(cs, Len(cs)), order) /\ Leads(w, cs, Len(cs))
                    /\ Viewer!FlattenSeq(parts) = Shown(w, r)
      BY <2>9, Forest
    <2>11. Families(cs, Len(cs)) = Family(i) \ {i}
      <3>1. \A c \in Kids(i) : \E a \in 1..Len(cs) : cs[a] = c
        BY <2>2 DEF InOrder
      <3>2. Families(cs, Len(cs)) = UNION {Family(c) : c \in Kids(i)}
        BY <2>5, <3>1 DEF Families
      <3>3. Family(i) \subseteq Viewer!Spans /\ \A c \in Kids(i) : Family(c) \subseteq Viewer!Spans
        BY <2>1, <2>3, FamilyFacts
      <3>4. \A c \in Kids(i) : i \notin Family(c)
        BY <2>3, FamilyFacts
      <3>5. \A c \in Tree : Parent(c) = i => c \in Kids(i)
        BY <2>1 DEF Kids
      <3>6. \A j \in Viewer!Spans : j \in Family(i) <=> j = i \/ \E c \in Tree : Parent(c) = i /\ j \in Family(c)
        BY FamilyFacts
      <3>7. \A j \in Viewer!Spans : j \in Family(i) \ {i} <=> \E c \in Kids(i) : j \in Family(c)
        BY <2>3, <3>4, <3>5, <3>6
      <3> QED
        BY <3>2, <3>3, <3>7
    <2>12. Walks(w, Family(i) \ {i}, order)
      BY <2>10, <2>11
    <2>13. Walks(<<i>> \o w, Family(i), order)
      BY <2>2, <2>10, <2>12, Prepends
    <2>14. Shown(<<i>> \o w, r) = <<r[i]>> \o Shown(w, r)
      <3>1. w \in Seq(Viewer!Spans)
        <4>1. w \in Seq(Family(i) \ {i}) /\ Family(i) \ {i} \subseteq Viewer!Spans
          BY <2>1, <2>12, FamilyFacts DEF Walks, Lists
        <4> QED
          BY <4>1
      <3>2. <<i>> \in Seq(Viewer!Spans)
        BY <2>1
      <3>3. Splits(<<i>>, w, r)
        BY <3>1, <3>2, ShownJoins
      <3>4. Shown(<<i>>, r) = <<r[i]>>
        BY DEF Shown
      <3> QED
        BY <3>3, <3>4 DEF Splits
    <2>15. f[n + 1][i] = Shown(<<i>> \o w, r)
      BY <2>8, <2>10, <2>14
    <2> QED
      BY <2>13, <2>15 DEF Draws
  <1> HIDE DEF T
  <1>3. \A n \in Nat : n \in T
    BY <1>1, <1>2, Numbers
  <1> QED
    BY <1>3 DEF T

-----------------------------------------------------------------------------
(* The timeline and the tree.                                              *)

\* What both draw for a span when there are n levels left.
Below(f, kids, n, i) == IF n = 0 THEN <<>> ELSE Inside(f[n - 1], kids, i)
Layout(f, label, kids) ==
    [n \in Nat |-> [i \in Viewer!Spans |-> <<label[n][i]>> \o Below(f, kids, n, i)]]

LaidOut(f, label, kids, Y) ==
    f = Layout(f, label, kids) /\ f \in [Nat -> [Viewer!Spans -> Seq(Y)]]

\* There is such a layout.
LEMMA LayoutExists ==
    ASSUME NEW Y, NEW label, label \in [Nat -> [Viewer!Spans -> Y]],
           NEW kids, kids \in [Viewer!Spans -> Seq(Viewer!Spans)]
    PROVE  \E f : LaidOut(f, label, kids, Y)
  <1> DEFINE V == [Viewer!Spans -> Seq(Y)]
             parts(g, i) == [k \in 1..Len(kids[i]) |-> g[kids[i][k]]]
             next(n, g) == [i \in Viewer!Spans |-> <<label[n + 1][i]>> \o Viewer!FlattenSeq(parts(g, i))]
             step == [x \in Nat \X V |-> next(x[1], x[2])]
             v == [i \in Viewer!Spans |-> <<label[0][i]>> \o <<>>]
  <1>1. ASSUME NEW g \in V, NEW i \in Viewer!Spans
        PROVE  Viewer!FlattenSeq(parts(g, i)) \in Seq(Y)
    <2>1. kids[i] \in Seq(Viewer!Spans) /\ Len(kids[i]) \in Nat
      OBVIOUS
    <2>2. \A k \in 1..Len(kids[i]) : g[kids[i][k]] \in Seq(Y)
      BY <2>1
    <2>3. parts(g, i) \in [1..Len(kids[i]) -> Seq(Y)]
      BY <2>2
    <2> HIDE DEF parts
    <2>4. parts(g, i) \in Seq(Seq(Y))
      BY <2>1, <2>3, Sequences
    <2>5. PICK f : Joins(f, parts(g, i), Y) /\ Viewer!FlattenSeq(parts(g, i)) = f[Len(parts(g, i))]
      BY <2>4, FlattenFacts
    <2>6. Len(parts(g, i)) \in Nat /\ f \in [Nat -> Seq(Y)]
      BY <2>4, <2>5 DEF Joins
    <2> QED
      BY <2>5, <2>6
  <1>2. \A n \in Nat, i \in Viewer!Spans : label[n][i] \in Y
    OBVIOUS
  <1>3. \A n \in Nat, g \in V : next(n, g) \in V
    <2> TAKE n \in Nat, g \in V
    <2>1. ASSUME NEW i \in Viewer!Spans
          PROVE  <<label[n + 1][i]>> \o Viewer!FlattenSeq(parts(g, i)) \in Seq(Y)
      <3>1. <<label[n + 1][i]>> \in Seq(Y)
        BY <1>2
      <3>2. Viewer!FlattenSeq(parts(g, i)) \in Seq(Y)
        BY <1>1
      <3> HIDE DEF parts
      <3> QED
        BY <3>1, <3>2
    <2> HIDE DEF parts
    <2> QED
      BY <2>1
  <1>4. v \in V
    <2>1. \A i \in Viewer!Spans : <<label[0][i]>> \in Seq(Y) /\ <<label[0][i]>> \o <<>> \in Seq(Y)
      BY <1>2
    <2> QED
      BY <2>1
  <1> HIDE DEF next, v, V
  <1>5. step \in [Nat \X V -> V]
    BY <1>3
  <1>6. \A n \in Nat, g \in V : step[<<n, g>>] = next(n, g)
    OBVIOUS
  <1> HIDE DEF step
  <1>7. PICK f : Goes(f, V, v, step)
    BY <1>4, <1>5, Iterates
  <1>8. f \in [Nat -> V] /\ f[0] = v /\ \A n \in Nat : f[n + 1] = next(n, f[n])
    BY <1>6, <1>7 DEF Goes
  <1>9. ASSUME NEW n \in Nat PROVE f[n] = Layout(f, label, kids)[n]
    <2>1. CASE n = 0
      BY <1>8, <2>1 DEF Layout, Below, v
    <2>2. CASE n # 0
      <3>1. n - 1 \in Nat /\ n - 1 + 1 = n
        BY <2>2
      <3>2. f[n] = next(n - 1, f[n - 1])
        BY <1>8, <3>1
      <3>3. f[n] = [i \in Viewer!Spans |-> <<label[n][i]>> \o Viewer!FlattenSeq(parts(f[n - 1], i))]
        BY <3>1, <3>2 DEF next
      <3> QED
        BY <2>2, <3>3 DEF Layout, Below, Inside
    <2> QED
      BY <2>1, <2>2
  <1>10. f = Layout(f, label, kids)
    BY <1>8, <1>9 DEF Layout
  <1> QED
    BY <1>8, <1>10 DEF V, LaidOut

\* f is drawn with these labels.
Unfolds(f, label, kids, Y) ==
    /\ f \in [Nat -> [Viewer!Spans -> Seq(Y)]]
    /\ \A n \in Nat : \A i \in Viewer!Spans :
          f[n + 1][i] = <<label[n + 1][i]>> \o Inside(f[n], kids, i)

\* Whatever makes a layout is one of these.
LEMMA LayoutFacts ==
    ASSUME NEW Y, NEW label, label \in [Nat -> [Viewer!Spans -> Y]],
           NEW kids, kids \in [Viewer!Spans -> Seq(Viewer!Spans)],
           NEW f, f = Layout(f, label, kids)
    PROVE  Unfolds(f, label, kids, Y)
  <1>0. PICK g : LaidOut(g, label, kids, Y)
    BY LayoutExists
  <1>1. g = Layout(g, label, kids) /\ g \in [Nat -> [Viewer!Spans -> Seq(Y)]]
    BY <1>0 DEF LaidOut
  <1> DEFINE T == {n \in Nat : f[n] = g[n]}
  <1>2. \A n \in Nat : /\ f[n] = [i \in Viewer!Spans |-> <<label[n][i]>> \o Below(f, kids, n, i)]
                       /\ g[n] = [i \in Viewer!Spans |-> <<label[n][i]>> \o Below(g, kids, n, i)]
    <2> TAKE n \in Nat
    <2>1. f[n] = Layout(f, label, kids)[n] /\ g[n] = Layout(g, label, kids)[n]
      BY <1>1
    <2> QED
      BY <2>1 DEF Layout
  <1>3. 0 \in T
    <2>1. \A i \in Viewer!Spans : Below(f, kids, 0, i) = Below(g, kids, 0, i)
      BY DEF Below
    <2> QED
      BY <1>2, <2>1
  <1>4. ASSUME NEW n \in Nat, n \in T PROVE n + 1 \in T
    <2>1. n + 1 \in Nat /\ n + 1 - 1 = n /\ n + 1 # 0
      OBVIOUS
    <2>2. f[n] = g[n]
      BY <1>4
    <2>3. \A i \in Viewer!Spans : Below(f, kids, n + 1, i) = Below(g, kids, n + 1, i)
      BY <2>1, <2>2 DEF Below
    <2>4. f[n + 1] = g[n + 1]
      BY <1>2, <2>1, <2>3
    <2> QED
      BY <2>1, <2>4
  <1> HIDE DEF T
  <1>5. \A n \in Nat : n \in T
    BY <1>3, <1>4, Numbers
  <1>6. \A n \in Nat : f[n] = g[n]
    BY <1>5 DEF T
  <1>7. f \in [Nat -> [Viewer!Spans -> Seq(Y)]]
    <2>1. f = [n \in Nat |-> f[n]]
      <3>1. DOMAIN Layout(f, label, kids) = Nat /\ Layout(f, label, kids) = [n \in Nat |-> Layout(f, label, kids)[n]]
        BY DEF Layout
      <3> QED
        BY <3>1, Zenon
    <2>2. \A n \in Nat : f[n] \in [Viewer!Spans -> Seq(Y)]
      BY <1>1, <1>6
    <2> QED
      BY <2>1, <2>2
  <1>8. ASSUME NEW n \in Nat, NEW i \in Viewer!Spans
        PROVE  f[n + 1][i] = <<label[n + 1][i]>> \o Inside(f[n], kids, i)
    <2>1. n + 1 \in Nat /\ n + 1 - 1 = n /\ n + 1 # 0
      OBVIOUS
    <2>2. f[n + 1][i] = <<label[n + 1][i]>> \o Below(f, kids, n + 1, i)
      BY <1>2, <2>1
    <2> QED
      BY <2>1, <2>2 DEF Below
  <1> QED
    BY <1>7, <1>8 DEF Unfolds

\* Every span of the tree is below a root.
LEMMA RootsLead ==
    ASSUME Viewer!IsTrace(trace)
    PROVE  /\ Kids(0) \subseteq Tree
           /\ UNION {Family(c) : c \in Kids(0)} = Tree
  <1>1. Kids(0) \subseteq Tree
    BY TreeFacts DEF Kids
  <1>2. UNION {Family(c) : c \in Kids(0)} \subseteq Tree
    BY <1>1, FamilyFacts
  <1> DEFINE T == {d \in Nat : \A i \in Tree : Cardinality(Anc(i)) = d => \E c \in Kids(0) : i \in Family(c)}
  <1>3. 0 \in T
    <2>1. ASSUME NEW i \in Tree, Cardinality(Anc(i)) = 0
          PROVE  \E c \in Kids(0) : i \in Family(c)
      <3>1. i \in Viewer!Spans
        BY TreeFacts
      <3>2. Anc(i) = {}
        BY <2>1, <3>1, AncestorsFacts, FS_EmptySet
      <3>3. Parent(i) = 0
        BY <3>1, <3>2, AncestorsFacts
      <3> QED
        BY <3>1, <3>3 DEF Kids, Family
    <2> QED
      BY <2>1
  <1>4. ASSUME NEW d \in Nat, d \in T PROVE d + 1 \in T
    <2>1. ASSUME NEW i \in Tree, Cardinality(Anc(i)) = d + 1
          PROVE  \E c \in Kids(0) : i \in Family(c)
      <3>1. i \in Viewer!Spans
        BY TreeFacts
      <3>2. Parent(i) # 0
        <4>1. ASSUME Parent(i) = 0 PROVE FALSE
          <5>1. Cardinality(Anc(i)) = 0
            BY <3>1, <4>1, AncestorsFacts, FS_EmptySet
          <5> QED
            BY <2>1, <5>1
        <4> QED
          BY <4>1
      <3>3. Parent(i) \in Tree /\ Parent(i) \in Viewer!Spans /\ Cardinality(Anc(Parent(i))) \in Nat
        BY <3>2, TreeFacts
      <3>4. Cardinality(Anc(Parent(i))) = d
        <4>1. Cardinality(Anc(i)) = Cardinality(Anc(Parent(i))) + 1
          BY <3>2, TreeFacts
        <4> QED
          BY <2>1, <3>3, <4>1
      <3>5. PICK c \in Kids(0) : Parent(i) \in Family(c)
        BY <1>4, <3>3, <3>4
      <3>6. c \in Viewer!Spans /\ c \in {Parent(i)} \cup Anc(Parent(i))
        BY <3>3, <3>5, FamilyFacts DEF Kids
      <3>7. c \in Anc(i)
        BY <3>1, <3>2, <3>6, AncestorsFacts
      <3>8. i \in Family(c)
        BY <3>1, <3>6, <3>7, FamilyFacts
      <3> QED
        BY <3>8
    <2> QED
      BY <2>1
  <1> HIDE DEF T
  <1>5. \A d \in Nat : d \in T
    BY <1>3, <1>4, Numbers
  <1>6. ASSUME NEW i \in Tree PROVE \E c \in Kids(0) : i \in Family(c)
    <2>1. Cardinality(Anc(i)) \in T
      BY <1>5, TreeFacts
    <2> QED
      BY <2>1 DEF T
  <1> QED
    BY <1>1, <1>2, <1>6

\* From the roots all of the tree is drawn.
LEMMA Overall ==
    ASSUME Viewer!IsTrace(trace), NEW order, Orders(order, Viewer!Spans),
           NEW Y, NEW r, r \in [Viewer!Spans -> Y],
           NEW kids, \A i \in Viewer!Spans : InOrder(kids[i], Kids(i), order),
           NEW f, f \in [Nat -> [Viewer!Spans -> Seq(Y)]], Descends(f, kids, r)
    PROVE  Draws(Viewer!FlattenSeq([k \in 1..Len(Viewer!Roots) |-> f[L][Viewer!Roots[k]]]), Tree, r, order)
  <1> DEFINE cs == Viewer!Roots
             parts == [k \in 1..Len(cs) |-> f[L][cs[k]]]
  <1>1. InOrder(cs, Kids(0), Viewer!Listed)
    BY ChildrenFacts
  <1>2. /\ cs \in Seq(Kids(0)) /\ Len(cs) \in Nat
        /\ \A a, b \in 1..Len(cs) : cs[a] = cs[b] => a = b
    BY <1>1, InOrderOnce
  <1>3. \A a \in 1..Len(cs) : cs[a] \in Kids(0)
    BY <1>2
  <1>4. L \in Nat
    BY TraceFacts
  <1>5. \A c \in Kids(0) : /\ c \in Viewer!Spans /\ c \in Tree /\ Parent(c) = 0
                           /\ L + Cardinality(Anc(c)) = L
    <2> TAKE c \in Kids(0)
    <2>1. c \in Viewer!Spans /\ Parent(c) = 0
      BY DEF Kids
    <2>2. c \in Tree /\ Anc(c) = {}
      BY <2>1, TreeFacts
    <2>3. Cardinality(Anc(c)) = 0
      BY <2>2, FS_EmptySet
    <2> QED
      BY <1>4, <2>1, <2>2, <2>3
  <1>6. \A a \in 1..Len(cs) : \E w : Walks(w, Family(cs[a]), order) /\ parts[a] = Shown(w, r)
    <2> TAKE a \in 1..Len(cs)
    <2>1. cs[a] \in Tree /\ L + Cardinality(Anc(cs[a])) = L
      BY <1>3, <1>5
    <2>2. Draws(f[L][cs[a]], Family(cs[a]), r, order)
      BY <1>4, <2>1, Descent
    <2> QED
      BY <2>2 DEF Draws
  <1>7. parts \in Seq(Seq(Y)) /\ Len(parts) = Len(cs)
    <2>1. \A a \in 1..Len(cs) : f[L][cs[a]] \in Seq(Y)
      <3>1. \A a \in 1..Len(cs) : cs[a] \in Viewer!Spans
        BY <1>3, <1>5
      <3>2. f[L] \in [Viewer!Spans -> Seq(Y)]
        BY <1>4
      <3> HIDE DEF cs
      <3> QED
        BY <3>1, <3>2
    <2>2. parts \in [1..Len(cs) -> Seq(Y)]
      BY <2>1
    <2> HIDE DEF parts, cs
    <2> QED
      BY <1>2, <2>2, Sequences
  <1> HIDE DEF parts, cs
  <1>8. Grove(cs, 0, parts, Y, r, order)
    <2>1. cs \in Seq(Tree)
      <3>1. Kids(0) \subseteq Tree
        BY <1>5
      <3> QED
        BY <1>2, <3>1
    <2>2. \A a \in 1..Len(cs) : Parent(cs[a]) = 0
      BY <1>3, <1>5
    <2> QED
      BY <1>2, <1>6, <1>7, <2>1, <2>2 DEF Grove
  <1>9. PICK w : /\ Walks(w, Families(cs, Len(cs)), order)
                 /\ Viewer!FlattenSeq(parts) = Shown(w, r)
    BY <1>8, Forest
  <1>10. Families(cs, Len(cs)) = Tree
    <2>1. \A c \in Kids(0) : \E a \in 1..Len(cs) : cs[a] = c
      BY <1>1 DEF InOrder
    <2>2. Families(cs, Len(cs)) = UNION {Family(c) : c \in Kids(0)}
      BY <1>3, <2>1 DEF Families
    <2> QED
      BY <2>2, RootsLead
  <1>11. Draws(Viewer!FlattenSeq(parts), Tree, r, order)
    BY <1>9, <1>10 DEF Draws
  <1> QED
    BY <1>11 DEF parts, cs

\* The rows of the timeline.
RowOf == [i \in Viewer!Spans |-> [span |-> i, depth |-> Cardinality(Anc(i))]]
ByDepth == [n \in Nat |-> [i \in Viewer!Spans |-> [span |-> i, depth |-> L - n]]]
Started == [i \in Viewer!Spans |-> Viewer!ByStart(Viewer!Children(i))]
TraverseOf(f) ==
    [n \in Nat |->
        [i \in Viewer!Spans |->
            <<[span |-> i, depth |-> Len(trace.spans) - n]>> \o
               (IF n = 0 THEN <<>> ELSE
                    Viewer!FlattenSeq([k \in DOMAIN Viewer!ByStart(Viewer!Children(i)) |->
                                          f[n - 1][Viewer!ByStart(Viewer!Children(i))[k]]]))]]

\* The timeline walks through the tree.
LEMMA TimelineWalk ==
    ASSUME Viewer!IsTrace(trace)
    PROVE  Draws(Viewer!Walk(Viewer!Roots), Tree, RowOf, Viewer!Earlier)
  <1> DEFINE Y == [span : Viewer!Spans, depth : Int]
  <1>0. L \in Nat /\ L = Len(trace.spans)
    BY TraceFacts DEF L
  <1>1. Orders(Viewer!Earlier, Viewer!Spans) /\ Orders(Viewer!Listed, Viewer!Spans)
    BY OrdersHold
  <1>2. RowOf \in [Viewer!Spans -> Y]
    <2>1. \A i \in Viewer!Spans : Cardinality(Anc(i)) \in Int
      BY AncestorsFacts
    <2> QED
      BY <2>1 DEF RowOf
  <1>3. ByDepth \in [Nat -> [Viewer!Spans -> Y]]
    BY <1>0 DEF ByDepth
  <1>4. \A i \in Viewer!Spans : InOrder(Started[i], Kids(i), Viewer!Earlier)
    BY ChildrenFacts DEF Started
  <1>5. Started \in [Viewer!Spans -> Seq(Viewer!Spans)]
    <2>1. ASSUME NEW i \in Viewer!Spans PROVE Started[i] \in Seq(Viewer!Spans)
      <3>1. Started[i] \in Seq(Kids(i)) /\ Kids(i) \subseteq Viewer!Spans
        BY <1>4, InOrderOnce DEF Kids
      <3> QED
        BY <3>1
    <2>2. Started = [i \in Viewer!Spans |-> Started[i]]
      BY DEF Started
    <2> QED
      BY <2>1, <2>2
  <1>6. ASSUME NEW f PROVE Layout(f, ByDepth, Started) = TraverseOf(f)
    <2>1. ASSUME NEW n \in Nat, NEW i \in Viewer!Spans
          PROVE  <<ByDepth[n][i]>> \o Below(f, Started, n, i) =
                   <<[span |-> i, depth |-> Len(trace.spans) - n]>> \o
                   (IF n = 0 THEN <<>> ELSE
                    Viewer!FlattenSeq([k \in DOMAIN Viewer!ByStart(Viewer!Children(i)) |->
                                          f[n - 1][Viewer!ByStart(Viewer!Children(i))[k]]]))
      <3>1. ByDepth[n][i] = [span |-> i, depth |-> Len(trace.spans) - n]
        BY <1>0 DEF ByDepth
      <3>2. Started[i] = Viewer!ByStart(Viewer!Children(i)) /\ Started[i] \in Seq(Viewer!Spans)
        BY <1>5 DEF Started
      <3>3. DOMAIN Viewer!ByStart(Viewer!Children(i)) = 1..Len(Started[i])
        BY <3>2
      <3>4. Inside(f[n - 1], Started, i) =
               Viewer!FlattenSeq([k \in DOMAIN Viewer!ByStart(Viewer!Children(i)) |->
                                          f[n - 1][Viewer!ByStart(Viewer!Children(i))[k]]])
        BY <3>2, <3>3, Zenon DEF Inside
      <3> QED
        BY <3>1, <3>4, Zenon DEF Below
    <2> QED
      BY <2>1 DEF Layout, TraverseOf
  <1> HIDE DEF Y
  <1>7. Viewer!Traverse = TraverseOf(Viewer!Traverse)
    <2>0. PICK f : LaidOut(f, ByDepth, Started, Y)
      BY <1>3, <1>5, LayoutExists
    <2>1. f = Layout(f, ByDepth, Started)
      BY <2>0 DEF LaidOut
    <2>2. f = TraverseOf(f)
      BY <1>6, <2>1
    <2>3. Viewer!Traverse = CHOOSE g : g = TraverseOf(g)
      BY DEF Viewer!Traverse, TraverseOf
    <2> QED
      BY <2>2, <2>3
  <1> DEFINE f == Viewer!Traverse
  <1>8. f = Layout(f, ByDepth, Started)
    BY <1>6, <1>7
  <1> HIDE DEF f
  <1>9. /\ f \in [Nat -> [Viewer!Spans -> Seq(Y)]]
        /\ \A n \in Nat : \A i \in Viewer!Spans :
              f[n + 1][i] = <<ByDepth[n + 1][i]>> \o Inside(f[n], Started, i)
    <2>1. Unfolds(f, ByDepth, Started, Y)
      BY <1>3, <1>5, <1>8, LayoutFacts
    <2> QED
      BY <2>1 DEF Unfolds
  <1>10. Descends(f, Started, RowOf)
    <2> SUFFICES ASSUME NEW n \in Nat, NEW i \in Tree, n + 1 + Cardinality(Anc(i)) = L
                 PROVE  f[n + 1][i] = <<RowOf[i]>> \o Inside(f[n], Started, i)
      BY DEF Descends
    <2>1. i \in Viewer!Spans /\ n + 1 \in Nat /\ Cardinality(Anc(i)) \in Nat
      BY TreeFacts
    <2>2. ByDepth[n + 1][i] = [span |-> i, depth |-> L - (n + 1)]
      BY <2>1 DEF ByDepth
    <2>3. L - (n + 1) = Cardinality(Anc(i))
      BY <1>0, <2>1
    <2>4. ByDepth[n + 1][i] = RowOf[i]
      BY <2>1, <2>2, <2>3 DEF RowOf
    <2> QED
      BY <1>9, <2>1, <2>4
  <1>11. Draws(Viewer!FlattenSeq([k \in 1..Len(Viewer!Roots) |-> f[L][Viewer!Roots[k]]]),
               Tree, RowOf, Viewer!Earlier)
    BY <1>1, <1>2, <1>4, <1>9, <1>10, Overall
  <1>12. DOMAIN Viewer!Roots = 1..Len(Viewer!Roots)
    BY ChildrenFacts DEF InOrder
  <1> QED
    BY <1>11, <1>12 DEF Viewer!Walk, f, L

\* The rows of the tree.
Itself == [i \in Viewer!Spans |-> i]
Named == [n \in Nat |-> Itself]
AsSent == [i \in Viewer!Spans |-> Viewer!Children(i)]
RenderOf(f) ==
    [n \in Nat |->
        [i \in Viewer!Spans |->
            <<i>> \o (IF n = 0 THEN <<>> ELSE
                         Viewer!FlattenSeq([k \in DOMAIN Viewer!Children(i) |->
                                               f[n - 1][Viewer!Children(i)[k]]]))]]

\* The tree view walks through the tree.
LEMMA TreeWalk ==
    ASSUME Viewer!IsTrace(trace)
    PROVE  Draws(Viewer!TreeRows, Tree, Itself, Viewer!Listed)
  <1>0. L \in Nat /\ L = Len(trace.spans)
    BY TraceFacts DEF L
  <1>1. Orders(Viewer!Listed, Viewer!Spans)
    BY OrdersHold
  <1>2. Itself \in [Viewer!Spans -> Viewer!Spans] /\ Named \in [Nat -> [Viewer!Spans -> Viewer!Spans]]
    BY DEF Itself, Named
  <1>4. \A i \in Viewer!Spans : InOrder(AsSent[i], Kids(i), Viewer!Listed)
    BY ChildrenFacts DEF AsSent
  <1>5. AsSent \in [Viewer!Spans -> Seq(Viewer!Spans)]
    <2>1. ASSUME NEW i \in Viewer!Spans PROVE AsSent[i] \in Seq(Viewer!Spans)
      <3>1. AsSent[i] \in Seq(Kids(i)) /\ Kids(i) \subseteq Viewer!Spans
        BY <1>4, InOrderOnce DEF Kids
      <3> QED
        BY <3>1
    <2>2. AsSent = [i \in Viewer!Spans |-> AsSent[i]]
      BY DEF AsSent
    <2> QED
      BY <2>1, <2>2
  <1>6. ASSUME NEW f PROVE Layout(f, Named, AsSent) = RenderOf(f)
    <2>1. ASSUME NEW n \in Nat, NEW i \in Viewer!Spans
          PROVE  <<Named[n][i]>> \o Below(f, AsSent, n, i) =
                   <<i>> \o (IF n = 0 THEN <<>> ELSE
                         Viewer!FlattenSeq([k \in DOMAIN Viewer!Children(i) |->
                                               f[n - 1][Viewer!Children(i)[k]]]))
      <3>1. Named[n][i] = i
        BY DEF Named, Itself
      <3>2. AsSent[i] = Viewer!Children(i) /\ AsSent[i] \in Seq(Viewer!Spans)
        BY <1>5 DEF AsSent
      <3>3. DOMAIN Viewer!Children(i) = 1..Len(AsSent[i])
        BY <3>2
      <3>4. Inside(f[n - 1], AsSent, i) =
               Viewer!FlattenSeq([k \in DOMAIN Viewer!Children(i) |-> f[n - 1][Viewer!Children(i)[k]]])
        BY <3>2, <3>3, Zenon DEF Inside
      <3> QED
        BY <3>1, <3>4, Zenon DEF Below
    <2> QED
      BY <2>1 DEF Layout, RenderOf
  <1>7. Viewer!RenderNode = RenderOf(Viewer!RenderNode)
    <2>0. PICK f : LaidOut(f, Named, AsSent, Viewer!Spans)
      BY <1>2, <1>5, LayoutExists
    <2>1. f = Layout(f, Named, AsSent)
      BY <2>0 DEF LaidOut
    <2>2. f = RenderOf(f)
      BY <1>6, <2>1
    <2>3. Viewer!RenderNode = CHOOSE g : g = RenderOf(g)
      BY DEF Viewer!RenderNode, RenderOf
    <2> QED
      BY <2>2, <2>3
  <1> DEFINE f == Viewer!RenderNode
  <1>8. f = Layout(f, Named, AsSent)
    BY <1>6, <1>7
  <1> HIDE DEF f
  <1>9. /\ f \in [Nat -> [Viewer!Spans -> Seq(Viewer!Spans)]]
        /\ \A n \in Nat : \A i \in Viewer!Spans :
              f[n + 1][i] = <<Named[n + 1][i]>> \o Inside(f[n], AsSent, i)
    <2>1. Unfolds(f, Named, AsSent, Viewer!Spans)
      BY <1>2, <1>5, <1>8, LayoutFacts
    <2> QED
      BY <2>1 DEF Unfolds
  <1>10. Descends(f, AsSent, Itself)
    <2> SUFFICES ASSUME NEW n \in Nat, NEW i \in Tree, n + 1 + Cardinality(Anc(i)) = L
                 PROVE  f[n + 1][i] = <<Itself[i]>> \o Inside(f[n], AsSent, i)
      BY DEF Descends
    <2>1. i \in Viewer!Spans /\ n + 1 \in Nat
      BY TreeFacts
    <2>2. Named[n + 1][i] = Itself[i]
      BY <2>1 DEF Named
    <2> QED
      BY <1>9, <2>1, <2>2
  <1>11. Draws(Viewer!FlattenSeq([k \in 1..Len(Viewer!Roots) |-> f[L][Viewer!Roots[k]]]),
               Tree, Itself, Viewer!Listed)
    BY <1>1, <1>2, <1>4, <1>9, <1>10, Overall
  <1>12. DOMAIN Viewer!Roots = 1..Len(Viewer!Roots)
    BY ChildrenFacts DEF InOrder
  <1> QED
    BY <1>11, <1>12 DEF Viewer!TreeRows, f, L

-----------------------------------------------------------------------------
(* Every view has its rows.                                                *)

\* The rows are those of the walk w, then those of rest.
Timeline(rows, w, rest) ==
    /\ Len(w) \in Nat /\ Len(rest) \in Nat /\ DOMAIN rows = 1..(Len(w) + Len(rest))
    /\ \A k \in 1..Len(w) : /\ rows[k].span = w[k] /\ w[k] \in Tree
                            /\ rows[k].depth = Cardinality(Anc(w[k]))
    /\ \A k \in 1..Len(rest) : rows[Len(w) + k].span = rest[k] /\ rest[k] \in Viewer!Circular

\* The timeline has the tree, then what is circular.
LEMMA TimelineFacts ==
    ASSUME Viewer!IsTrace(trace)
    PROVE  \E w, rest : /\ Walks(w, Tree, Viewer!Earlier)
                        /\ InOrder(rest, Viewer!Circular, Viewer!Listed)
                        /\ Timeline(Viewer!OrderedSpans, w, rest)
  <1> DEFINE Y == [span : Viewer!Spans, depth : Int]
             walked == Viewer!Walk(Viewer!Roots)
             rest == Viewer!Arranged(Viewer!Spans \ {walked[k].span : k \in DOMAIN walked}, Viewer!Listed)
             behind == [k \in DOMAIN rest |-> [span |-> rest[k], depth |-> 0]]
  <1>1. PICK w : Walks(w, Tree, Viewer!Earlier) /\ walked = Shown(w, RowOf)
    BY TimelineWalk DEF Draws
  <1>2. /\ Tree \subseteq Viewer!Spans /\ Viewer!Circular \subseteq Viewer!Spans
        /\ Viewer!Spans \ Tree = Viewer!Circular
    BY DEF Tree, Viewer!Circular
  <1>3. /\ w \in Seq(Tree) /\ Len(w) \in Nat
        /\ \A j \in Tree : \E k \in 1..Len(w) : w[k] = j
    BY <1>1 DEF Walks, Lists
  <1>4. \A k \in 1..Len(w) : w[k] \in Tree
    BY <1>3
  <1>5. RowOf \in [Viewer!Spans -> Y]
    <2>1. \A i \in Viewer!Spans : Cardinality(Anc(i)) \in Int
      BY AncestorsFacts
    <2> QED
      BY <2>1 DEF RowOf
  <1>6. walked \in Seq(Y) /\ Len(walked) = Len(w) /\ \A k \in 1..Len(w) : walked[k] = RowOf[w[k]]
    <2>1. \A k \in 1..Len(w) : RowOf[w[k]] \in Y
      BY <1>2, <1>4, <1>5
    <2>2. Shown(w, RowOf) \in [1..Len(w) -> Y]
      BY <2>1 DEF Shown
    <2>3. \A k \in 1..Len(w) : Shown(w, RowOf)[k] = RowOf[w[k]]
      BY DEF Shown
    <2> HIDE DEF walked, Y
    <2> QED
      BY <1>1, <1>3, <2>2, <2>3, Sequences
  <1>7. \A k \in 1..Len(w) : walked[k].span = w[k] /\ walked[k].depth = Cardinality(Anc(w[k]))
    <2>1. \A k \in 1..Len(w) : RowOf[w[k]].span = w[k] /\ RowOf[w[k]].depth = Cardinality(Anc(w[k]))
      BY <1>2, <1>4 DEF RowOf
    <2>2. \A k \in 1..Len(w) : walked[k] = RowOf[w[k]]
      BY <1>6
    <2> HIDE DEF walked
    <2> QED
      BY <2>1, <2>2
  <1>8. {walked[k].span : k \in DOMAIN walked} = Tree
    <2>1. DOMAIN walked = 1..Len(w)
      BY <1>6
    <2>2. \A k \in DOMAIN walked : walked[k].span \in Tree
      BY <1>4, <1>7, <2>1
    <2>3. \A j \in Tree : \E k \in DOMAIN walked : walked[k].span = j
      <3> HIDE DEF walked
      <3> QED
        BY <1>3, <1>7, <2>1
    <2> HIDE DEF walked
    <2> QED
      BY <2>2, <2>3
  <1>9. InOrder(rest, Viewer!Circular, Viewer!Listed)
    <2> HIDE DEF walked
    <2>1. rest = Viewer!Arranged(Viewer!Circular, Viewer!Listed)
      BY <1>2, <1>8
    <2> QED
      BY <1>2, <2>1, ChildrenFacts
  <1> HIDE DEF rest
  <1>10. rest \in Seq(Viewer!Circular) /\ Len(rest) \in Nat
    BY <1>9, InOrderOnce
  <1>11. \A k \in 1..Len(rest) : rest[k] \in Viewer!Circular
    BY <1>10
  <1>12. behind \in Seq(Y) /\ Len(behind) = Len(rest) /\ \A k \in 1..Len(rest) : behind[k].span = rest[k]
    <2>1. DOMAIN rest = 1..Len(rest)
      BY <1>10
    <2>2. \A k \in 1..Len(rest) : [span |-> rest[k], depth |-> 0] \in Y
      BY <1>2, <1>11
    <2>3. behind \in [1..Len(rest) -> Y] /\ \A k \in 1..Len(rest) : behind[k].span = rest[k]
      BY <2>1, <2>2
    <2> HIDE DEF behind, Y
    <2> QED
      BY <1>10, <2>3, Sequences
  <1>13. Viewer!OrderedSpans = walked \o behind
    BY DEF Viewer!OrderedSpans, rest
  <1> HIDE DEF walked, behind, Y
  <1>14. Joined(walked \o behind, walked, behind, Y, Y)
    BY <1>6, <1>12, JoinFacts
  <1> DEFINE rows == walked \o behind
  <1>15. /\ rows \in Seq(Y) /\ Len(rows) = Len(w) + Len(rest)
         /\ \A k \in 1..Len(w) : rows[k] = walked[k]
         /\ \A k \in 1..Len(rest) : rows[Len(w) + k] = behind[k]
    <2>1. Y \cup Y = Y
      OBVIOUS
    <2> HIDE DEF rows
    <2> QED
      BY <1>6, <1>12, <1>14, <2>1 DEF Joined, rows
  <1> HIDE DEF rows
  <1>16. DOMAIN rows = 1..(Len(w) + Len(rest))
    BY <1>15
  <1>17. Timeline(rows, w, rest)
    BY <1>3, <1>4, <1>7, <1>10, <1>11, <1>12, <1>15, <1>16 DEF Timeline
  <1> QED
    BY <1>1, <1>9, <1>13, <1>17 DEF rows

Ids == [k \in DOMAIN Viewer!OrderedSpans |-> Viewer!OrderedSpans[k].span]
At(i) == CHOOSE k \in DOMAIN Ids : Ids[k] = i

\* Every span has its row, those of the tree in the order of the walk.
LEMMA RowsFacts ==
    ASSUME Viewer!IsTrace(trace)
    PROVE  /\ Viewer!Once(Ids) /\ Viewer!Range(Ids) = Viewer!Spans
           /\ \E w : /\ Walks(w, Tree, Viewer!Earlier) /\ Len(w) \in Nat
                     /\ \A k \in 1..Len(w) : Ids[k] = w[k] /\ w[k] \in Tree
                     /\ \A i \in Tree : /\ At(i) \in 1..Len(w) /\ w[At(i)] = i
                                        /\ Viewer!OrderedSpans[At(i)].depth = Cardinality(Anc(i))
  <1> DEFINE rows == Viewer!OrderedSpans
  <1>1. PICK w, rest : /\ Walks(w, Tree, Viewer!Earlier)
                       /\ InOrder(rest, Viewer!Circular, Viewer!Listed)
                       /\ Timeline(rows, w, rest)
    BY TimelineFacts
  <1> HIDE DEF rows
  <1> DEFINE n == Len(w)
             m == Len(rest)
  <1>2. /\ n \in Nat /\ m \in Nat /\ DOMAIN Ids = 1..(n + m) /\ DOMAIN rows = 1..(n + m)
        /\ \A k \in 1..n : Ids[k] = w[k] /\ w[k] \in Tree /\ rows[k].depth = Cardinality(Anc(w[k]))
        /\ \A k \in 1..m : Ids[n + k] = rest[k] /\ rest[k] \in Viewer!Circular
    <2>1. Timeline(rows, w, rest)
      BY <1>1
    <2>2. /\ n \in Nat /\ m \in Nat /\ DOMAIN rows = 1..(n + m)
          /\ \A k \in 1..n : rows[k].span = w[k] /\ w[k] \in Tree /\ rows[k].depth = Cardinality(Anc(w[k]))
          /\ \A k \in 1..m : rows[n + k].span = rest[k] /\ rest[k] \in Viewer!Circular
      BY <2>1 DEF Timeline
    <2>3. Ids = [k \in 1..(n + m) |-> rows[k].span]
      BY <2>2 DEF Ids, rows
    <2>4. \A k \in 1..n : k \in 1..(n + m)
      BY <2>2
    <2>5. \A k \in 1..m : n + k \in 1..(n + m)
      BY <2>2
    <2> HIDE DEF n, m
    <2> QED
      BY <2>2, <2>3, <2>4, <2>5
  <1>3. /\ \A j \in Tree : \E k \in 1..n : w[k] = j
        /\ \A k, l \in 1..n : w[k] = w[l] => k = l
    BY <1>1 DEF Walks, Lists
  <1>4. /\ \A j \in Viewer!Circular : \E k \in 1..m : rest[k] = j
        /\ \A k, l \in 1..m : rest[k] = rest[l] => k = l
    BY <1>1, InOrderOnce
  <1>5. \A k \in 1..(n + m) : k \in 1..n \/ \E l \in 1..m : k = n + l
    <2> TAKE k \in 1..(n + m)
    <2>1. k \in 1..n \/ (k - n \in 1..m /\ k = n + (k - n))
      BY <1>2
    <2> QED
      BY <2>1
  <1>6. Tree \cap Viewer!Circular = {} /\ Tree \cup Viewer!Circular = Viewer!Spans
    BY DEF Tree, Viewer!Circular
  <1> HIDE DEF n, m
  <1>7. \A k, l \in 1..(n + m) : Ids[k] = Ids[l] => k = l
    <2> SUFFICES ASSUME NEW k \in 1..(n + m), NEW l \in 1..(n + m), Ids[k] = Ids[l]
                 PROVE  k = l
      OBVIOUS
    <2>1. CASE k \in 1..n /\ l \in 1..n
      BY <1>2, <1>3, <2>1
    <2>2. ASSUME k \in 1..n, NEW b \in 1..m, l = n + b PROVE FALSE
      BY <1>2, <1>6, <2>2
    <2>3. ASSUME l \in 1..n, NEW a \in 1..m, k = n + a PROVE FALSE
      BY <1>2, <1>6, <2>3
    <2>4. ASSUME NEW a \in 1..m, k = n + a, NEW b \in 1..m, l = n + b PROVE k = l
      <3>1. rest[a] = rest[b]
        BY <1>2, <2>4
      <3>2. a = b
        BY <1>4, <3>1
      <3> QED
        BY <2>4, <3>2
    <2> QED
      BY <1>5, <2>1, <2>2, <2>3, <2>4
  <1>8. Viewer!Once(Ids)
    BY <1>2, <1>7 DEF Viewer!Once
  <1>9. Viewer!Range(Ids) = Viewer!Spans
    <2>1. \A k \in 1..(n + m) : Ids[k] \in Viewer!Spans
      BY <1>2, <1>5, <1>6
    <2>2. \A k \in 1..n : k \in 1..(n + m)
      BY <1>2
    <2>3. \A k \in 1..m : n + k \in 1..(n + m)
      BY <1>2
    <2>4. ASSUME NEW j \in Viewer!Spans PROVE \E k \in 1..(n + m) : Ids[k] = j
      <3>1. CASE j \in Tree
        BY <1>2, <1>3, <2>2, <3>1
      <3>2. CASE j \in Viewer!Circular
        <4>1. PICK k \in 1..m : rest[k] = j
          BY <1>4, <3>2
        <4> QED
          BY <1>2, <2>3, <4>1
      <3> QED
        BY <1>6, <3>1, <3>2
    <2> QED
      BY <1>2, <2>1, <2>4 DEF Viewer!Range
  <1>10. ASSUME NEW i \in Tree
         PROVE  At(i) \in 1..n /\ w[At(i)] = i /\ rows[At(i)].depth = Cardinality(Anc(i))
    <2>1. PICK k \in 1..n : w[k] = i
      BY <1>3
    <2>2. k \in DOMAIN Ids /\ Ids[k] = i
      BY <1>2, <2>1
    <2>3. At(i) \in DOMAIN Ids /\ Ids[At(i)] = i
      BY <2>2 DEF At
    <2>4. At(i) = k
      BY <1>2, <1>7, <2>2, <2>3
    <2> QED
      BY <1>2, <2>1, <2>4
  <1> QED
    BY <1>1, <1>2, <1>8, <1>9, <1>10 DEF n, rows

\* The tree has the spans of the tree.
LEMMA TreeRowsFacts ==
    ASSUME Viewer!IsTrace(trace)
    PROVE  Viewer!Once(Viewer!TreeRows) /\ Viewer!Range(Viewer!TreeRows) = Tree
  <1>1. PICK w : Walks(w, Tree, Viewer!Listed) /\ Viewer!TreeRows = Shown(w, Itself)
    BY TreeWalk DEF Draws
  <1>2. /\ w \in Seq(Tree) /\ \A j \in Tree : \E k \in 1..Len(w) : w[k] = j
        /\ \A k, l \in 1..Len(w) : w[k] = w[l] => k = l
    BY <1>1 DEF Walks, Lists
  <1>3. \A k \in 1..Len(w) : w[k] \in Tree
    BY <1>2
  <1>4. DOMAIN Shown(w, Itself) = 1..Len(w) /\ \A k \in 1..Len(w) : Shown(w, Itself)[k] = w[k]
    BY <1>3 DEF Shown, Itself, Tree
  <1> DEFINE s == Viewer!TreeRows
  <1>4a. DOMAIN s = 1..Len(w) /\ \A k \in 1..Len(w) : s[k] = w[k]
    BY <1>1, <1>4
  <1>4b. \A k, l \in 1..Len(w) : w[k] = w[l] => k = l
    BY <1>2
  <1>4c. \A j \in Tree : \E k \in 1..Len(w) : w[k] = j
    BY <1>2
  <1> HIDE DEF s
  <1>5. Viewer!Once(s)
    BY <1>4a, <1>4b DEF Viewer!Once
  <1>6. Viewer!Range(s) = Tree
    BY <1>3, <1>4a, <1>4c DEF Viewer!Range
  <1> QED
    BY <1>5, <1>6 DEF s

\* The mind map shows spans of the tree if there is a root; if there is none,
\* there is no tree.
LEMMA MindMapFacts ==
    ASSUME Viewer!IsTrace(trace)
    PROVE  /\ Viewer!Roots # <<>> => Viewer!MindMapSpans \subseteq Tree
           /\ Viewer!MindMapHangs => Viewer!Circular = Viewer!Spans
  <1>1. /\ Viewer!Roots \in Seq(Kids(0)) /\ Len(Viewer!Roots) \in Nat
        /\ \A c \in Kids(0) : \E k \in 1..Len(Viewer!Roots) : Viewer!Roots[k] = c
    BY ChildrenFacts, InOrderOnce
  <1>2. ASSUME Viewer!Roots # <<>>
        PROVE  Viewer!MindMapSpans \subseteq Tree
    <2>1. Viewer!Roots[1] \in Kids(0)
      BY <1>1, <1>2
    <2>2. Family(Viewer!Roots[1]) \subseteq Tree
      BY <2>1, RootsLead, FamilyFacts
    <2> QED
      BY <1>2, <2>2 DEF Viewer!MindMapSpans, Viewer!MindMapRoot, Family
  <1>3. ASSUME Viewer!MindMapHangs
        PROVE  Viewer!Circular = Viewer!Spans
    <2>1. PICK i \in Viewer!MindMapSpans : i \in Anc(i)
      BY <1>3 DEF Viewer!MindMapHangs, Anc
    <2>2. i \notin Tree
      BY <2>1, TreeFacts
    <2>3. Viewer!Roots = <<>>
      BY <1>2, <2>1, <2>2
    <2>4. Kids(0) = {}
      BY <1>1, <2>3
    <2>5. Tree = {}
      BY <2>4, RootsLead
    <2> QED
      BY <2>5 DEF Tree, Viewer!Circular
  <1> QED
    BY <1>2, <1>3

\* A parent is above its child, with only what is below it between them, and
\* siblings are by their start.
LEMMA NestFacts ==
    ASSUME Viewer!IsTrace(trace)
    PROVE  \A i \in Tree :
              /\ Viewer!OrderedSpans[At(i)].depth = Cardinality(Anc(i))
              /\ Parent(i) # 0 =>
                    /\ At(Parent(i)) < At(i)
                    /\ \A k \in At(Parent(i)) + 1 .. At(i) : Parent(i) \in Anc(Ids[k])
              /\ \A j \in Tree :
                    Parent(i) = Parent(j) /\ Parent(i) # 0 /\ Viewer!Span(i).start < Viewer!Span(j).start
                       => At(i) < At(j)
  <1>1. PICK w : /\ Walks(w, Tree, Viewer!Earlier) /\ Len(w) \in Nat
                 /\ \A k \in 1..Len(w) : Ids[k] = w[k] /\ w[k] \in Tree
                 /\ \A i \in Tree : /\ At(i) \in 1..Len(w) /\ w[At(i)] = i
                                    /\ Viewer!OrderedSpans[At(i)].depth = Cardinality(Anc(i))
    BY RowsFacts
  <1>2. Lists(w, Tree) /\ Nests(w, Tree) /\ Sorts(w, Tree, Viewer!Earlier)
    BY <1>1 DEF Walks
  <1>3. \A k, l \in 1..Len(w) : w[k] = w[l] => k = l
    BY <1>2 DEF Lists
  <1> SUFFICES ASSUME NEW i \in Tree
               PROVE  /\ Viewer!OrderedSpans[At(i)].depth = Cardinality(Anc(i))
                      /\ Parent(i) # 0 =>
                            /\ At(Parent(i)) < At(i)
                            /\ \A k \in At(Parent(i)) + 1 .. At(i) : Parent(i) \in Anc(Ids[k])
                      /\ \A j \in Tree :
                            Parent(i) = Parent(j) /\ Parent(i) # 0 /\ Viewer!Span(i).start < Viewer!Span(j).start
                               => At(i) < At(j)
    OBVIOUS
  <1>4. At(i) \in 1..Len(w) /\ w[At(i)] = i
    BY <1>1
  <1>5. ASSUME Parent(i) # 0
        PROVE  /\ At(Parent(i)) < At(i)
               /\ \A k \in At(Parent(i)) + 1 .. At(i) : Parent(i) \in Anc(Ids[k])
    <2>1. Parent(i) \in Tree
      BY <1>5, TreeFacts
    <2>2. At(Parent(i)) \in 1..Len(w) /\ w[At(Parent(i))] = Parent(i)
      BY <1>1, <2>1
    <2>3. PICK l \in 1..Len(w) : /\ l < At(i) /\ w[l] = Parent(i)
                                 /\ \A k \in (l + 1)..At(i) : Parent(i) \in Anc(w[k])
      BY <1>2, <1>4, <2>1 DEF Nests
    <2>4. l = At(Parent(i))
      BY <1>3, <2>2, <2>3
    <2>5. \A k \in (l + 1)..At(i) : k \in 1..Len(w)
      BY <1>1, <1>4
    <2>6. \A k \in (l + 1)..At(i) : Ids[k] = w[k]
      BY <1>1, <2>5
    <2> QED
      BY <2>3, <2>4, <2>6
  <1>6. ASSUME NEW j \in Tree, Parent(i) = Parent(j), Parent(i) # 0,
               Viewer!Span(i).start < Viewer!Span(j).start
        PROVE  At(i) < At(j)
    <2>1. Parent(i) \in Tree /\ i \in Viewer!Spans /\ j \in Viewer!Spans
      BY <1>6, TreeFacts
    <2>2. <<i, j>> \in Viewer!Earlier
      BY <1>6, <2>1 DEF Viewer!Earlier
    <2>3. At(j) \in 1..Len(w) /\ w[At(j)] = j
      BY <1>1
    <2> QED
      BY <1>2, <1>4, <1>6, <2>1, <2>2, <2>3 DEF Sorts
  <1> QED
    BY <1>1, <1>5, <1>6

\* Viewer!RowsComplete of every trace: the timeline, the tree and the mind map
\* have the rows they should.
LEMMA RowsHold ==
    ASSUME Viewer!IsTrace(trace)
    PROVE  Viewer!RowsComplete
  <1>1. Viewer!Once(Ids) /\ Viewer!Range(Ids) = Viewer!Spans
    BY RowsFacts
  <1>2. /\ Viewer!Once(Viewer!TreeRows)
        /\ Viewer!Range(Viewer!TreeRows) = Viewer!Spans \ Viewer!Circular
    BY TreeRowsFacts DEF Tree
  <1>3. /\ Viewer!Roots # <<>> => Viewer!MindMapSpans \subseteq Viewer!Range(Viewer!TreeRows)
        /\ Viewer!MindMapHangs => Viewer!Circular = Viewer!Spans
    BY TreeRowsFacts, MindMapFacts
  <1>4. \A i \in Tree :
           /\ Viewer!OrderedSpans[At(i)].depth = Viewer!Cardinality(Anc(i))
           /\ Parent(i) # 0 =>
                 /\ At(Parent(i)) < At(i)
                 /\ \A k \in At(Parent(i)) + 1 .. At(i) : Parent(i) \in Anc(Ids[k])
           /\ \A j \in Tree :
                 Parent(i) = Parent(j) /\ Parent(i) # 0 /\ Viewer!Span(i).start < Viewer!Span(j).start
                    => At(i) < At(j)
    BY NestFacts, SameCardinality
  <1> QED
    BY <1>1, <1>2, <1>3, <1>4 DEF Viewer!RowsComplete, Ids, At, Tree, Parent, Anc

-----------------------------------------------------------------------------
(* The bars of the timeline.                                               *)

\* One of the first n numbers has the greatest value, one the least.
LEMMA Greatest ==
    ASSUME NEW n \in Nat, n # 0, NEW g, \A k \in 1..n : g[k] \in Int
    PROVE  /\ \E m \in 1..n : \A k \in 1..n : g[k] <= g[m]
           /\ \E m \in 1..n : \A k \in 1..n : g[m] <= g[k]
  <1> DEFINE T == {j \in Nat : j # 0 /\ j <= n =>
                     /\ \E m \in 1..j : \A k \in 1..j : g[k] <= g[m]
                     /\ \E m \in 1..j : \A k \in 1..j : g[m] <= g[k]}
  <1>1. 0 \in T
    OBVIOUS
  <1>2. ASSUME NEW j \in Nat, j \in T PROVE j + 1 \in T
    <2> SUFFICES ASSUME j + 1 <= n
                 PROVE  /\ \E m \in 1..(j + 1) : \A k \in 1..(j + 1) : g[k] <= g[m]
                        /\ \E m \in 1..(j + 1) : \A k \in 1..(j + 1) : g[m] <= g[k]
      OBVIOUS
    <2>1. CASE j = 0
      <3>1. 1..(j + 1) = {1} /\ 1 \in 1..n
        BY <2>1
      <3> QED
        BY <3>1
    <2>2. CASE j # 0
      <3>1. PICK m \in 1..j : \A k \in 1..j : g[k] <= g[m]
        BY <1>2, <2>2
      <3>2. PICK l \in 1..j : \A k \in 1..j : g[l] <= g[k]
        BY <1>2, <2>2
      <3>3. \A k : k \in 1..(j + 1) <=> k \in 1..j \/ k = j + 1
        OBVIOUS
      <3>4. g[j + 1] \in Int /\ \A k \in 1..j : g[k] \in Int
        OBVIOUS
      <3> HIDE DEF T
      <3>5. \E x \in 1..(j + 1) : \A k \in 1..(j + 1) : g[k] <= g[x]
        <4>1. CASE g[j + 1] <= g[m]
          BY <3>1, <3>3, <4>1
        <4>2. CASE g[m] <= g[j + 1]
          <5>1. \A k \in 1..(j + 1) : g[k] <= g[j + 1]
            BY <3>1, <3>3, <3>4, <4>2
          <5> QED
            BY <3>3, <5>1
        <4> QED
          BY <3>4, <4>1, <4>2
      <3>6. \E x \in 1..(j + 1) : \A k \in 1..(j + 1) : g[x] <= g[k]
        <4>1. CASE g[l] <= g[j + 1]
          BY <3>2, <3>3, <4>1
        <4>2. CASE g[j + 1] <= g[l]
          <5>1. \A k \in 1..(j + 1) : g[j + 1] <= g[k]
            BY <3>2, <3>3, <3>4, <4>2
          <5> QED
            BY <3>3, <5>1
        <4> QED
          BY <3>4, <4>1, <4>2
      <3> QED
        BY <3>5, <3>6
    <2> QED
      BY <2>1, <2>2
  <1> HIDE DEF T
  <1>3. \A j \in Nat : j \in T
    BY <1>1, <1>2, Numbers
  <1> QED
    BY <1>3 DEF T

\* What a span says.
LEMMA SpanFacts ==
    ASSUME Viewer!IsTrace(trace), NEW i \in Viewer!Spans
    PROVE  /\ Viewer!Span(i).start \in Nat
           /\ {Viewer!Span(i).dur, Viewer!Span(i).end, Viewer!Span(i).tokens, Viewer!Span(i).prompt,
               Viewer!Span(i).completion, Viewer!Span(i).cost} \subseteq Nat \cup {-1}
           /\ Viewer!Span(i).failed \in BOOLEAN
  <1>1. Viewer!Span(i) \in Viewer!AnySpan(0..L)
    BY TraceFacts DEF L, Viewer!IsTrace, Viewer!Spans, Viewer!Span
  <1> QED
    BY <1>1 DEF Viewer!AnySpan, Viewer!Amounts, Viewer!Undefined

EndOf(i) == Viewer!Else(Viewer!Span(i).end, Viewer!Span(i).start + Viewer!Or(Viewer!Span(i).dur, 20))

\* The timeline begins with the first span and is as long as all of them.
LEMMA ScaleFacts ==
    ASSUME Viewer!IsTrace(trace), Viewer!Spans # {}
    PROVE  /\ Viewer!MinStart \in Int /\ Viewer!Max(Viewer!Ends) \in Int
           /\ \A i \in Viewer!Spans : /\ Viewer!MinStart <= Viewer!Span(i).start
                                      /\ EndOf(i) \in Int /\ EndOf(i) <= Viewer!Max(Viewer!Ends)
  <1> DEFINE starts == [i \in Viewer!Spans |-> Viewer!Span(i).start]
             ends == [i \in Viewer!Spans |-> EndOf(i)]
             Smallest == {Viewer!Span(i).start : i \in Viewer!Spans}
  <1>1. L \in Nat /\ Viewer!Spans = 1..L /\ L # 0
    BY TraceFacts
  <1>2. \A i \in Viewer!Spans : Viewer!Span(i).start \in Int /\ EndOf(i) \in Int
    BY SpanFacts DEF EndOf, Viewer!Else, Viewer!Or, Viewer!Undefined
  <1>3. PICK m \in Viewer!Spans : \A k \in Viewer!Spans : ends[k] <= ends[m]
    <2>1. \A k \in 1..L : ends[k] \in Int
      BY <1>1, <1>2
    <2> HIDE DEF ends
    <2> QED
      BY <1>1, <2>1, Greatest
  <1>4. PICK l \in Viewer!Spans : \A k \in Viewer!Spans : starts[l] <= starts[k]
    <2>1. \A k \in 1..L : starts[k] \in Int
      BY <1>1, <1>2
    <2> HIDE DEF starts
    <2> QED
      BY <1>1, <2>1, Greatest
  <1>5. Viewer!Ends = {EndOf(i) : i \in Viewer!Spans}
    BY DEF Viewer!Ends, EndOf
  <1>6. EndOf(m) \in Viewer!Ends /\ \A y \in Viewer!Ends : EndOf(m) >= y
    BY <1>2, <1>3, <1>5
  <1>7. Viewer!Max(Viewer!Ends) \in Viewer!Ends /\ \A y \in Viewer!Ends : Viewer!Max(Viewer!Ends) >= y
    BY <1>6 DEF Viewer!Max
  <1>8. Viewer!Span(l).start \in Smallest /\ \A y \in Smallest : Viewer!Span(l).start <= y
    BY <1>4
  <1>9. Viewer!Min(Smallest) \in Smallest /\ \A y \in Smallest : Viewer!Min(Smallest) <= y
    <2> HIDE DEF Smallest
    <2> QED
      BY <1>8 DEF Viewer!Min
  <1>10. Viewer!MinStart = Viewer!Min(Smallest)
    BY DEF Viewer!MinStart
  <1>11. Viewer!MinStart \in Int /\ \A i \in Viewer!Spans : Viewer!MinStart <= Viewer!Span(i).start
    BY <1>2, <1>9, <1>10
  <1>12. /\ Viewer!Max(Viewer!Ends) \in Int
         /\ \A i \in Viewer!Spans : EndOf(i) <= Viewer!Max(Viewer!Ends)
    BY <1>2, <1>5, <1>7
  <1> QED
    BY <1>2, <1>11, <1>12

\* Viewer!BarsFit of every trace: a bar leaves the timeline only for the reasons
\* there are.
LEMMA BarsHold ==
    ASSUME Viewer!IsTrace(trace)
    PROVE  Viewer!BarsFit
  <1> SUFFICES ASSUME Viewer!Spans # {},
                      trace.duration = 0 \/ trace.duration >= Viewer!Max(Viewer!Ends) - Viewer!MinStart,
                      NEW i \in Viewer!Spans
               PROVE  \/ Viewer!Bar(i).left + Viewer!Bar(i).width <= Viewer!TotalDuration
                      \/ Viewer!Bar(i).width = 1
                      \/ /\ Viewer!Span(i).end # Viewer!Undefined
                         /\ Viewer!Num(Viewer!Span(i).dur) > Viewer!Span(i).end - Viewer!Span(i).start
    BY DEF Viewer!BarsFit
  <1> DEFINE from == Viewer!MinStart
             to == Viewer!Max(Viewer!Ends)
             start == Viewer!Span(i).start
             dur == Viewer!Span(i).dur
             end == Viewer!Span(i).end
             left == Viewer!Bar(i).left
             width == Viewer!Bar(i).width
  <1>1. /\ from \in Int /\ to \in Int /\ from <= start /\ EndOf(i) <= to
        /\ start \in Nat /\ dur \in Nat \cup {-1} /\ end \in Nat \cup {-1}
    BY ScaleFacts, SpanFacts
  <1>2. EndOf(i) = IF end = -1 THEN start + (IF dur \in {-1, 0} THEN 20 ELSE dur) ELSE end
    BY DEF EndOf, Viewer!Else, Viewer!Or, Viewer!Undefined
  <1>3. left = IF 0 > start - from THEN 0 ELSE start - from
    BY DEF Viewer!Bar, Viewer!Bigger
  <1> DEFINE ending == IF end = -1 THEN start + (IF dur \in {-1, 0} THEN 2 ELSE dur) ELSE end
             wide == IF dur \in {-1, 0} THEN ending - start ELSE dur
  <1>4. width = IF 1 > wide THEN 1 ELSE wide
    BY DEF Viewer!Bar, Viewer!Bigger, Viewer!Else, Viewer!Or, Viewer!Undefined
  <1>5. trace.duration \in Nat
    BY DEF Viewer!IsTrace
  <1>6. Viewer!TotalDuration \in Int /\ Viewer!TotalDuration >= to - from
    BY <1>1, <1>5 DEF Viewer!TotalDuration, Viewer!Bigger, Viewer!Or, Viewer!Undefined
  <1>7. Viewer!Num(dur) = IF dur \in {-1, 0} THEN 0 ELSE dur
    BY DEF Viewer!Num, Viewer!Or, Viewer!Undefined
  <1>8. Viewer!Undefined = -1
    BY DEF Viewer!Undefined
  <1> HIDE DEF from, to, start, dur, end, left, width
  <1>9. \/ left + width <= Viewer!TotalDuration
        \/ width = 1
        \/ end # -1 /\ Viewer!Num(dur) > end - start
    BY <1>1, <1>2, <1>3, <1>4, <1>6, <1>7
  <1> QED
    BY <1>8, <1>9 DEF left, width, end, dur, start

-----------------------------------------------------------------------------
(* Folds over finite sets.                                                 *)

\* f collects base and what op makes of the picked elements.
Collects(f, D, V, base, pick, op) ==
    /\ f \in [SUBSET D -> V] /\ f[{}] = base
    /\ \A s \in SUBSET D : s # {} => f[s] = op[<<pick[s], f[s \ {pick[s]}]>>]

\* There is such a function.
LEMMA CollectsExists ==
    ASSUME NEW D, IsFiniteSet(D), NEW V, NEW base \in V,
           NEW pick, \A s \in SUBSET D : s # {} => pick[s] \in s,
           NEW op, op \in [D \X V -> V]
    PROVE  \E f : Collects(f, D, V, base, pick, op)
  <1> DEFINE W == [SUBSET D -> V]
             v == [s \in SUBSET D |-> base]
             next(h) == [s \in SUBSET D |->
                            IF s = {} THEN base ELSE op[<<pick[s], h[s \ {pick[s]}]>>]]
             step == [x \in Nat \X W |-> next(x[2])]
  <1>1. \A s \in SUBSET D : s # {} => pick[s] \in D /\ s \ {pick[s]} \in SUBSET D
    OBVIOUS
  <1>2. \A h \in W : next(h) \in W
    BY <1>1
  <1>3. v \in W
    OBVIOUS
  <1> HIDE DEF next, v, W
  <1>4. step \in [Nat \X W -> W] /\ \A n \in Nat, h \in W : step[<<n, h>>] = next(h)
    BY <1>2
  <1> HIDE DEF step
  <1>5. PICK H : Goes(H, W, v, step)
    BY <1>3, <1>4, Iterates
  <1>6. /\ H \in [Nat -> W] /\ H[0] = v
        /\ \A n \in Nat : H[n + 1] = next(H[n])
    BY <1>4, <1>5 DEF Goes
  <1> DEFINE f == [s \in SUBSET D |-> H[Cardinality(s)][s]]
  <1>7. \A s \in SUBSET D : IsFiniteSet(s) /\ Cardinality(s) \in Nat
    BY FS_Subset, FS_CardinalityType
  <1>8. f \in [SUBSET D -> V]
    BY <1>6, <1>7 DEF W
  <1>9. f[{}] = base
    BY <1>6, FS_EmptySet DEF v
  <1>10. ASSUME NEW s \in SUBSET D, s # {}
         PROVE  f[s] = op[<<pick[s], f[s \ {pick[s]}]>>]
    <2> DEFINE t == s \ {pick[s]}
    <2>1. t \in SUBSET D /\ pick[s] \in s
      BY <1>1, <1>10
    <2>2. Cardinality(t) = Cardinality(s) - 1 /\ Cardinality(t) \in Nat
      BY <1>7, <2>1, FS_RemoveElement
    <2>3. Cardinality(s) = Cardinality(t) + 1
      BY <1>7, <2>2
    <2> HIDE DEF f
    <2>4. f[s] = H[Cardinality(s)][s] /\ f[t] = H[Cardinality(t)][t]
      BY <2>1 DEF f
    <2>5. H[Cardinality(s)] = next(H[Cardinality(t)])
      BY <1>6, <2>2, <2>3
    <2>6. next(H[Cardinality(t)])[s] = op[<<pick[s], H[Cardinality(t)][t]>>]
      BY <1>10 DEF next
    <2> QED
      BY <2>4, <2>5, <2>6
  <1>11. Collects(f, D, V, base, pick, op)
    BY <1>8, <1>9, <1>10 DEF Collects
  <1> QED
    BY <1>11

-----------------------------------------------------------------------------
(* Sums.                                                                   *)

Picked(s) == CHOOSE x \in s : TRUE
SumIter(f, g, S) ==
    [s \in SUBSET S |-> IF s = {} THEN 0
                        ELSE g[CHOOSE x \in s : TRUE] + f[s \ {CHOOSE x \in s : TRUE}]]

\* f adds what g has for the elements of the parts of S.
Adds(f, g, S) ==
    /\ f \in [SUBSET S -> Nat] /\ f[{}] = 0
    /\ \A A \in SUBSET S : \A x \in A : f[A] = g[x] + f[A \ {x}]

\* The order in which the elements are taken does not matter.
LEMMA SumIterAdds ==
    ASSUME NEW S, IsFiniteSet(S), NEW g, \A x \in S : g[x] \in Nat
    PROVE  \E f : f = SumIter(f, g, S) /\ Adds(f, g, S)
  <1> DEFINE pick == [s \in SUBSET S |-> Picked(s)]
             op == [p \in S \X Nat |-> g[p[1]] + p[2]]
  <1>1. \A s \in SUBSET S : s # {} => pick[s] \in s
    BY DEF Picked
  <1>2. op \in [S \X Nat -> Nat] /\ \A x \in S, n \in Nat : op[<<x, n>>] = g[x] + n
    OBVIOUS
  <1>3. \A s \in SUBSET S : pick[s] = Picked(s)
    OBVIOUS
  <1> HIDE DEF pick, op
  <1>4. PICK f : Collects(f, S, Nat, 0, pick, op)
    BY <1>1, <1>2, CollectsExists
  <1>5. /\ f \in [SUBSET S -> Nat] /\ f[{}] = 0
        /\ \A s \in SUBSET S : s # {} => /\ Picked(s) \in s
                                         /\ f[s] = g[Picked(s)] + f[s \ {Picked(s)}]
    <2>1. /\ f \in [SUBSET S -> Nat] /\ f[{}] = 0
          /\ \A s \in SUBSET S : s # {} => f[s] = op[<<pick[s], f[s \ {pick[s]}]>>]
      BY <1>4 DEF Collects
    <2>2. ASSUME NEW s \in SUBSET S, s # {}
          PROVE  Picked(s) \in s /\ f[s] = g[Picked(s)] + f[s \ {Picked(s)}]
      <3>1. pick[s] = Picked(s) /\ Picked(s) \in s
        BY <1>1, <1>3, <2>2
      <3>2. f[s \ {Picked(s)}] \in Nat
        BY <2>1
      <3> QED
        BY <1>2, <2>1, <2>2, <3>1, <3>2
    <2> QED
      BY <2>1, <2>2
  <1>6. f = SumIter(f, g, S)
    <2>1. \A s \in SUBSET S : f[s] = IF s = {} THEN 0 ELSE g[Picked(s)] + f[s \ {Picked(s)}]
      BY <1>5
    <2> QED
      BY <1>5, <2>1 DEF SumIter, Picked
  <1>7. \A s \in SUBSET S : IsFiniteSet(s) /\ Cardinality(s) \in Nat
    BY FS_Subset, FS_CardinalityType
  <1> DEFINE T == {n \in Nat : \A A \in SUBSET S : Cardinality(A) = n =>
                       \A x \in A : f[A] = g[x] + f[A \ {x}]}
  <1>8. 0 \in T
    <2>1. \A A \in SUBSET S : Cardinality(A) = 0 => A = {}
      BY <1>7, FS_EmptySet
    <2> QED
      BY <2>1
  <1>9. ASSUME NEW n \in Nat, n \in T PROVE n + 1 \in T
    <2>1. ASSUME NEW A \in SUBSET S, Cardinality(A) = n + 1, NEW x \in A
          PROVE  f[A] = g[x] + f[A \ {x}]
      <3> DEFINE y == Picked(A)
      <3>1. y \in A /\ f[A] = g[y] + f[A \ {y}]
        BY <1>5, <2>1
      <3>2. CASE y = x
        BY <3>1, <3>2
      <3>3. CASE y # x
        <4>1. \A z \in A : A \ {z} \in SUBSET S /\ Cardinality(A \ {z}) = n
          <5> TAKE z \in A
          <5>1. IsFiniteSet(A)
            BY <1>7
          <5>2. Cardinality(A \ {z}) = Cardinality(A) - 1
            BY <5>1, FS_RemoveElement
          <5> QED
            BY <2>1, <5>2
        <4> HIDE DEF y
        <4>2. f[A \ {y}] = g[x] + f[(A \ {y}) \ {x}]
          BY <1>9, <3>1, <3>3, <4>1
        <4>3. f[A \ {x}] = g[y] + f[(A \ {x}) \ {y}]
          BY <1>9, <3>1, <3>3, <4>1
        <4>4. (A \ {x}) \ {y} = (A \ {y}) \ {x}
          OBVIOUS
        <4>5. g[x] \in Nat /\ g[y] \in Nat /\ f[(A \ {x}) \ {y}] \in Nat
          BY <1>5, <3>1
        <4> DEFINE a == f[A]
                   b == f[A \ {y}]
                   c == f[A \ {x}]
                   z == f[(A \ {x}) \ {y}]
        <4>6. a = g[y] + b /\ b = g[x] + z /\ c = g[y] + z /\ g[x] \in Nat /\ g[y] \in Nat /\ z \in Nat
          BY <3>1, <4>2, <4>3, <4>4, <4>5, Zenon
        <4> HIDE DEF T, a, b, c, z
        <4>7. a = g[x] + c
          BY <4>6
        <4> QED
          BY <4>7 DEF a, c
      <3> QED
        BY <3>2, <3>3
    <2> QED
      BY <2>1
  <1> HIDE DEF T
  <1>10. \A n \in Nat : n \in T
    BY <1>8, <1>9, Numbers
  <1>11. ASSUME NEW A \in SUBSET S, NEW x \in A
         PROVE  f[A] = g[x] + f[A \ {x}]
    <2>1. Cardinality(A) \in T
      BY <1>7, <1>10
    <2> QED
      BY <2>1 DEF T
  <1>12. Adds(f, g, S)
    BY <1>5, <1>11 DEF Adds
  <1> QED
    BY <1>6, <1>12

\* SumOf adds the amounts of the parts of a finite set.
LEMMA SumOfAdds ==
    ASSUME NEW S, IsFiniteSet(S), NEW g, \A x \in S : g[x] \in Nat
    PROVE  \E f : Adds(f, g, S) /\ \A A \in SUBSET S : Viewer!SumOf(g, A) = f[A]
  <1>1. PICK f : f = SumIter(f, g, S) /\ Adds(f, g, S)
    BY SumIterAdds
  <1>2. ASSUME NEW A \in SUBSET S
        PROVE  Viewer!SumOf(g, A) = f[A]
    <2> DEFINE h == CHOOSE h : h = SumIter(h, g, A)
    <2>1. IsFiniteSet(A) /\ \A x \in A : g[x] \in Nat
      BY FS_Subset
    <2>2. h = SumIter(h, g, A)
      BY <2>1, SumIterAdds
    <2>3. Viewer!SumOf(g, A) = h[A]
      BY DEF Viewer!SumOf, Viewer!MapThenSumSet, Viewer!MapThenFoldSet, SumIter
    <2> HIDE DEF h
    <2>4. \A s \in SUBSET A : h[s] = IF s = {} THEN 0 ELSE g[Picked(s)] + h[s \ {Picked(s)}]
      BY <2>2 DEF SumIter, Picked
    <2>5. \A s \in SUBSET S : f[s] = IF s = {} THEN 0 ELSE g[Picked(s)] + f[s \ {Picked(s)}]
      BY <1>1 DEF SumIter, Picked
    <2>6. \A s \in SUBSET A : /\ s \in SUBSET S /\ IsFiniteSet(s) /\ Cardinality(s) \in Nat
                              /\ s # {} => Picked(s) \in s
      BY <2>1, FS_Subset, FS_CardinalityType DEF Picked
    <2> DEFINE T == {n \in Nat : \A s \in SUBSET A : Cardinality(s) = n => h[s] = f[s]}
    <2>7. 0 \in T
      <3>1. ASSUME NEW s \in SUBSET A, Cardinality(s) = 0 PROVE h[s] = f[s]
        <4>1. s = {}
          BY <2>6, <3>1, FS_EmptySet
        <4> QED
          BY <2>4, <2>5, <2>6, <4>1
      <3> QED
        BY <3>1
    <2>8. ASSUME NEW n \in Nat, n \in T PROVE n + 1 \in T
      <3>1. ASSUME NEW s \in SUBSET A, Cardinality(s) = n + 1 PROVE h[s] = f[s]
        <4>1. s # {}
          <5>1. Cardinality({}) = 0
            BY FS_EmptySet
          <5> QED
            BY <3>1, <5>1
        <4> DEFINE t == s \ {Picked(s)}
        <4>2. t \in SUBSET A /\ Cardinality(t) = n
          <5>1. Picked(s) \in s /\ IsFiniteSet(s)
            BY <2>6, <4>1
          <5>2. Cardinality(t) = Cardinality(s) - 1
            BY <5>1, FS_RemoveElement
          <5> QED
            BY <3>1, <5>2
        <4>3. h[t] = f[t]
          BY <2>8, <4>2
        <4>4. h[s] = g[Picked(s)] + h[t] /\ f[s] = g[Picked(s)] + f[t]
          BY <2>4, <2>5, <2>6, <4>1
        <4> QED
          BY <4>3, <4>4
      <3> QED
        BY <3>1
    <2> HIDE DEF T
    <2>9. \A n \in Nat : n \in T
      BY <2>7, <2>8, Numbers
    <2>10. Cardinality(A) \in T
      BY <2>6, <2>9
    <2>11. h[A] = f[A]
      BY <2>10 DEF T
    <2> QED
      BY <2>3, <2>11
  <1> QED
    BY <1>1, <1>2

\* What the proofs need of it.
Summing(g, S) ==
    /\ Viewer!SumOf(g, {}) = 0
    /\ \A A \in SUBSET S : Viewer!SumOf(g, A) \in Nat
    /\ \A A \in SUBSET S : \A x \in A :
          Viewer!SumOf(g, A) = g[x] + Viewer!SumOf(g, A \ {x}) /\ g[x] <= Viewer!SumOf(g, A)
    /\ \A A, B \in SUBSET S : A \cap B = {} =>
          Viewer!SumOf(g, A \cup B) = Viewer!SumOf(g, A) + Viewer!SumOf(g, B)

\* Sums of parts that have nothing in common add up.
LEMMA SumFacts ==
    ASSUME NEW S, IsFiniteSet(S), NEW g, \A x \in S : g[x] \in Nat
    PROVE  Summing(g, S)
  <1>1. PICK f : Adds(f, g, S) /\ \A A \in SUBSET S : Viewer!SumOf(g, A) = f[A]
    BY SumOfAdds
  <1>2. /\ f[{}] = 0 /\ \A A \in SUBSET S : f[A] \in Nat
        /\ \A A \in SUBSET S : \A x \in A : f[A] = g[x] + f[A \ {x}]
    BY <1>1 DEF Adds
  <1>3. \A A \in SUBSET S : Viewer!SumOf(g, A) = f[A]
    BY <1>1
  <1>4. ASSUME NEW A \in SUBSET S, NEW x \in A
        PROVE  f[A] = g[x] + f[A \ {x}] /\ g[x] <= f[A]
    <2>1. g[x] \in Nat /\ f[A \ {x}] \in Nat
      BY <1>2
    <2>2. f[A] = g[x] + f[A \ {x}]
      BY <1>2
    <2> QED
      BY <2>1, <2>2
  <1>5. \A s \in SUBSET S : IsFiniteSet(s) /\ Cardinality(s) \in Nat
    BY FS_Subset, FS_CardinalityType
  <1> DEFINE T == {n \in Nat : \A A, B \in SUBSET S : Cardinality(B) = n /\ A \cap B = {} =>
                       f[A \cup B] = f[A] + f[B]}
  <1>6. 0 \in T
    <2>1. ASSUME NEW A \in SUBSET S, NEW B \in SUBSET S, Cardinality(B) = 0
          PROVE  f[A \cup B] = f[A] + f[B]
      <3>1. B = {}
        BY <1>5, <2>1, FS_EmptySet
      <3>2. A \cup B = A /\ f[B] = 0 /\ f[A] \in Nat
        BY <1>2, <3>1
      <3> QED
        BY <3>2
    <2> QED
      BY <2>1
  <1>7. ASSUME NEW n \in Nat, n \in T PROVE n + 1 \in T
    <2>1. ASSUME NEW A \in SUBSET S, NEW B \in SUBSET S, Cardinality(B) = n + 1, A \cap B = {}
          PROVE  f[A \cup B] = f[A] + f[B]
      <3>1. PICK x : x \in B
        <4>1. Cardinality({}) = 0
          BY FS_EmptySet
        <4>2. ASSUME B = {} PROVE FALSE
          BY <2>1, <4>1, <4>2
        <4> QED
          BY <4>2
      <3> DEFINE C == B \ {x}
      <3>2. C \in SUBSET S /\ A \cap C = {} /\ x \in A \cup B
        BY <2>1, <3>1
      <3>3. Cardinality(C) = n
        <4>1. IsFiniteSet(B)
          BY <1>5
        <4>2. Cardinality(C) = Cardinality(B) - 1
          BY <3>1, <4>1, FS_RemoveElement
        <4> QED
          BY <2>1, <4>2
      <3>4. (A \cup B) \ {x} = A \cup C /\ A \cup B \in SUBSET S /\ A \cup C \in SUBSET S
        BY <2>1, <3>1
      <3>5. f[A \cup C] = f[A] + f[C]
        BY <1>7, <3>2, <3>3
      <3>6. f[B] = g[x] + f[C]
        BY <1>2, <3>1
      <3>7. f[A \cup B] = g[x] + f[A \cup C]
        <4>1. f[A \cup B] = g[x] + f[(A \cup B) \ {x}]
          BY <1>2, <3>2, <3>4
        <4> QED
          BY <3>4, <4>1
      <3> DEFINE a == f[A]
                 c == f[C]
                 y == g[x]
      <3>8. a \in Nat /\ c \in Nat /\ y \in Nat
        BY <1>2, <3>1, <3>2
      <3>9. f[A \cup B] = y + (a + c) /\ f[B] = y + c
        BY <3>5, <3>6, <3>7
      <3> HIDE DEF a, c, y
      <3>10. y + (a + c) = a + (y + c)
        BY <3>8
      <3>11. f[A \cup B] = a + f[B]
        BY <3>9, <3>10
      <3> QED
        BY <3>11 DEF a
    <2> QED
      BY <2>1
  <1> HIDE DEF T
  <1>8. \A n \in Nat : n \in T
    BY <1>6, <1>7, Numbers
  <1>9. ASSUME NEW A \in SUBSET S, NEW B \in SUBSET S, A \cap B = {}
        PROVE  f[A \cup B] = f[A] + f[B]
    <2>1. Cardinality(B) \in T
      BY <1>5, <1>8
    <2> QED
      BY <1>9, <2>1 DEF T
  <1>10. Viewer!SumOf(g, {}) = 0 /\ \A A \in SUBSET S : Viewer!SumOf(g, A) \in Nat
    BY <1>2, <1>3
  <1>11. ASSUME NEW A \in SUBSET S, NEW x \in A
         PROVE  Viewer!SumOf(g, A) = g[x] + Viewer!SumOf(g, A \ {x}) /\ g[x] <= Viewer!SumOf(g, A)
    <2>1. Viewer!SumOf(g, A) = f[A] /\ Viewer!SumOf(g, A \ {x}) = f[A \ {x}]
      BY <1>3
    <2> QED
      BY <1>4, <2>1
  <1>12. ASSUME NEW A \in SUBSET S, NEW B \in SUBSET S, A \cap B = {}
         PROVE  Viewer!SumOf(g, A \cup B) = Viewer!SumOf(g, A) + Viewer!SumOf(g, B)
    <2>1. A \cup B \in SUBSET S
      OBVIOUS
    <2>2. Viewer!SumOf(g, A \cup B) = f[A \cup B] /\ Viewer!SumOf(g, A) = f[A] /\ Viewer!SumOf(g, B) = f[B]
      BY <1>3, <2>1
    <2> QED
      BY <1>9, <1>12, <2>2
  <1> QED
    BY <1>10, <1>11, <1>12 DEF Summing

-----------------------------------------------------------------------------
(* What the tree gathers for a span.                                       *)

\* A nonempty set of numbers up to n has a greatest.
LEMMA MaxFacts ==
    ASSUME NEW n \in Nat, NEW s \in SUBSET (1..n), s # {}
    PROVE  /\ Viewer!Max(s) \in s
           /\ \A y \in s : y <= Viewer!Max(s)
  <1> DEFINE g == [k \in 1..n |-> IF k \in s THEN k ELSE 0]
  <1>1. PICK x : x \in s
    OBVIOUS
  <1>2. n # 0 /\ \A k \in 1..n : g[k] \in Int
    BY <1>1
  <1>3. \A k \in s : g[k] = k /\ k \in 1..n
    OBVIOUS
  <1>4. \A k \in 1..n : k \notin s => g[k] = 0
    OBVIOUS
  <1> HIDE DEF g
  <1>5. PICK m \in 1..n : \A k \in 1..n : g[k] <= g[m]
    BY <1>2, Greatest
  <1>6. m \in s
    <2>1. g[x] <= g[m] /\ g[x] = x /\ x \in 1..n
      BY <1>1, <1>3, <1>5
    <2> QED
      BY <1>4, <2>1
  <1>7. \A y \in s : m >= y
    BY <1>3, <1>5, <1>6
  <1>8. /\ Viewer!Max(s) \in s
        /\ \A y \in s : Viewer!Max(s) >= y
    <2>1. Viewer!Max(s) = CHOOSE z \in s : \A y \in s : z >= y
      BY DEF Viewer!Max
    <2> QED
      BY <1>6, <1>7, <2>1
  <1>9. \A y \in s : y \in Int
    OBVIOUS
  <1> QED
    BY <1>8, <1>9

GatherIter(f, g, j, base, cs) ==
    [s \in SUBSET DOMAIN cs |->
        IF s = {} THEN base
        ELSE IF f[s \ {Viewer!Max(s)}] = 0 \/ Viewer!Sums(j)
             THEN f[s \ {Viewer!Max(s)}] + g[cs[Viewer!Max(s)]] ELSE f[s \ {Viewer!Max(s)}]]

\* What span j gathers from its children cs, of which g has the amounts.
Gathered(g, j, base, cs) ==
    Viewer!FoldLeft(LAMBDA sum, c : IF sum = 0 \/ Viewer!Sums(j) THEN sum + g[c] ELSE sum, base, cs)

\* acc has what it has gathered from the first of them.
Gathers(acc, g, j, base, cs) ==
    /\ acc \in [Nat -> Nat] /\ acc[0] = base
    /\ \A k \in Nat : k + 1 <= Len(cs) =>
          acc[k + 1] = IF acc[k] = 0 \/ Viewer!Sums(j) THEN acc[k] + g[cs[k + 1]] ELSE acc[k]

\* The children are taken from the first to the last.
LEMMA GatheredFacts ==
    ASSUME NEW X, NEW cs \in Seq(X), NEW g, \A x \in X : g[x] \in Nat, NEW base \in Nat, NEW j
    PROVE  \E acc : Gathers(acc, g, j, base, cs) /\ Gathered(g, j, base, cs) = acc[Len(cs)]
  <1> DEFINE n == Len(cs)
             D == 1..n
             pick == [s \in SUBSET D |-> Viewer!Max(s)]
             op == [x \in D \X Nat |-> IF x[2] = 0 \/ Viewer!Sums(j) THEN x[2] + g[cs[x[1]]] ELSE x[2]]
             h == CHOOSE f : f = GatherIter(f, g, j, base, cs)
  <1>1. n \in Nat /\ DOMAIN cs = D /\ \A k \in D : cs[k] \in X /\ g[cs[k]] \in Nat
    OBVIOUS
  <1>2. IsFiniteSet(D)
    BY <1>1, FS_Interval
  <1>3. \A s \in SUBSET D : s # {} => pick[s] = Viewer!Max(s) /\ Viewer!Max(s) \in s
    BY <1>1, MaxFacts
  <1>4. op \in [D \X Nat -> Nat]
    BY <1>1
  <1>5. h = GatherIter(h, g, j, base, cs)
    <2>1. \A s \in SUBSET D : s # {} => pick[s] \in s
      BY <1>3
    <2> HIDE DEF pick, op
    <2>2. PICK f : Collects(f, D, Nat, base, pick, op)
      BY <1>2, <1>4, <2>1, CollectsExists
    <2> USE DEF op
    <2>3. ASSUME NEW s \in SUBSET D, s # {}
          PROVE  f[s] = IF f[s \ {Viewer!Max(s)}] = 0 \/ Viewer!Sums(j)
                        THEN f[s \ {Viewer!Max(s)}] + g[cs[Viewer!Max(s)]] ELSE f[s \ {Viewer!Max(s)}]
      <3> DEFINE m == Viewer!Max(s)
                 t == s \ {m}
      <3>1. pick[s] = m /\ m \in D /\ t \in SUBSET D
        BY <1>3, <2>3
      <3> HIDE DEF m
      <3>2. f[t] \in Nat
        BY <2>2, <3>1 DEF Collects
      <3>3. f[s] = op[<<m, f[t]>>]
        <4> HIDE DEF op
        <4> QED
          BY <2>2, <2>3, <3>1 DEF Collects
      <3> HIDE DEF t
      <3>4. op[<<m, f[t]>>] = IF f[t] = 0 \/ Viewer!Sums(j) THEN f[t] + g[cs[m]] ELSE f[t]
        BY <3>1, <3>2
      <3> QED
        BY <3>3, <3>4 DEF t, m
    <2>4. f \in [SUBSET D -> Nat] /\ f[{}] = base
      BY <2>2 DEF Collects
    <2>5. f = GatherIter(f, g, j, base, cs)
      BY <1>1, <2>3, <2>4 DEF GatherIter
    <2> QED
      BY <2>5
  <1>6. Gathered(g, j, base, cs) = h[D]
    BY <1>1 DEF Gathered, Viewer!FoldLeft, Viewer!MapThenFoldSet, GatherIter
  <1> HIDE DEF h
  <1>7. h[{}] = base
    BY <1>5 DEF GatherIter
  <1>8. ASSUME NEW k \in Nat, k + 1 <= n
        PROVE  h[1..(k + 1)] = IF h[1..k] = 0 \/ Viewer!Sums(j) THEN h[1..k] + g[cs[k + 1]] ELSE h[1..k]
    <2> DEFINE s == 1..(k + 1)
    <2>1. s \in SUBSET D /\ s # {} /\ s \in SUBSET (1..(k + 1)) /\ k + 1 \in s
      <3>1. k + 1 \in s
        OBVIOUS
      <3>2. \A y \in s : y \in D
        BY <1>1, <1>8
      <3> QED
        BY <3>1, <3>2
    <2>1a. k + 1 \in Nat
      OBVIOUS
    <2>2. Viewer!Max(s) \in s /\ k + 1 <= Viewer!Max(s)
      <3> HIDE DEF s
      <3> QED
        BY <2>1, <2>1a, MaxFacts
    <2>3. Viewer!Max(s) = k + 1
      BY <2>2
    <2>4. s \ {k + 1} = 1..k
      OBVIOUS
    <2> HIDE DEF s
    <2>5. h[s] = GatherIter(h, g, j, base, cs)[s]
      BY <1>5
    <2>6. GatherIter(h, g, j, base, cs)[s] =
              IF h[s \ {Viewer!Max(s)}] = 0 \/ Viewer!Sums(j)
              THEN h[s \ {Viewer!Max(s)}] + g[cs[Viewer!Max(s)]] ELSE h[s \ {Viewer!Max(s)}]
      BY <1>1, <2>1 DEF GatherIter
    <2>7. h[s] = IF h[1..k] = 0 \/ Viewer!Sums(j) THEN h[1..k] + g[cs[k + 1]] ELSE h[1..k]
      BY <2>3, <2>4, <2>5, <2>6
    <2> QED
      BY <2>7 DEF s
  <1>9. \A k \in Nat : k <= n => h[1..k] \in Nat
    <2> DEFINE T == {k \in Nat : k <= n => h[1..k] \in Nat}
    <2>1. 0 \in T
      <3>1. 1..0 = {}
        OBVIOUS
      <3> QED
        BY <1>7, <3>1
    <2>2. ASSUME NEW k \in Nat, k \in T PROVE k + 1 \in T
      <3>1. ASSUME k + 1 <= n PROVE h[1..(k + 1)] \in Nat
        <4>1. k <= n /\ k + 1 \in D
          BY <1>1, <3>1
        <4>2. h[1..k] \in Nat /\ g[cs[k + 1]] \in Nat
          BY <1>1, <2>2, <4>1
        <4> QED
          BY <1>8, <3>1, <4>2
      <3> QED
        BY <3>1
    <2> HIDE DEF T
    <2>3. \A k \in Nat : k \in T
      BY <2>1, <2>2, Numbers
    <2> QED
      BY <2>3 DEF T
  <1> DEFINE acc == [k \in Nat |-> IF k <= n THEN h[1..k] ELSE 0]
  <1>10. acc \in [Nat -> Nat]
    BY <1>9
  <1>11. acc[0] = base
    <2>1. 1..0 = {}
      OBVIOUS
    <2> QED
      BY <1>1, <1>7, <2>1
  <1>12. ASSUME NEW k \in Nat, k + 1 <= n
         PROVE  acc[k + 1] = IF acc[k] = 0 \/ Viewer!Sums(j) THEN acc[k] + g[cs[k + 1]] ELSE acc[k]
    <2>1. k <= n
      BY <1>1, <1>12
    <2>2. acc[k] = h[1..k] /\ acc[k + 1] = h[1..(k + 1)]
      BY <1>12, <2>1
    <2> HIDE DEF acc, n
    <2> QED
      BY <1>8, <1>12, <2>2
  <1>13. acc[n] = h[D]
    BY <1>1
  <1> HIDE DEF acc
  <1>14. Gathers(acc, g, j, base, cs)
    BY <1>10, <1>11, <1>12 DEF Gathers
  <1> QED
    BY <1>6, <1>13, <1>14

SubtreeOf(f, own) ==
    [n \in Nat |-> [j \in Viewer!Spans |->
        IF n = 0 THEN own[j]
        ELSE Viewer!FoldLeft(LAMBDA sum, c : IF sum = 0 \/ Viewer!Sums(j) THEN sum + f[n - 1][c] ELSE sum,
                             own[j], Viewer!Children(j))]]

\* f has what the spans gather from up to n levels below them.
Levels(f, own) ==
    /\ f \in [Nat -> [Viewer!Spans -> Nat]] /\ f[0] = own
    /\ \A n \in Nat : \A j \in Viewer!Spans :
          f[n + 1][j] = Gathered(f[n], j, own[j], Viewer!Children(j))

\* A span and its children are known.
LEMMA Offspring ==
    ASSUME Viewer!IsTrace(trace), NEW j \in Viewer!Spans
    PROVE  /\ Viewer!Children(j) \in Seq(Kids(j)) /\ Viewer!Children(j) \in Seq(Viewer!Spans)
           /\ \A a, b \in 1..Len(Viewer!Children(j)) : Viewer!Children(j)[a] = Viewer!Children(j)[b] => a = b
           /\ \A c \in Kids(j) : \E a \in 1..Len(Viewer!Children(j)) : Viewer!Children(j)[a] = c
  <1>1. InOrder(Viewer!Children(j), Kids(j), Viewer!Listed)
    BY ChildrenFacts
  <1> HIDE DEF Kids
  <1>2. Viewer!Children(j) \in Seq(Kids(j)) /\ \A a, b \in 1..Len(Viewer!Children(j)) : Viewer!Children(j)[a] = Viewer!Children(j)[b] => a = b
    BY <1>1, InOrderOnce
  <1>3. \A c \in Kids(j) : \E a \in 1..Len(Viewer!Children(j)) : Viewer!Children(j)[a] = c
    BY <1>1, InOrderOnce
  <1>4. Kids(j) \subseteq Viewer!Spans
    BY DEF Kids
  <1>5. Viewer!Children(j) \in Seq(Viewer!Spans)
    BY <1>2, <1>4
  <1> QED
    BY <1>2, <1>3, <1>5

\* What the tree shows for a span is what is gathered from all levels.
LEMMA SubtreeFacts ==
    ASSUME Viewer!IsTrace(trace), NEW own \in [Viewer!Spans -> Nat]
    PROVE  \E f : Levels(f, own) /\ \A i : Viewer!Subtree(own, i) = f[L][i]
  <1> DEFINE V == [Viewer!Spans -> Nat]
             next(g) == [j \in Viewer!Spans |-> Gathered(g, j, own[j], Viewer!Children(j))]
             step == [x \in Nat \X V |-> next(x[2])]
             h == CHOOSE f : f = SubtreeOf(f, own)
  <1>1. \A g \in V : next(g) \in V
    <2> SUFFICES ASSUME NEW g \in V, NEW j \in Viewer!Spans
                 PROVE  Gathered(g, j, own[j], Viewer!Children(j)) \in Nat
      OBVIOUS
    <2>1. Viewer!Children(j) \in Seq(Viewer!Spans)
      BY Offspring
    <2>2. own[j] \in Nat /\ \A x \in Viewer!Spans : g[x] \in Nat
      OBVIOUS
    <2>3. PICK acc : /\ Gathers(acc, g, j, own[j], Viewer!Children(j))
                     /\ Gathered(g, j, own[j], Viewer!Children(j)) = acc[Len(Viewer!Children(j))]
      BY <2>1, <2>2, GatheredFacts
    <2>4. Len(Viewer!Children(j)) \in Nat
      BY <2>1
    <2> QED
      BY <2>3, <2>4 DEF Gathers
  <1> HIDE DEF next
  <1>2. step \in [Nat \X V -> V] /\ \A n \in Nat, g \in V : step[<<n, g>>] = next(g)
    BY <1>1
  <1> HIDE DEF step, V
  <1>3. own \in V
    BY DEF V
  <1>4. PICK f : Goes(f, V, own, step)
    BY <1>2, <1>3, Iterates
  <1>5. f \in [Nat -> V] /\ f[0] = own /\ \A n \in Nat : f[n + 1] = next(f[n])
    BY <1>2, <1>4 DEF Goes
  <1>6. f = SubtreeOf(f, own)
    <2>1. ASSUME NEW n \in Nat PROVE f[n] = SubtreeOf(f, own)[n]
      <3>1. CASE n = 0
        <4>1. own = [j \in Viewer!Spans |-> own[j]]
          OBVIOUS
        <4> QED
          BY <1>5, <3>1, <4>1 DEF SubtreeOf
      <3>2. CASE n # 0
        <4>1. n - 1 \in Nat /\ n - 1 + 1 = n
          BY <3>2
        <4>2. f[n] = next(f[n - 1])
          BY <1>5, <4>1
        <4> QED
          BY <3>2, <4>2 DEF SubtreeOf, next, Gathered
      <3> QED
        BY <3>1, <3>2
    <2> QED
      BY <1>5, <2>1 DEF SubtreeOf
  <1>7. h = SubtreeOf(h, own)
    BY <1>6
  <1>8. \A i : Viewer!Subtree(own, i) = h[L][i]
    BY DEF Viewer!Subtree, SubtreeOf, L
  <1> HIDE DEF h
  <1>9. h[0] = own
    <2>1. SubtreeOf(h, own)[0] = [j \in Viewer!Spans |-> own[j]]
      BY DEF SubtreeOf
    <2> QED
      BY <1>7, <2>1
  <1>10. \A n \in Nat : h[n + 1] = next(h[n])
    <2>1. ASSUME NEW m \in Nat, m # 0
          PROVE  SubtreeOf(h, own)[m] = next(h[m - 1])
      BY <2>1 DEF SubtreeOf, next, Gathered
    <2> TAKE n \in Nat
    <2>2. n + 1 \in Nat /\ n + 1 # 0 /\ n + 1 - 1 = n
      OBVIOUS
    <2>3. SubtreeOf(h, own)[n + 1] = next(h[n + 1 - 1])
      BY <2>1, <2>2
    <2> QED
      BY <1>7, <2>2, <2>3
  <1>11. \A n \in Nat : h[n] \in V
    <2> DEFINE T == {n \in Nat : h[n] \in V}
    <2>1. 0 \in T
      BY <1>3, <1>9
    <2>2. ASSUME NEW n \in Nat, n \in T PROVE n + 1 \in T
      BY <1>1, <1>10, <2>2 DEF V
    <2> HIDE DEF T
    <2>3. \A n \in Nat : n \in T
      BY <2>1, <2>2, Numbers
    <2> QED
      BY <2>3 DEF T
  <1>12. h = [n \in Nat |-> h[n]]
    BY <1>7 DEF SubtreeOf
  <1>13. h \in [Nat -> V]
    BY <1>11, <1>12
  <1>14. Levels(h, own)
    BY <1>9, <1>10, <1>13 DEF Levels, V, next
  <1> QED
    BY <1>8, <1>14

\* What is below the children of a span on the tree.
Brood(cs, i) ==
    /\ cs \in Seq(Tree) /\ Len(cs) \in Nat
    /\ \A a \in 1..Len(cs) : /\ cs[a] \in Tree /\ Family(cs[a]) \subseteq Family(i)
                             /\ Cardinality(Anc(cs[a])) = Cardinality(Anc(i)) + 1
    /\ Families(cs, Len(cs)) = Family(i) \ {i}
    /\ \A k \in Nat : k + 1 <= Len(cs) =>
          /\ Families(cs, k + 1) = Families(cs, k) \cup Family(cs[k + 1])
          /\ ({i} \cup Families(cs, k)) \cap Family(cs[k + 1]) = {}
    /\ Families(cs, 0) = {}
    /\ \A k \in Nat : k <= Len(cs) => {i} \cup Families(cs, k) \subseteq Viewer!Spans

\* The families of the children of a span are apart, and with the span they are
\* its family.
LEMMA BroodFacts ==
    ASSUME Viewer!IsTrace(trace), NEW i \in Tree
    PROVE  Brood(Viewer!Children(i), i)
  <1> DEFINE cs == Viewer!Children(i)
  <1>1. i \in Viewer!Spans /\ Tree \subseteq Viewer!Spans /\ Cardinality(Anc(i)) \in Nat
    BY TreeFacts
  <1>2. \A c \in Kids(i) : c \in Tree /\ Parent(c) = i /\ Cardinality(Anc(c)) = Cardinality(Anc(i)) + 1
    <2> TAKE c \in Kids(i)
    <2>1. c \in Viewer!Spans /\ Parent(c) = i /\ i # 0
      BY <1>1, TraceFacts DEF Kids
    <2>2. i \in Anc(c)
      BY <2>1, AncestorsFacts
    <2>3. c \in Tree
      BY <2>1, <2>2, TreeFacts
    <2>4. Cardinality(Anc(c)) = Cardinality(Anc(i)) + 1
      BY <2>1, <2>3, TreeFacts
    <2> QED
      BY <1>1, <2>1, <2>3, <2>4
  <1>3. /\ cs \in Seq(Kids(i)) /\ \A a, b \in 1..Len(cs) : cs[a] = cs[b] => a = b
        /\ \A c \in Kids(i) : \E a \in 1..Len(cs) : cs[a] = c
    BY <1>1, Offspring
  <1>4. Len(cs) \in Nat /\ \A a \in 1..Len(cs) : cs[a] \in Kids(i)
    BY <1>3
  <1>5. cs \in Seq(Tree)
    <2>1. Kids(i) \subseteq Tree
      BY <1>2
    <2> QED
      BY <1>3, <2>1
  <1> HIDE DEF cs
  <1>6. Family(i) \subseteq Viewer!Spans /\ \A c \in Kids(i) : Family(c) \subseteq Viewer!Spans
    BY <1>1, <1>2, FamilyFacts
  <1>7. \A c \in Kids(i) : i \notin Family(c)
    BY <1>2, FamilyFacts
  <1>8. \A j \in Viewer!Spans : j \in Family(i) \ {i} <=> \E c \in Kids(i) : j \in Family(c)
    <2>1. \A c \in Tree : Parent(c) = i => c \in Kids(i)
      BY <1>1 DEF Kids
    <2>2. \A j \in Viewer!Spans : j \in Family(i) <=> j = i \/ \E c \in Tree : Parent(c) = i /\ j \in Family(c)
      BY FamilyFacts
    <2> QED
      BY <1>2, <1>7, <2>1, <2>2
  <1>9. Families(cs, Len(cs)) = Family(i) \ {i}
    <2>1. Families(cs, Len(cs)) = UNION {Family(c) : c \in Kids(i)}
      BY <1>3, <1>4 DEF Families
    <2> QED
      BY <1>6, <1>8, <2>1
  <1>10. ASSUME NEW a \in 1..Len(cs)
         PROVE  /\ cs[a] \in Tree /\ Family(cs[a]) \subseteq Family(i)
                /\ Cardinality(Anc(cs[a])) = Cardinality(Anc(i)) + 1
    <2>1. cs[a] \in Kids(i)
      BY <1>4
    <2>2. Family(cs[a]) \subseteq Family(i)
      BY <1>6, <1>8, <2>1
    <2> QED
      BY <1>2, <2>1, <2>2
  <1>11. ASSUME NEW k \in Nat, k + 1 <= Len(cs)
         PROVE  /\ Families(cs, k + 1) = Families(cs, k) \cup Family(cs[k + 1])
                /\ ({i} \cup Families(cs, k)) \cap Family(cs[k + 1]) = {}
    <2>1. \A a : a \in 1..(k + 1) <=> a \in 1..k \/ a = k + 1
      OBVIOUS
    <2>2. Families(cs, k + 1) = Families(cs, k) \cup Family(cs[k + 1])
      BY <2>1 DEF Families
    <2>3. k + 1 \in 1..Len(cs) /\ \A a \in 1..k : a \in 1..Len(cs) /\ a # k + 1
      BY <1>4, <1>11
    <2>4. ASSUME NEW a \in 1..k
          PROVE  Family(cs[a]) \cap Family(cs[k + 1]) = {}
      <3>1. cs[a] \in Kids(i) /\ cs[k + 1] \in Kids(i) /\ cs[a] # cs[k + 1]
        BY <1>3, <1>4, <2>3
      <3> QED
        BY <1>2, <3>1, FamilyFacts
    <2>5. i \notin Family(cs[k + 1])
      BY <1>4, <1>7, <2>3
    <2>6. Families(cs, k) \cap Family(cs[k + 1]) = {}
      BY <2>4 DEF Families
    <2> QED
      BY <2>2, <2>5, <2>6
  <1>12. Families(cs, 0) = {}
    BY DEF Families
  <1>13. ASSUME NEW k \in Nat, k <= Len(cs)
         PROVE  {i} \cup Families(cs, k) \subseteq Viewer!Spans
    <2>1. \A a \in 1..k : a \in 1..Len(cs)
      BY <1>4, <1>13
    <2>2. \A a \in 1..k : Family(cs[a]) \subseteq Viewer!Spans
      BY <1>4, <1>6, <2>1
    <2> QED
      BY <1>1, <2>2 DEF Families
  <1>14. Brood(cs, i)
    BY <1>4, <1>5, <1>9, <1>10, <1>11, <1>12, <1>13 DEF Brood
  <1> QED
    BY <1>14 DEF cs

\* Every span of the family of i that has children is an agent or a chain.
Plain(i) == \A x \in Family(i) : Viewer!Sums(x) \/ Viewer!Children(x) = <<>>

\* v is at most what the family of i used, nothing only if that is nothing, and
\* all of it where i is plain.
Fair(v, own, i) ==
    /\ v \in Nat /\ v <= Viewer!SumOf(own, Family(i))
    /\ Viewer!SumOf(own, Family(i)) > 0 => v > 0
    /\ Plain(i) => v = Viewer!SumOf(own, Family(i))

\* What is gathered from children with a fair amount each is fair.
LEMMA FairlyGathered ==
    ASSUME Viewer!IsTrace(trace), NEW own \in [Viewer!Spans -> Nat], Summing(own, Viewer!Spans),
           NEW i \in Tree, NEW g \in [Viewer!Spans -> Nat],
           \A a \in 1..Len(Viewer!Children(i)) : Fair(g[Viewer!Children(i)[a]], own, Viewer!Children(i)[a])
    PROVE  Fair(Gathered(g, i, own[i], Viewer!Children(i)), own, i)
  <1> DEFINE cs == Viewer!Children(i)
             P(k) == {i} \cup Families(cs, k)
             S(A) == Viewer!SumOf(own, A)
  <1>1. i \in Viewer!Spans /\ Tree \subseteq Viewer!Spans
    BY TreeFacts
  <1>2. Brood(cs, i)
    BY BroodFacts
  <1>3. PICK acc : Gathers(acc, g, i, own[i], cs) /\ Gathered(g, i, own[i], cs) = acc[Len(cs)]
    <2>1. cs \in Seq(Viewer!Spans) /\ own[i] \in Nat /\ \A x \in Viewer!Spans : g[x] \in Nat
      BY <1>1, Offspring
    <2> HIDE DEF cs
    <2> QED
      BY <2>1, GatheredFacts
  <1>4. \A a \in 1..Len(cs) : Fair(g[cs[a]], own, cs[a])
    OBVIOUS
  <1>5. Plain(i) /\ Len(cs) # 0 => Viewer!Sums(i)
    <2>1. i \in Family(i)
      BY DEF Family
    <2>2. cs = <<>> => Len(cs) = 0
      OBVIOUS
    <2> QED
      BY <2>1, <2>2 DEF Plain
  <1> HIDE DEF cs
  <1>6. Len(cs) \in Nat
    BY <1>2 DEF Brood
  <1>7. \A k \in Nat : k <= Len(cs) => P(k) \in SUBSET Viewer!Spans
    BY <1>2 DEF Brood
  <1> DEFINE Holds(k) == /\ acc[k] \in Nat /\ S(P(k)) \in Nat /\ acc[k] <= S(P(k))
                         /\ S(P(k)) > 0 => acc[k] > 0
                         /\ Plain(i) => acc[k] = S(P(k))
             T == {k \in Nat : k <= Len(cs) => Holds(k)}
  <1>8. 0 \in T
    <2>1. P(0) = {i} /\ {i} \ {i} = {} /\ {i} \in SUBSET Viewer!Spans
      BY <1>1, <1>2 DEF Brood
    <2>2. S({}) = 0 /\ S({i}) = own[i] + S({})
      BY <2>1 DEF Summing
    <2>3. acc[0] = own[i] /\ own[i] \in Nat
      BY <1>1, <1>3 DEF Gathers
    <2> HIDE DEF P, S
    <2>4. S(P(0)) = own[i]
      <3>1. S(P(0)) = S({i})
        BY <2>1
      <3> QED
        BY <2>2, <2>3, <3>1
    <2> QED
      BY <2>3, <2>4
  <1>9. ASSUME NEW k \in Nat, k \in T PROVE k + 1 \in T
    <2> SUFFICES ASSUME k + 1 <= Len(cs) PROVE Holds(k + 1)
      OBVIOUS
    <2>1. k <= Len(cs) /\ k + 1 \in 1..Len(cs)
      BY <1>6
    <2>2. Holds(k)
      BY <1>9, <2>1
    <2> DEFINE c == cs[k + 1]
    <2>3. c \in Tree /\ Family(c) \subseteq Family(i) /\ Family(c) \in SUBSET Viewer!Spans
      BY <1>2, <2>1, FamilyFacts, TreeFacts DEF Brood
    <2>4. Fair(g[c], own, c)
      BY <1>4, <2>1
    <2>5. P(k + 1) = P(k) \cup Family(c) /\ P(k) \cap Family(c) = {}
      BY <1>2 DEF Brood
    <2>6. S(P(k + 1)) = S(P(k)) + S(Family(c)) /\ S(Family(c)) \in Nat
      BY <1>7, <2>1, <2>3, <2>5 DEF Summing
    <2>7. acc[k + 1] = IF acc[k] = 0 \/ Viewer!Sums(i) THEN acc[k] + g[c] ELSE acc[k]
      BY <1>3 DEF Gathers
    <2>8. Plain(i) => Plain(c) /\ Viewer!Sums(i)
      BY <1>5, <1>6, <2>1, <2>3 DEF Plain
    <2>9. /\ g[c] \in Nat /\ g[c] <= S(Family(c))
          /\ S(Family(c)) > 0 => g[c] > 0
          /\ Plain(c) => g[c] = S(Family(c))
      BY <2>4 DEF Fair
    <2> DEFINE a == acc[k]
               b == acc[k + 1]
               p == S(P(k))
               q == S(P(k + 1))
               x == g[c]
               s == S(Family(c))
    <2>10. /\ a \in Nat /\ p \in Nat /\ a <= p /\ (p > 0 => a > 0) /\ (Plain(i) => a = p)
           /\ x \in Nat /\ s \in Nat /\ x <= s /\ (s > 0 => x > 0) /\ (Plain(i) => x = s)
           /\ q = p + s /\ b = (IF a = 0 \/ Viewer!Sums(i) THEN a + x ELSE a)
           /\ Plain(i) => Viewer!Sums(i)
      BY <2>2, <2>6, <2>7, <2>8, <2>9
    <2> HIDE DEF a, b, p, q, x, s, T, P, S
    <2>11. b \in Nat /\ q \in Nat /\ b <= q /\ (q > 0 => b > 0) /\ (Plain(i) => b = q)
      BY <2>10
    <2> QED
      BY <2>11 DEF b, q
  <1> HIDE DEF T
  <1>10. \A k \in Nat : k \in T
    BY <1>8, <1>9, Numbers
  <1>11. Holds(Len(cs))
    BY <1>6, <1>10 DEF T
  <1>12. P(Len(cs)) = Family(i)
    <2>1. Families(cs, Len(cs)) = Family(i) \ {i} /\ i \in Family(i)
      BY <1>2 DEF Brood, Family
    <2> QED
      BY <2>1
  <1>13. Fair(acc[Len(cs)], own, i)
    BY <1>11, <1>12 DEF Fair
  <1> QED
    BY <1>3, <1>13 DEF cs

\* What the tree shows for a span is fair.
LEMMA SubtreeFair ==
    ASSUME Viewer!IsTrace(trace), NEW own \in [Viewer!Spans -> Nat], Summing(own, Viewer!Spans),
           NEW i \in Tree
    PROVE  Fair(Viewer!Subtree(own, i), own, i)
  <1>1. PICK f : Levels(f, own) /\ \A j : Viewer!Subtree(own, j) = f[L][j]
    BY SubtreeFacts
  <1> DEFINE T == {n \in Nat : \A j \in Tree : L <= n + Cardinality(Anc(j)) => Fair(f[n][j], own, j)}
  <1>2. L \in Nat /\ Tree \subseteq Viewer!Spans
    BY TraceFacts, TreeFacts
  <1>3. 0 \in T
    <2>1. \A j \in Tree : ~ (L <= 0 + Cardinality(Anc(j)))
      BY <1>2, TreeFacts
    <2> QED
      BY <2>1
  <1>4. ASSUME NEW n \in Nat, n \in T PROVE n + 1 \in T
    <2> SUFFICES ASSUME NEW j \in Tree, L <= n + 1 + Cardinality(Anc(j))
                 PROVE  Fair(f[n + 1][j], own, j)
      OBVIOUS
    <2>1. Brood(Viewer!Children(j), j) /\ Cardinality(Anc(j)) \in Nat
      BY BroodFacts, TreeFacts
    <2>2. ASSUME NEW a \in 1..Len(Viewer!Children(j))
          PROVE  Fair(f[n][Viewer!Children(j)[a]], own, Viewer!Children(j)[a])
      <3> DEFINE c == Viewer!Children(j)[a]
      <3>1. c \in Tree /\ Cardinality(Anc(c)) = Cardinality(Anc(j)) + 1
        BY <2>1 DEF Brood
      <3> HIDE DEF c
      <3>2. L <= n + Cardinality(Anc(c))
        BY <1>2, <2>1, <3>1
      <3>3. Fair(f[n][c], own, c)
        BY <1>4, <3>1, <3>2
      <3> QED
        BY <3>3 DEF c
    <2>3. f[n] \in [Viewer!Spans -> Nat]
      BY <1>1 DEF Levels
    <2>4. Fair(Gathered(f[n], j, own[j], Viewer!Children(j)), own, j)
      BY <2>2, <2>3, FairlyGathered
    <2>5. f[n + 1][j] = Gathered(f[n], j, own[j], Viewer!Children(j))
      BY <1>1, <1>2 DEF Levels
    <2> QED
      BY <2>4, <2>5
  <1> HIDE DEF T
  <1>5. \A n \in Nat : n \in T
    BY <1>3, <1>4, Numbers
  <1>6. L <= L + Cardinality(Anc(i))
    BY <1>2, TreeFacts
  <1>7. Fair(f[L][i], own, i)
    BY <1>2, <1>5, <1>6 DEF T
  <1> QED
    BY <1>1, <1>7

\* What the inspector shows for a span is its own or what is below it.
LEMMA RollupFair ==
    ASSUME Viewer!IsTrace(trace), NEW own \in [Viewer!Spans -> Nat], Summing(own, Viewer!Spans),
           NEW i \in Tree
    PROVE  /\ Viewer!Rollup(own, i) <= Viewer!SumOf(own, Family(i))
           /\ Viewer!SumOf(own, Family(i)) > 0 => Viewer!Rollup(own, i) > 0
  <1> DEFINE B == Viewer!Below(i) \ {i}
             a == own[i]
             b == Viewer!SumOf(own, B)
             s == Viewer!SumOf(own, Family(i))
  <1>1. i \in Viewer!Spans /\ Family(i) \in SUBSET Viewer!Spans /\ i \in Family(i)
    BY TreeFacts, FamilyFacts DEF Family
  <1>2. Family(i) \ {i} = B /\ B \in SUBSET Viewer!Spans
    BY <1>1 DEF Family
  <1>3. a \in Nat /\ b \in Nat /\ s = a + b
    <2> HIDE DEF B
    <2>1. s = a + Viewer!SumOf(own, Family(i) \ {i})
      BY <1>1 DEF Summing
    <2>2. b \in Nat
      BY <1>2 DEF Summing
    <2> QED
      BY <1>1, <1>2, <2>1, <2>2
  <1>4. Viewer!Rollup(own, i) = IF a > 0 THEN a ELSE b
    BY DEF Viewer!Rollup
  <1> HIDE DEF a, b, s
  <1>5. Viewer!Rollup(own, i) <= s /\ (s > 0 => Viewer!Rollup(own, i) > 0)
    BY <1>3, <1>4
  <1> QED
    BY <1>5 DEF s

\* What the spans say they used are numbers.
LEMMA OwnFacts ==
    ASSUME Viewer!IsTrace(trace)
    PROVE  /\ Viewer!OwnTokens \in [Viewer!Spans -> Nat] /\ Summing(Viewer!OwnTokens, Viewer!Spans)
           /\ Viewer!OwnCost \in [Viewer!Spans -> Nat] /\ Summing(Viewer!OwnCost, Viewer!Spans)
  <1>1. \A i \in Viewer!Spans :
           /\ {Viewer!Span(i).tokens, Viewer!Span(i).prompt, Viewer!Span(i).completion,
               Viewer!Span(i).cost} \subseteq Nat \cup {-1}
    BY SpanFacts
  <1>2. Viewer!OwnTokens \in [Viewer!Spans -> Nat]
    BY <1>1 DEF Viewer!OwnTokens, Viewer!Or, Viewer!Num, Viewer!Undefined
  <1>3. Viewer!OwnCost \in [Viewer!Spans -> Nat]
    BY <1>1 DEF Viewer!OwnCost, Viewer!Else, Viewer!Undefined
  <1>4. IsFiniteSet(Viewer!Spans)
    BY TraceFacts
  <1>5. Summing(Viewer!OwnTokens, Viewer!Spans)
    BY <1>2, <1>4, SumFacts
  <1>6. Summing(Viewer!OwnCost, Viewer!Spans)
    BY <1>3, <1>4, SumFacts
  <1> QED
    BY <1>2, <1>3, <1>5, <1>6

\* The tree and the inspector show what was used.
LEMMA TotalsHold ==
    ASSUME Viewer!IsTrace(trace)
    PROVE  Viewer!TotalsBounded
  <1> SUFFICES ASSUME NEW i \in Tree
               PROVE  LET family == Viewer!Below(i) \cup {i}
                          bounded(own) ==
                              LET all == Viewer!SumOf(own, family)
                              IN /\ Viewer!Subtree(own, i) <= all /\ Viewer!Rollup(own, i) <= all
                                 /\ all > 0 => Viewer!Subtree(own, i) > 0 /\ Viewer!Rollup(own, i) > 0
                                 /\ (\A j \in family : Viewer!Sums(j) \/ Viewer!Children(j) = <<>>)
                                         => Viewer!Subtree(own, i) = all
                      IN /\ bounded(Viewer!OwnTokens) /\ bounded(Viewer!OwnCost)
                         /\ ~Viewer!IsRollup(i) => Viewer!Rollup(Viewer!OwnTokens, i) = Viewer!OwnTokens[i]
    BY DEF Viewer!TotalsBounded, Tree
  <1> DEFINE bounded(own) ==
                 LET all == Viewer!SumOf(own, Family(i))
                 IN /\ Viewer!Subtree(own, i) <= all /\ Viewer!Rollup(own, i) <= all
                    /\ all > 0 => Viewer!Subtree(own, i) > 0 /\ Viewer!Rollup(own, i) > 0
                    /\ Plain(i) => Viewer!Subtree(own, i) = all
  <1>1. ASSUME NEW own \in [Viewer!Spans -> Nat], Summing(own, Viewer!Spans)
        PROVE  bounded(own)
    BY <1>1, SubtreeFair, RollupFair DEF Fair
  <1>2. bounded(Viewer!OwnTokens) /\ bounded(Viewer!OwnCost)
    <2> HIDE DEF bounded
    <2> QED
      BY <1>1, OwnFacts
  <1>3. ASSUME ~Viewer!IsRollup(i)
        PROVE  Viewer!Rollup(Viewer!OwnTokens, i) = Viewer!OwnTokens[i]
    <2>1. i \in Viewer!Spans /\ Viewer!Below(i) \ {i} \in SUBSET Viewer!Spans
      BY TreeFacts DEF Viewer!Below
    <2>2. Viewer!OwnTokens[i] \in Nat /\ Viewer!SumOf(Viewer!OwnTokens, Viewer!Below(i) \ {i}) \in Nat
      BY <2>1, OwnFacts DEF Summing
    <2> DEFINE a == Viewer!OwnTokens[i]
               b == Viewer!SumOf(Viewer!OwnTokens, Viewer!Below(i) \ {i})
    <2>3. a \in Nat /\ b \in Nat /\ ~ (a = 0 /\ b > 0)
      BY <1>3, <2>2 DEF Viewer!IsRollup
    <2>4. Viewer!Rollup(Viewer!OwnTokens, i) = IF a > 0 THEN a ELSE b
      BY DEF Viewer!Rollup
    <2> HIDE DEF a, b
    <2>5. Viewer!Rollup(Viewer!OwnTokens, i) = a
      BY <2>3, <2>4
    <2> QED
      BY <2>5 DEF a
  <1>4. Family(i) = Viewer!Below(i) \cup {i}
    BY DEF Family
  <1> QED
    BY <1>2, <1>3, <1>4 DEF Plain

\* The detail page and the comparison agree.
LEMMA SpendHolds ==
    ASSUME Viewer!IsTrace(trace)
    PROVE  Viewer!SpendAgrees
  <1> DEFINE prompt == [i \in Viewer!Spans |-> Viewer!Else(Viewer!Span(i).prompt, 0)]
             completion == [i \in Viewer!Spans |-> Viewer!Else(Viewer!Span(i).completion, 0)]
             tokens == [i \in Viewer!Spans |-> Viewer!Else(Viewer!Span(i).tokens, prompt[i] + completion[i])]
             summed == Viewer!Or(trace.tokens, trace.prompt + trace.completion)
             fallBack == summed = 0 /\ Viewer!SumOf(tokens, Viewer!Spans) > 0
             cost == Viewer!SumOf(Viewer!OwnCost, Viewer!Spans)
             total == Viewer!SumOf(tokens, Viewer!Spans)
  <1>1. /\ Viewer!ExtractMetrics.cost = IF trace.cost = 0 /\ cost > 0 THEN cost ELSE trace.cost
        /\ Viewer!ExtractMetrics.tokens = IF fallBack THEN total ELSE summed
    BY DEF Viewer!ExtractMetrics
  <1>2. \A i \in Viewer!Spans : {Viewer!Span(i).tokens, Viewer!Span(i).prompt, Viewer!Span(i).completion} \subseteq Nat \cup {-1}
    BY SpanFacts
  <1>3. {trace.tokens, trace.prompt, trace.completion, trace.cost} \subseteq Nat
    BY DEF Viewer!IsTrace
  <1>4. prompt \in [Viewer!Spans -> Nat] /\ completion \in [Viewer!Spans -> Nat]
    BY <1>2 DEF Viewer!Else, Viewer!Undefined
  <1> HIDE DEF prompt, completion
  <1>5. tokens \in [Viewer!Spans -> Nat]
    BY <1>2, <1>4 DEF Viewer!Else, Viewer!Undefined
  <1>6. \A i \in Viewer!Spans : Viewer!Num(Viewer!Span(i).tokens) > 0 => tokens[i] > 0
    BY <1>2 DEF Viewer!Num, Viewer!Or, Viewer!Else, Viewer!Undefined
  <1> HIDE DEF tokens
  <1>7. Summing(tokens, Viewer!Spans)
    BY <1>5, TraceFacts, SumFacts
  <1>8. total \in Nat /\ \A i \in Viewer!Spans : tokens[i] <= total
    BY <1>7 DEF Summing
  <1>9. cost \in Nat
    BY OwnFacts DEF Summing
  <1>10. summed \in Nat
    BY <1>3 DEF Viewer!Or, Viewer!Undefined
  <1> HIDE DEF cost, total, summed
  <1>11. Viewer!ExtractMetrics.cost = Viewer!Spend
    <2>1. Viewer!Spend = IF trace.cost > 0 THEN trace.cost ELSE cost
      BY DEF Viewer!Spend, cost
    <2>2. trace.cost \in Nat
      BY <1>3
    <2> QED
      BY <1>1, <1>9, <2>1, <2>2
  <1>12. ASSUME NEW i \in Viewer!Spans, Viewer!Num(Viewer!Span(i).tokens) > 0
         PROVE  Viewer!ExtractMetrics.tokens > 0
    <2>1. tokens[i] \in Nat /\ tokens[i] > 0 /\ tokens[i] <= total
      BY <1>5, <1>6, <1>8, <1>12
    <2>2. total > 0
      BY <1>8, <2>1
    <2>3. fallBack <=> summed = 0
      BY <2>2 DEF total
    <2> QED
      BY <1>1, <1>10, <2>2, <2>3
  <1> QED
    BY <1>11, <1>12 DEF Viewer!SpendAgrees

-----------------------------------------------------------------------------
(* The pages.                                                              *)

Views == {"timeline", "mindmap", "tree"}
Tabs == {"overview", "input", "output", "attributes", "events", "error"}
Screens ==
    [view : Views, selected : Nat, tab : Tabs, split : 20..80, dragging : BOOLEAN,
     critical : BOOLEAN, zoom : 2..12]

\* What holds of the trace page.
ScreenInv ==
    /\ trace \in Loads /\ Viewer!IsTrace(trace)
    /\ screen \in Screens /\ Viewer!TypeOK

WebInv == Inv /\ (open = "trace" => ScreenInv)

\* A nonempty set of numbers up to n has a least.
LEMMA MinFacts ==
    ASSUME NEW n \in Nat, NEW s \in SUBSET (1..n), s # {}
    PROVE  /\ Viewer!Min(s) \in s
           /\ \A y \in s : Viewer!Min(s) <= y
  <1> DEFINE g == [k \in 1..n |-> IF k \in s THEN k ELSE n + 1]
  <1>1. PICK x : x \in s
    OBVIOUS
  <1>2. n # 0 /\ \A k \in 1..n : g[k] \in Int
    BY <1>1
  <1>3. \A k \in s : g[k] = k /\ k \in 1..n
    OBVIOUS
  <1>4. \A k \in 1..n : k \notin s => g[k] = n + 1
    OBVIOUS
  <1> HIDE DEF g
  <1>5. PICK m \in 1..n : \A k \in 1..n : g[m] <= g[k]
    BY <1>2, Greatest
  <1>6. m \in s
    <2>1. g[m] <= g[x] /\ g[x] = x /\ x \in 1..n
      BY <1>1, <1>3, <1>5
    <2> QED
      BY <1>4, <2>1
  <1>7. \A y \in s : m <= y
    BY <1>3, <1>5, <1>6
  <1>8. /\ Viewer!Min(s) \in s
        /\ \A y \in s : Viewer!Min(s) <= y
    <2>1. Viewer!Min(s) = CHOOSE z \in s : \A y \in s : z <= y
      BY DEF Viewer!Min
    <2> QED
      BY <1>6, <1>7, <2>1
  <1> QED
    BY <1>8

\* The span that is selected at first is a failing one, or the first, or none.
LEMMA FirstFacts ==
    ASSUME Viewer!IsTrace(trace)
    PROVE  /\ Viewer!FirstSelected(trace.spans) \in Viewer!Spans \cup {0}
           /\ Viewer!FirstSelected(trace.spans) = 0 <=> trace.spans = <<>>
  <1> DEFINE failing == {j \in DOMAIN trace.spans : trace.spans[j].failed}
  <1>1. L \in Nat /\ Viewer!Spans = 1..L /\ DOMAIN trace.spans = 1..L
    BY TraceFacts DEF Viewer!Spans
  <1>2. trace.spans = <<>> <=> L = 0
    BY <1>1 DEF L, Viewer!IsTrace
  <1>3. CASE trace.spans = <<>>
    BY <1>3 DEF Viewer!FirstSelected
  <1>4. CASE trace.spans # <<>> /\ failing # {}
    <2>1. Viewer!FirstSelected(trace.spans) = Viewer!Min(failing)
      BY <1>4 DEF Viewer!FirstSelected
    <2>2. failing \in SUBSET (1..L)
      BY <1>1
    <2> HIDE DEF failing
    <2>3. Viewer!Min(failing) \in failing
      BY <1>1, <1>4, <2>2, MinFacts
    <2>4. Viewer!FirstSelected(trace.spans) \in 1..L
      BY <2>1, <2>2, <2>3
    <2>5. Viewer!FirstSelected(trace.spans) # 0
      BY <1>1, <2>4
    <2> QED
      BY <1>1, <1>4, <2>4, <2>5, Zenon
  <1>5. CASE trace.spans # <<>> /\ failing = {}
    <2>1. Viewer!FirstSelected(trace.spans) = 1
      BY <1>5 DEF Viewer!FirstSelected
    <2> QED
      BY <1>1, <1>2, <1>5, <2>1
  <1> QED
    BY <1>3, <1>4, <1>5

\* The first state of both pages.
LEMMA WebInitInvariant == WebInit => WebInv
  <1> SUFFICES ASSUME WebInit
               PROVE  WebInv
    OBVIOUS
  <1>1. Inv
    BY InitInvariant, HeaderInit DEF WebInit, Inv
  <1>2. ASSUME open = "trace"
        PROVE  ScreenInv
    <2>1. Viewer!Init
      BY <1>2 DEF WebInit
    <2>2. trace \in Loads /\ Viewer!IsTrace(trace)
      BY <2>1, LoadsAssumption DEF Viewer!Init
    <2>3. screen = [view |-> "timeline", selected |-> Viewer!FirstSelected(trace.spans), tab |-> "overview",
                    split |-> 50, dragging |-> FALSE, critical |-> FALSE, zoom |-> 4]
      BY <2>1 DEF Viewer!Init
    <2>4. /\ Viewer!FirstSelected(trace.spans) \in Viewer!Spans \cup {0}
          /\ Viewer!FirstSelected(trace.spans) = 0 <=> trace.spans = <<>>
      BY <2>2, FirstFacts
    <2>5. Viewer!FirstSelected(trace.spans) \in Nat
      BY <2>2, <2>4, TraceFacts
    <2>6. screen \in Screens
      <3>1. 50 \in 20..80 /\ 4 \in 2..12 /\ FALSE \in BOOLEAN /\ "timeline" \in Views /\ "overview" \in Tabs
        BY DEF Views, Tabs
      <3>2. ASSUME NEW n \in Nat
            PROVE  [view |-> "timeline", selected |-> n, tab |-> "overview", split |-> 50,
                    dragging |-> FALSE, critical |-> FALSE, zoom |-> 4] \in Screens
        BY <3>1, Zenon DEF Screens
      <3> QED
        BY <2>3, <2>5, <3>2
    <2>7. Viewer!TypeOK
      BY <2>3, <2>4 DEF Viewer!TypeOK
    <2> QED
      BY <2>2, <2>6, <2>7 DEF ScreenInv
  <1> QED
    BY <1>1, <1>2 DEF WebInv

\* What a click may do to the screen.
LEMMA ClickFacts ==
    ASSUME ScreenInv, Viewer!Next
    PROVE  /\ trace' = trace
           /\ \/ \E v \in {"timeline", "mindmap", "tree"} :
                    screen' = [screen EXCEPT !.view = v, !.critical = FALSE, !.zoom = 4]
              \/ \E i \in Viewer!Spans : screen' = [screen EXCEPT !.selected = i]
              \/ screen.view = "timeline" /\ screen' = [screen EXCEPT !.critical = ~screen.critical]
              \/ \E z \in 2..12 : screen' = [screen EXCEPT !.zoom = z]
              \/ \E t \in Tabs : screen' = [screen EXCEPT !.tab = t]
              \/ \E d \in BOOLEAN : screen' = [screen EXCEPT !.dragging = d]
              \/ \E p \in 20..80 : screen' = [screen EXCEPT !.split = p]
  <1>1. screen \in Screens
    BY DEF ScreenInv
  <1>2. ASSUME NEW v \in {"timeline", "mindmap", "tree"}, Viewer!SetActiveView(v)
        PROVE  trace' = trace /\ screen' = [screen EXCEPT !.view = v, !.critical = FALSE, !.zoom = 4]
    BY <1>1, <1>2 DEF Viewer!SetActiveView, Viewer!Click, Viewer!FreshTimeline, Screens
  <1>3. ASSUME NEW i \in Viewer!Spans, Viewer!SelectSpan(i)
        PROVE  trace' = trace /\ screen' = [screen EXCEPT !.selected = i]
    BY <1>3 DEF Viewer!SelectSpan, Viewer!Click
  <1>4. ASSUME Viewer!ToggleCriticalPath
        PROVE  /\ trace' = trace
               /\ screen.view = "timeline" /\ screen' = [screen EXCEPT !.critical = ~screen.critical]
    BY <1>4 DEF Viewer!ToggleCriticalPath, Viewer!Click
  <1>5. ASSUME Viewer!Zoom
        PROVE  trace' = trace /\ \E z \in 2..12 : screen' = [screen EXCEPT !.zoom = z]
    <2>1. screen.zoom \in 2..12
      BY <1>1 DEF Screens
    <2>2. Viewer!Min({12, screen.zoom + 1}) \in 2..12
      <3> DEFINE s == {12, screen.zoom + 1}
      <3>1. s \in SUBSET (1..13) /\ s # {} /\ 13 \in Nat
        BY <2>1
      <3>2. Viewer!Min(s) \in s /\ \A y \in s : Viewer!Min(s) <= y
        <4> HIDE DEF s
        <4> QED
          BY <3>1, MinFacts
      <3> QED
        BY <2>1, <3>2
    <2>3. Viewer!Bigger(2, screen.zoom - 1) \in 2..12
      BY <2>1 DEF Viewer!Bigger
    <2>4. trace' = trace
      BY <1>5 DEF Viewer!Zoom, Viewer!Click
    <2>5. \E z \in {Viewer!Bigger(2, screen.zoom - 1), Viewer!Min({12, screen.zoom + 1}), 4} :
             screen' = [screen EXCEPT !.zoom = z]
      BY <1>5 DEF Viewer!Zoom
    <2> QED
      BY <2>2, <2>3, <2>4, <2>5
  <1>6. ASSUME NEW t \in Tabs, Viewer!SetInspectorTab(t)
        PROVE  trace' = trace /\ screen' = [screen EXCEPT !.tab = t]
    BY <1>6 DEF Viewer!SetInspectorTab, Viewer!Click
  <1>7. ASSUME NEW p \in {10, 35, 90}, Viewer!Splitter(p)
        PROVE  /\ trace' = trace
               /\ \/ \E d \in BOOLEAN : screen' = [screen EXCEPT !.dragging = d]
                  \/ \E q \in 20..80 : screen' = [screen EXCEPT !.split = q]
    <2>1. trace' = trace
      BY <1>7 DEF Viewer!Splitter, Viewer!Click
    <2>2. \/ screen' = [screen EXCEPT !.dragging = TRUE]
          \/ screen' = [screen EXCEPT !.dragging = FALSE]
          \/ p \in 20..80 /\ screen' = [screen EXCEPT !.split = p]
          \/ screen' = [screen EXCEPT !.split = 50]
      <3>1. p >= 20 /\ p <= 80 => p \in 20..80
        OBVIOUS
      <3>2. \/ screen' = [screen EXCEPT !.dragging = TRUE]
            \/ screen' = [screen EXCEPT !.dragging = FALSE]
            \/ p >= 20 /\ p <= 80 /\ screen' = [screen EXCEPT !.split = p]
            \/ screen' = [screen EXCEPT !.split = 50]
        BY <1>7, Zenon DEF Viewer!Splitter
      <3> QED
        BY <3>1, <3>2, Zenon
    <2>3. 50 \in 20..80 /\ TRUE \in BOOLEAN /\ FALSE \in BOOLEAN
      OBVIOUS
    <2> QED
      BY <2>1, <2>2, <2>3, Zenon
  <1>8. CASE \E v \in {"timeline", "mindmap", "tree"} : Viewer!SetActiveView(v)
    BY <1>2, <1>8, Zenon
  <1>9. CASE \E i \in Viewer!Spans : Viewer!SelectSpan(i)
    BY <1>3, <1>9, Zenon
  <1>10. CASE Viewer!ToggleCriticalPath \/ Viewer!Zoom
    BY <1>4, <1>5, <1>10, Zenon
  <1>11. CASE \E t \in {"overview", "input", "output", "attributes", "events", "error"} : Viewer!SetInspectorTab(t)
    BY <1>6, <1>11, Zenon DEF Tabs
  <1>12. CASE \E p \in {10, 35, 90} : Viewer!Splitter(p)
    BY <1>7, <1>12, Zenon
  <1> QED
    BY <1>8, <1>9, <1>10, <1>11, <1>12, Zenon DEF Viewer!Next

\* A click keeps the shape of the screen.
LEMMA ClickStep == ScreenInv /\ Viewer!Next => ScreenInv'
  <1> SUFFICES ASSUME ScreenInv, Viewer!Next
               PROVE  ScreenInv'
    OBVIOUS
  <1>1. /\ screen \in Screens /\ screen.selected \in Viewer!Spans \cup {0}
        /\ screen.selected = 0 <=> trace.spans = <<>>
        /\ screen.view # "timeline" => ~screen.critical
    BY DEF ScreenInv, Viewer!TypeOK
  <1>2. trace' = trace
    BY ClickFacts
  <1>3. Viewer!Spans' = Viewer!Spans
    BY <1>2 DEF Viewer!Spans
  <1>4. Viewer!Spans \subseteq Nat /\ 0 \notin Viewer!Spans /\ (Viewer!Spans # {} => trace.spans # <<>>)
    BY TraceFacts DEF ScreenInv, Viewer!Spans
  <1> DEFINE Shape(s) == /\ s \in Screens /\ s.selected \in Viewer!Spans \cup {0}
                         /\ s.selected = 0 <=> trace.spans = <<>>
                         /\ s.view # "timeline" => ~s.critical
  <1>5. Shape(screen')
    <2>1. ASSUME NEW v \in {"timeline", "mindmap", "tree"},
                 screen' = [screen EXCEPT !.view = v, !.critical = FALSE, !.zoom = 4]
          PROVE  Shape(screen')
      <3>1. screen' \in Screens
        <4> DEFINE s == [screen EXCEPT !.view = v]
        <4>1. v \in Views
          BY DEF Views
        <4>2. s \in Screens
          BY <1>1, <4>1 DEF Screens
        <4> DEFINE t == [s EXCEPT !.critical = FALSE]
        <4> HIDE DEF s
        <4>3. t \in Screens
          BY <4>2 DEF Screens
        <4> HIDE DEF t
        <4>4. [t EXCEPT !.zoom = 4] \in Screens
          BY <4>3 DEF Screens
        <4> QED
          BY <2>1, <4>4 DEF s, t
      <3>2. screen'.selected = screen.selected /\ screen'.critical = FALSE
        BY <1>1, <2>1 DEF Screens
      <3> QED
        BY <1>1, <3>1, <3>2
    <2>2. ASSUME NEW i \in Viewer!Spans, screen' = [screen EXCEPT !.selected = i]
          PROVE  Shape(screen')
      BY <1>1, <1>4, <2>2 DEF Screens
    <2>3. ASSUME screen.view = "timeline", screen' = [screen EXCEPT !.critical = ~screen.critical]
          PROVE  Shape(screen')
      BY <1>1, <2>3 DEF Screens
    <2>4. ASSUME NEW z \in 2..12, screen' = [screen EXCEPT !.zoom = z]
          PROVE  Shape(screen')
      BY <1>1, <2>4 DEF Screens
    <2>5. ASSUME NEW t \in Tabs, screen' = [screen EXCEPT !.tab = t]
          PROVE  Shape(screen')
      BY <1>1, <2>5 DEF Screens
    <2>6. ASSUME NEW d \in BOOLEAN, screen' = [screen EXCEPT !.dragging = d]
          PROVE  Shape(screen')
      BY <1>1, <2>6 DEF Screens
    <2>7. ASSUME NEW p \in 20..80, screen' = [screen EXCEPT !.split = p]
          PROVE  Shape(screen')
      BY <1>1, <2>7 DEF Screens
    <2> HIDE DEF Shape
    <2> QED
      BY <2>1, <2>2, <2>3, <2>4, <2>5, <2>6, <2>7, ClickFacts
  <1>6. screen' \in Screens
    BY <1>5
  <1>7. screen'.zoom \in 2..12 /\ screen'.split \in 20..80
    BY <1>6 DEF Screens
  <1>8. Viewer!TypeOK'
    BY <1>2, <1>3, <1>5, <1>7 DEF Viewer!TypeOK
  <1>9. trace' \in Loads /\ Viewer!IsTrace(trace')
    BY <1>2 DEF ScreenInv
  <1> QED
    BY <1>6, <1>8, <1>9 DEF ScreenInv

\* A step of either page.
LEMMA WebStepInvariant == WebInv /\ [WebNext]_webVars => WebInv'
  <1> SUFFICES ASSUME WebInv, [WebNext]_webVars
               PROVE  WebInv'
    OBVIOUS
  <1>1. CASE open = "trace" /\ Viewer!Next /\ UNCHANGED <<open, vars>>
    <2>1. Inv'
      BY <1>1, StepInv DEF WebInv
    <2>2. ScreenInv'
      BY <1>1, ClickStep DEF WebInv
    <2> QED
      BY <2>1, <2>2 DEF WebInv
  <1>2. CASE \/ open = "settings" /\ Next /\ UNCHANGED <<open, viewerVars>>
             \/ UNCHANGED webVars
    <2>1. Inv'
      BY <1>2, StepInv DEF WebInv, webVars
    <2>2. open' = open /\ trace' = trace /\ screen' = screen /\ (open = "trace" => UNCHANGED webVars)
      BY <1>2 DEF webVars, viewerVars
    <2>3. ScreenInv => ScreenInv'
      BY <2>2 DEF ScreenInv, Viewer!TypeOK, Viewer!Spans
    <2> QED
      BY <2>1, <2>2, <2>3 DEF WebInv
  <1> QED
    BY <1>1, <1>2 DEF WebNext

\* The pages are what WebInv says in every state of every behaviour.
THEOREM WebInvariance == WebSpec => []WebInv
  <1> QED
    BY WebInitInvariant, WebStepInvariant, PTL DEF WebSpec

\* PagesTyped: the state of both pages has its shape, and a span is selected
\* whenever there is one (SettingsPage.tsx:61, TraceDetailPage.tsx:33).
THEOREM PagesAreTyped == WebSpec => []PagesTyped
  <1>1. WebInv => PagesTyped
    BY DEF WebInv, ScreenInv, Inv, IndInv, HeaderInv, TypeOK, PagesTyped
  <1> QED
    BY <1>1, WebInvariance, PTL

\* RowsComplete: whatever hierarchy a trace has, its timeline has a row for
\* every span, the tree one for every span whose ancestors end, the mind map
\* shows what is below the first root and hangs only where there is none, spans
\* are indented by their ancestors and stand with those they are below, and
\* bars leave the timeline only for the reasons there are
\* (TraceTimeline.tsx:50, 55 and 206, SpanTree.tsx:69, TraceMindMap.tsx:32).
THEOREM RowsAreComplete == WebSpec => []RowsComplete
  <1>1. WebInv => RowsComplete
    BY RowsHold, BarsHold DEF WebInv, ScreenInv, RowsComplete, TraceOpened
  <1> QED
    BY <1>1, WebInvariance, PTL

\* TotalsBounded: the tree and the inspector never show more than the spans
\* below used, nor nothing for something, and the detail page and the
\* comparison show the same spend (SpanTree.tsx:32, SpanInspector.tsx:53,
\* TraceDetailPage.tsx:235, TraceComparisonModal.tsx:39).
THEOREM TotalsAreBounded == WebSpec => []TotalsBounded
  <1>1. WebInv => TotalsBounded
    BY TotalsHold, SpendHolds DEF WebInv, ScreenInv, TotalsBounded, TraceOpened
  <1> QED
    BY <1>1, WebInvariance, PTL

\* What is true of the settings page stays true beside the other one:
\* MoneyExplained, CatalogExplained and KeysKept (App.tsx:376-493).
THEOREM SettingsStayCorrect == WebSpec => [](MoneyExplained /\ CatalogExplained /\ KeysKept)
  <1>1. WebInv => MoneyExplained /\ CatalogExplained /\ KeysKept
    BY MoneyFollows, CatalogFollows, KeysFollow DEF WebInv, Inv
  <1> QED
    BY <1>1, WebInvariance, PTL

\* Viewer!RowsComplete, Viewer!BarsFit, Viewer!TotalsBounded and
\* Viewer!SpendAgrees hold of the trace page after any clicks: it is enough to
\* check them before the first one (TraceDetailPage.tsx:282-351).
THEOREM ViewsStayCorrect ==
    WebSpec => [](open = "trace" => /\ Viewer!RowsComplete /\ Viewer!BarsFit
                                    /\ Viewer!TotalsBounded /\ Viewer!SpendAgrees)
  <1>1. WebInv => (open = "trace" => /\ Viewer!RowsComplete /\ Viewer!BarsFit
                                     /\ Viewer!TotalsBounded /\ Viewer!SpendAgrees)
    BY RowsHold, BarsHold, TotalsHold, SpendHolds DEF WebInv, ScreenInv
  <1> QED
    BY <1>1, WebInvariance, PTL
=============================================================================
