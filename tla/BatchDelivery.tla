---------------------------- MODULE BatchDelivery ----------------------------
(***************************************************************************)
(* What the server promises the clients whose batches it accepted, with no *)
(* queue, worker, process, outage or lookup in sight.  A batch is under    *)
(* way in one copy, or in two when Redis stored it without saying so, and  *)
(* every copy comes to one end: its rows are written, all of them in one   *)
(* step, or it is refused, or lost.  A copy never comes back and none is   *)
(* made later, so a batch is written at most twice, and what has no copy   *)
(* under way is settled for good.                                          *)
(***************************************************************************)
EXTENDS Integers, Sequences

CONSTANTS
    TraceIds,
    Batches,      \* the batches clients may send: sequences of [id, ver, ...]
    MaxIngests    \* bound: batches in a behaviour

VARIABLES
    batches,   \* the batches accepted, in order
    copies,    \* per batch: how many copies are under way
    fates,     \* per batch: the ends its copies came to
    rows       \* the traces table: the version of each trace's status, 0 for no row

deliveryVars == <<batches, copies, fates, rows>>

Accepted == 1..Len(batches)
Ids(n) == {batches[n][i].id : i \in DOMAIN batches[n]}

\* The version of x in the last snapshot of x in batch n.
LastVersion(n, x) ==
    LET last == CHOOSE i \in DOMAIN batches[n] :
            /\ batches[n][i].id = x
            /\ \A j \in DOMAIN batches[n] : batches[n][j].id = x => j <= i
    IN  batches[n][last].ver

\* Version v of x is in a batch that was written.
Written(x, v) ==
    \E n \in Accepted : /\ "committed" \in fates[n]
                        /\ \E i \in DOMAIN batches[n] : batches[n][i].id = x /\ batches[n][i].ver = v

DeliveryInit ==
    /\ batches = <<>>
    /\ copies = [n \in 1..MaxIngests |-> 0]
    /\ fates = [n \in 1..MaxIngests |-> {}]
    /\ rows = [x \in TraceIds |-> 0]

\* k copies get under way; where the memory queue was full, one fewer than
\* without it, and that is recorded.
Accept(b, k) ==
    /\ Len(batches) < MaxIngests
    /\ batches' = Append(batches, b)
    /\ copies' = [copies EXCEPT ![Len(batches) + 1] = k]
    /\ \/ k \in {1, 2} /\ UNCHANGED fates
       \/ k \in {0, 1} /\ fates' = [fates EXCEPT ![Len(batches) + 1] = {"queueFull"}]
    /\ UNCHANGED rows

Arrives(n, fate) ==
    /\ copies[n] > 0
    /\ copies' = [copies EXCEPT ![n] = @ - 1]
    /\ fates' = [fates EXCEPT ![n] = @ \cup {fate}]
    /\ UNCHANGED batches

\* The traces xs of the batch get the version it has for them; any other
\* trace of it is left alone, for it was written in that version before.
Deliver(n, xs) ==
    /\ Arrives(n, "committed")
    /\ \A x \in Ids(n) \ xs : Written(x, LastVersion(n, x))
    /\ rows' = [x \in TraceIds |-> IF x \in xs THEN LastVersion(n, x) ELSE rows[x]]

Refuse(n) ==
    /\ \E fate \in {"conflict", "dbError", "lostInPop"} : Arrives(n, fate)
    /\ UNCHANGED rows

\* A process ends, and any copies with it.
Lose(lost, fate) ==
    /\ \A n \in DOMAIN copies : copies[n] >= lost[n]
    /\ copies' = [n \in DOMAIN copies |-> copies[n] - lost[n]]
    /\ fates' = [n \in DOMAIN fates |-> IF lost[n] > 0 THEN fates[n] \cup {fate} ELSE fates[n]]
    /\ UNCHANGED <<batches, rows>>

Delete(ids) ==
    /\ rows' = [x \in TraceIds |-> IF x \in ids THEN 0 ELSE rows[x]]
    /\ UNCHANGED <<batches, copies, fates>>

DeliveryNext ==
    \/ \E b \in Batches, k \in 0..2 : Accept(b, k)
    \/ \E n \in Accepted : Refuse(n) \/ \E xs \in SUBSET Ids(n) : Deliver(n, xs)
    \/ \E lost \in [1..MaxIngests -> 0..2], fate \in {"crash", "exit"} : Lose(lost, fate)
    \/ \E ids \in SUBSET TraceIds : Delete(ids)

DeliverySpec == DeliveryInit /\ [][DeliveryNext]_deliveryVars
=============================================================================
