---------------------------- MODULE TraceChannel ----------------------------
(***************************************************************************)
(* What the SDK's background exporter promises the application, with no    *)
(* queue, batch, pill or counter in sight: accepted traces are handed to   *)
(* the inner exporter in the order they were accepted, each one once; a    *)
(* flush or shutdown call gets past its wait only when everything accepted *)
(* before the call has been handed over; and the channel closes only when  *)
(* everything accepted before it was sealed has been handed over.          *)
(*                                                                         *)
(* The k-th accepted trace is named k, so "1..handed have been handed      *)
(* over" says both that the order is kept and that none is repeated.       *)
(***************************************************************************)
EXTENDS Integers

CONSTANTS Callers,   \* the threads that call flush() and shutdown()
          Capacity   \* how many traces may be held; 0 means without bound

VARIABLES accepted,  \* traces accepted so far
          handed,    \* traces 1..handed were given to the inner exporter
          promise,   \* per caller: how many traces its wait covers, or Idle
          sealed,    \* how many traces were accepted when sealed, or Unsealed
          open       \* FALSE once nothing will be handed over any more

chanVars == <<accepted, handed, promise, sealed, open>>

Idle == -1
Unsealed == -1

ChanInit ==
    /\ accepted = 0
    /\ handed = 0
    /\ promise = [c \in Callers |-> Idle]
    /\ sealed = Unsealed
    /\ open = TRUE

Accept ==
    /\ Capacity > 0 => accepted - handed < Capacity
    /\ accepted' = accepted + 1
    /\ UNCHANGED <<handed, promise, sealed, open>>

HandOver ==
    /\ open
    /\ handed' \in (handed + 1)..accepted
    /\ UNCHANGED <<accepted, promise, sealed, open>>

BeginWait(c) ==
    /\ promise[c] = Idle
    /\ promise' = [promise EXCEPT ![c] = accepted]
    /\ UNCHANGED <<accepted, handed, sealed, open>>

EndWait(c) ==
    /\ promise[c] # Idle
    /\ handed >= promise[c]
    /\ promise' = [promise EXCEPT ![c] = Idle]
    /\ UNCHANGED <<accepted, handed, sealed, open>>

Seal ==
    /\ sealed = Unsealed
    /\ sealed' = accepted
    /\ UNCHANGED <<accepted, handed, promise, open>>

Close ==
    /\ open
    /\ sealed # Unsealed
    /\ handed >= sealed
    /\ open' = FALSE
    /\ UNCHANGED <<accepted, handed, promise, sealed>>

ChanNext ==
    \/ Accept
    \/ HandOver
    \/ \E c \in Callers : BeginWait(c) \/ EndWait(c)
    \/ Seal
    \/ Close

ChanSpec == ChanInit /\ [][ChanNext]_chanVars
=============================================================================
