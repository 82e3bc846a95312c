---------------------------- MODULE HTTPExporter ----------------------------
(***************************************************************************)
(* One call of export_batch() on what AsyncExporter hands its batches to:  *)
(* an HTTPExporter, or a CompositeExporter over several of them.           *)
(*                                                                         *)
(* The batch is the traces 1..BatchLen. Each destination groups it by the  *)
(* credentials a trace is sent with and posts one group after another,     *)
(* retrying. urlopen raises HTTPError for every status outside 2xx, so an  *)
(* attempt ends in one of the ways the five Attempt actions list.          *)
(***************************************************************************)
EXTENDS Integers, FiniteSets

CONSTANTS
    BatchLen,      \* traces in the batch
    Creds,         \* (api_key, workspace_id) pairs
    NoCred,        \* a trace that names none in its metadata
    Destinations,  \* how many exporters: children are 1..Destinations
    Composite,     \* whether a CompositeExporter holds them
    MaxRetries     \* max_retries

ASSUME ExporterAssumption ==
    /\ BatchLen \in Nat \ {0} /\ Destinations \in Nat \ {0} /\ MaxRetries \in Nat
    /\ NoCred \notin Creds
    /\ Composite \in BOOLEAN /\ (~Composite => Destinations = 1)

VARIABLES
    own,        \* per trace: the credentials in its metadata, or NoCred
    default,    \* per destination: self.api_key, self.workspace_id
    valid,      \* credentials the servers accept
    dest,       \* the child exporter at work
    todo,       \* its traces whose group has not been answered
    attempt,    \* the loop variable of _send_payload
    outcome,    \* per destination: how its export_batch ended
    result,     \* how the whole call ended
    \* History:
    requests,   \* per destination: requests sent
    processed,  \* per destination and trace: times a server took it in
    unheard,    \* of those, the times no answer came back
    refused     \* per destination and trace: times answered with a client error

config == <<own, default>>
history == <<requests, processed, unheard, refused>>
vars == <<config, valid, dest, todo, attempt, outcome, result, history>>

Traces == 1..BatchLen
Dests == 1..Destinations

Cred(d, t) == IF own[t] # NoCred THEN own[t] ELSE default[d]

\* A dict keeps insertion order: the next group is that of the first trace
\* left, with every trace sent under the same credentials.
First == CHOOSE t \in todo : \A u \in todo : t <= u
SameGroup(t) == Cred(dest, t) = Cred(dest, First)
Group == {t \in todo : SameGroup(t)}
LaterGroups == todo \ Group

Zero == [d \in Dests |-> [t \in Traces |-> 0]]

Init ==
    /\ own \in [Traces -> Creds \cup {NoCred}]
    /\ default \in [Dests -> Creds]
    /\ valid \in SUBSET Creds
    /\ dest = 1 /\ todo = Traces /\ attempt = 0
    /\ outcome = [d \in Dests |-> "none"] /\ result = "none"
    /\ requests = [d \in Dests |-> 0]
    /\ processed = Zero /\ unheard = Zero /\ refused = Zero

-----------------------------------------------------------------------------

\* The group's traces counted once more in a table of the destination.
Counted(table) ==
    [table EXCEPT ![dest] = [t \in Traces |-> @[t] + (IF t \in Group THEN 1 ELSE 0)]]

\* export_batch of the child at work returns or raises. A CompositeExporter
\* swallows what a child raises and goes on with the next.
ChildEnds(how) ==
    /\ outcome' = [outcome EXCEPT ![dest] = how]
    /\ attempt' = 0
    /\ IF dest < Destinations
         THEN dest' = dest + 1 /\ todo' = Traces /\ UNCHANGED result
         ELSE /\ result' = IF Composite \/ how = "ok" THEN "returned" ELSE "raised"
              /\ UNCHANGED <<dest, todo>>

\* Succeeds: only the first trace of the group is taken off. (Faulty variant.)
SucceedsForHead ==
    IF todo = {First}
      THEN ChildEnds("ok")
      ELSE todo' = todo \ {First} /\ attempt' = 0 /\ UNCHANGED <<dest, outcome, result>>

\* A status in (200, 201, 202): _send_payload returns.
Succeeds ==
    IF LaterGroups = {}
      THEN ChildEnds("ok")
      ELSE todo' = LaterGroups /\ attempt' = 0 /\ UNCHANGED <<dest, outcome, result>>

\* Fails: `attempt > max_retries`. (Faulty variant.)
FailsOneLate ==
    IF attempt > MaxRetries
      THEN ChildEnds("failed")
      ELSE attempt' = attempt + 1 /\ UNCHANGED <<dest, todo, outcome, result>>

\* Fails: a group that failed is given up, and the next one sent. (Faulty
\* variant.)
FailsGoesOn ==
    IF attempt < MaxRetries
      THEN attempt' = attempt + 1 /\ UNCHANGED <<dest, todo, outcome, result>>
      ELSE IF LaterGroups = {}
             THEN ChildEnds("failed")
             ELSE todo' = LaterGroups /\ attempt' = 0 /\ UNCHANGED <<dest, outcome, result>>

\* The except clause: raise after the last attempt, or back off and go round.
Fails ==
    IF attempt = MaxRetries
      THEN ChildEnds("failed")
      ELSE attempt' = attempt + 1 /\ UNCHANGED <<dest, todo, outcome, result>>

\* Sends: a lock around the request, not given back by one that fails.
\* (Faulty variant.)
SendsLocked ==
    /\ result = "none" /\ attempt = 0
    /\ requests' = [requests EXCEPT ![dest] = @ + 1]
    /\ UNCHANGED <<config, valid>>

\* One round of the loop posts the group.
Sends ==
    /\ result = "none"
    /\ requests' = [requests EXCEPT ![dest] = @ + 1]
    /\ UNCHANGED <<config, valid>>

\* get_current_project finds the key, not revoked, with its workspace.
Accepts == Cred(dest, First) \in valid

-----------------------------------------------------------------------------
(* The ways an attempt can go.                                             *)

AttemptAccepted ==
    /\ Sends /\ Accepts
    /\ processed' = Counted(processed)
    /\ UNCHANGED <<unheard, refused>>
    /\ Succeeds

\* The server took the group in and the answer did not come in time.
AttemptUnheard ==
    /\ Sends /\ Accepts
    /\ processed' = Counted(processed) /\ unheard' = Counted(unheard)
    /\ UNCHANGED refused
    /\ Fails

\* 401 for the key: HTTPError, which the except clause does not tell from a
\* server that is down.
AttemptRefused ==
    /\ Sends /\ ~Accepts
    /\ refused' = Counted(refused)
    /\ UNCHANGED <<processed, unheard>>
    /\ Fails

\* URLError, a timeout before the server read it, a status of 5xx or 429.
AttemptUnavailable ==
    /\ Sends
    /\ UNCHANGED <<processed, unheard, refused>>
    /\ Fails

\* The connection breaks while urlopen reads the answer: an OSError that is
\* none of the four caught, so it leaves _send_payload at once.
AttemptDisconnected ==
    /\ Sends
    /\ \/ Accepts /\ processed' = Counted(processed) /\ unheard' = Counted(unheard)
       \/ UNCHANGED <<processed, unheard>>
    /\ UNCHANGED refused
    /\ ChildEnds("failed")

\* A workspace is deleted on the servers, and its keys with it.
KeyDeleted(c) ==
    /\ result = "none"
    /\ c \in valid
    /\ valid' = valid \ {c}
    /\ UNCHANGED <<config, dest, todo, attempt, outcome, result, history>>

Attempt ==
    \/ AttemptAccepted \/ AttemptUnheard \/ AttemptRefused
    \/ AttemptUnavailable \/ AttemptDisconnected

Next == Attempt \/ \E c \in Creds : KeyDeleted(c)

Spec == Init /\ [][Next]_vars

\* urlopen has a timeout and time.sleep ends.
FairSpec == Spec /\ WF_vars(Attempt)

-----------------------------------------------------------------------------
(* Properties.                                                             *)

TypeOK ==
    /\ own \in [Traces -> Creds \cup {NoCred}] /\ default \in [Dests -> Creds]
    /\ valid \subseteq Creds
    /\ dest \in Dests /\ attempt \in 0..MaxRetries
    /\ todo \subseteq Traces /\ todo # {}
    /\ outcome \in [Dests -> {"none", "ok", "failed"}]
    /\ result \in {"none", "returned", "raised"}
    /\ requests \in [Dests -> Nat]
    /\ \A table \in {processed, unheard, refused} :
          table \in [Dests -> [Traces -> Nat]]

\* An exporter whose export_batch did not raise has delivered every trace of
\* the batch: what AsyncExporter counts as exported, for a single exporter.
OkMeansDelivered ==
    \A d \in Dests : outcome[d] = "ok" => \A t \in Traces : processed[d][t] > 0

\* A server takes a trace in a second time, or refuses one it has taken in,
\* only after an answer was lost: a retry repeats no group whose acceptance
\* was heard, and no group but its own.  (What was heard to be refused is
\* repeated: see ClientErrorsFinal.)
DuplicatesExplained ==
    \A d \in Dests, t \in Traces :
        /\ processed[d][t] <= 1 + unheard[d][t]
        /\ processed[d][t] > 0 /\ refused[d][t] > 0 => unheard[d][t] > 0

\* A failing group stops those behind it and only those: what was delivered
\* of a batch is a prefix of its groups, whichever attempts failed.
GroupStart(d, t) ==
    CHOOSE u \in Traces : /\ Cred(d, u) = Cred(d, t)
                          /\ \A v \in Traces : Cred(d, v) = Cred(d, t) => u <= v
DeliveredPrefix ==
    \A d \in Dests, t, u \in Traces :
        GroupStart(d, t) <= GroupStart(d, u) /\ processed[d][u] > 0
            => processed[d][t] > 0

\* A call sends at most 1 + max_retries requests for each group, which is
\* what bounds the time shutdown() may have to wait for the worker.
NumGroups(d) == Cardinality({Cred(d, t) : t \in Traces})
RequestsBounded ==
    \A d \in Dests : requests[d] <= NumGroups(d) * (MaxRetries + 1)

\* A CompositeExporter's call never raises, and it returns after every child
\* was given the batch, whatever happened to the children before.
CompositeIsolates ==
    /\ Composite => result # "raised"
    /\ result = "returned" => \A d \in Dests : outcome[d] # "none"

\* What a call has delivered by the time it returns or raises, to one
\* destination and to several.  (export_batch, http.py:105, base.py:58.)
DeliveryExplained == OkMeansDelivered /\ DeliveredPrefix /\ CompositeIsolates

\* What a call makes the servers take in again, and how many requests it
\* sends for that or for nothing.  (_send_payload, http.py:73-89.)
RepeatsExplained == DuplicatesExplained /\ RequestsBounded

\* "Non-retryable client error" (http.py:80): a group that was answered with
\* a client error is not sent again.  The exception the answer raises is one
\* of those the loop catches, so the code does send it again.
ClientErrorsFinal == \A d \in Dests, t \in Traces : refused[d][t] <= 1

\* A call ends, so AsyncExporter's worker is never stuck in one.
CallEnds == <>(result # "none")

=============================================================================
