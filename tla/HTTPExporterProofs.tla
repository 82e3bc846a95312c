------------------------- MODULE HTTPExporterProofs -------------------------
(***************************************************************************)
(* Proofs about HTTPExporter, for every batch, any credentials, any number *)
(* of destinations and of retries.                                         *)
(***************************************************************************)
EXTENDS HTTPExporter, WellFoundedInduction, FiniteSetTheorems, TLAPS

-----------------------------------------------------------------------------
(* The inductive invariant.                                                *)

\* The groups of credentials a destination has answered.
Answered == {Cred(dest, t) : t \in Traces \ todo}

\* The children before the one at work have ended, those behind it have sent
\* nothing; the call ends with the last one, and a CompositeExporter's never
\* raises.
Progress ==
    /\ \A d \in Dests : d > dest =>
          /\ outcome[d] = "none" /\ requests[d] = 0
          /\ \A t \in Traces : processed[d][t] = 0 /\ unheard[d][t] = 0 /\ refused[d][t] = 0
    /\ \A d \in Dests : d < dest => outcome[d] # "none"
    /\ result = "none" <=> outcome[dest] = "none"
    /\ result # "none" => dest = Destinations
    /\ Composite => result # "raised"

\* What is left are whole groups, each of which starts behind those done.
WholeGroupsLeft ==
    \A t \in todo, u \in Traces :
        /\ Cred(dest, u) = Cred(dest, t) => u \in todo
        /\ u \notin todo => GroupStart(dest, u) < GroupStart(dest, t)

\* What the tables say of a trace that was answered, of one whose turn has
\* not come, and of the group that is being sent.
TablesFollow ==
    result = "none" =>
        /\ \A t \in Traces \ todo : processed[dest][t] > 0
        /\ \A t \in LaterGroups :
              processed[dest][t] = 0 /\ unheard[dest][t] = 0 /\ refused[dest][t] = 0
        /\ \A t \in Group :
              /\ processed[dest][t] = unheard[dest][t]
              /\ processed[dest][t] = processed[dest][First]
              /\ refused[dest][t] > 0 => ~Accepts

\* The requests of the destination at work: those of the groups answered, and
\* the attempts at the one being sent.
RequestsCounted ==
    result = "none" =>
        requests[dest] <= Cardinality(Answered) * (MaxRetries + 1) + attempt

IndInv ==
    /\ TypeOK /\ Progress /\ WholeGroupsLeft /\ TablesFollow /\ RequestsCounted
    /\ OkMeansDelivered /\ DeliveredPrefix /\ DuplicatesExplained /\ RequestsBounded

-----------------------------------------------------------------------------
(* Groups.                                                                 *)

\* A set of traces that is not empty has a first one.
LEMMA FirstOf ==
    ASSUME NEW S, S \subseteq Traces, S # {}
    PROVE  \E t \in S : \A u \in S : t <= u
  <1>1. S \subseteq Nat
    BY ExporterAssumption DEF Traces
  <1>2. PICK t \in S : \A u \in S : ~ (<<u, t>> \in OpToRel(<, Nat))
    BY <1>1, WFMin, NatLessThanWellFounded, Zenon
  <1>3. \A u \in S : ~ (u < t)
    BY <1>1, <1>2 DEF OpToRel
  <1> QED
    BY <1>1, <1>3

\* What the first trace left is, and the group that is being sent.
FirstGroup ==
    /\ First \in todo /\ First \in Traces /\ First \in Group
    /\ \A u \in todo : First <= u
    /\ Group \subseteq todo /\ todo \subseteq Traces /\ Traces \subseteq Nat
    /\ LaterGroups \subseteq todo /\ todo = Group \cup LaterGroups
    /\ \A t \in todo : t \in Group <=> Cred(dest, t) = Cred(dest, First)

\* While something is left there is a first trace, in the group being sent.
LEMMA FirstFacts == TypeOK => FirstGroup
  <1> SUFFICES ASSUME TypeOK
               PROVE  FirstGroup
    OBVIOUS
  <1>1. todo \subseteq Traces /\ todo # {} /\ Traces \subseteq Nat
    BY ExporterAssumption DEF TypeOK, Traces
  <1>2. \E t \in todo : \A u \in todo : t <= u
    BY <1>1, FirstOf
  <1>3. First \in todo /\ \A u \in todo : First <= u
    BY <1>2 DEF First
  <1> QED
    BY <1>1, <1>3 DEF FirstGroup, Group, SameGroup, LaterGroups

\* A group starts with its first trace, and traces of one group start alike.
LEMMA GroupStartFacts ==
    ASSUME NEW d, NEW t \in Traces
    PROVE  /\ GroupStart(d, t) \in Traces /\ GroupStart(d, t) \in Nat
           /\ Cred(d, GroupStart(d, t)) = Cred(d, t)
           /\ \A v \in Traces : Cred(d, v) = Cred(d, t) =>
                 GroupStart(d, t) <= v /\ GroupStart(d, v) = GroupStart(d, t)
  <1> DEFINE S == {u \in Traces : Cred(d, u) = Cred(d, t)}
  <1>1. \E u \in S : \A v \in S : u <= v
    BY FirstOf
  <1>2. \E u \in Traces : Cred(d, u) = Cred(d, t) /\ \A v \in Traces : Cred(d, v) = Cred(d, t) => u <= v
    BY <1>1
  <1>3. /\ GroupStart(d, t) \in Traces /\ Cred(d, GroupStart(d, t)) = Cred(d, t)
        /\ \A v \in Traces : Cred(d, v) = Cred(d, t) => GroupStart(d, t) <= v
    BY <1>2 DEF GroupStart
  <1>4. \A v \in Traces : Cred(d, v) = Cred(d, t) => GroupStart(d, v) = GroupStart(d, t)
    BY DEF GroupStart
  <1> QED
    BY <1>3, <1>4, ExporterAssumption DEF Traces

\* Of whole groups that are left, the one being sent starts with the first
\* trace, and the others start behind it.
LEMMA GroupsLeft ==
    ASSUME TypeOK, WholeGroupsLeft
    PROVE  /\ \A t \in Group : GroupStart(dest, t) = First
           /\ \A t \in LaterGroups : First < GroupStart(dest, t)
  <1>1. ASSUME NEW t \in todo
        PROVE  GroupStart(dest, t) \in todo /\ First <= GroupStart(dest, t)
               /\ Cred(dest, GroupStart(dest, t)) = Cred(dest, t)
    BY FirstFacts, GroupStartFacts DEF WholeGroupsLeft, FirstGroup
  <1>2. ASSUME NEW t \in Group
        PROVE  GroupStart(dest, t) = First
    <2>1. t \in todo /\ t \in Traces /\ Cred(dest, First) = Cred(dest, t) /\ First \in Traces
      BY FirstFacts DEF FirstGroup
    <2>2. GroupStart(dest, t) <= First /\ First <= GroupStart(dest, t)
      BY <1>1, <2>1, GroupStartFacts
    <2> QED
      BY <2>1, <2>2, FirstFacts, GroupStartFacts DEF FirstGroup
  <1>3. ASSUME NEW t \in LaterGroups
        PROVE  First < GroupStart(dest, t)
    <2>1. t \in todo /\ t \in Traces /\ Cred(dest, First) # Cred(dest, t) /\ First \in Nat
      BY FirstFacts DEF FirstGroup, LaterGroups, Group
    <2>2. GroupStart(dest, t) # First /\ GroupStart(dest, t) \in Nat
      BY <1>1, <2>1, GroupStartFacts
    <2> QED
      BY <1>1, <2>1, <2>2
  <1> QED
    BY <1>2, <1>3

-----------------------------------------------------------------------------
(* What an attempt does.                                                   *)

\* The tables after an attempt that the server took in p times, left
\* unanswered u times and refused r times.
TablesAfter(p, u, r) ==
    /\ \A d \in Dests \ {dest} :
          processed'[d] = processed[d] /\ unheard'[d] = unheard[d] /\ refused'[d] = refused[d]
    /\ \A t \in Traces :
          /\ processed'[dest][t] = processed[dest][t] + (IF t \in Group THEN p ELSE 0)
          /\ unheard'[dest][t] = unheard[dest][t] + (IF t \in Group THEN u ELSE 0)
          /\ refused'[dest][t] = refused[dest][t] + (IF t \in Group THEN r ELSE 0)
    /\ \A table \in {processed', unheard', refused'} : table \in [Dests -> [Traces -> Nat]]

\* The next group is sent, ...
GoesOn == todo' = LaterGroups /\ LaterGroups # {} /\ attempt' = 0 /\ UNCHANGED <<dest, outcome, result>>

\* ... or this one again.
TriesAgain == attempt # MaxRetries /\ attempt' = attempt + 1 /\ UNCHANGED <<dest, todo, outcome, result>>

\* Counting the group once more adds one to its traces.
LEMMA CountedFacts ==
    ASSUME TypeOK, NEW table \in [Dests -> [Traces -> Nat]]
    PROVE  /\ Counted(table) \in [Dests -> [Traces -> Nat]]
           /\ \A d \in Dests \ {dest} : Counted(table)[d] = table[d]
           /\ \A t \in Traces : Counted(table)[dest][t] = table[dest][t] + (IF t \in Group THEN 1 ELSE 0)
  <1> DEFINE row == [t \in Traces |-> table[dest][t] + (IF t \in Group THEN 1 ELSE 0)]
  <1>1. dest \in Dests /\ table[dest] \in [Traces -> Nat]
    BY DEF TypeOK
  <1>2. row \in [Traces -> Nat]
    BY <1>1
  <1>3. Counted(table) = [table EXCEPT ![dest] = row]
    BY DEF Counted
  <1> HIDE DEF row
  <1>4. Counted(table) \in [Dests -> [Traces -> Nat]] /\ Counted(table)[dest] = row
        /\ \A d \in Dests \ {dest} : Counted(table)[d] = table[d]
    BY <1>1, <1>2, <1>3
  <1> QED
    BY <1>4 DEF row

\* Every way an attempt can go, in one form.
Went(p, u, r) ==
    /\ result = "none" /\ requests' = [requests EXCEPT ![dest] = @ + 1]
    /\ UNCHANGED <<config, valid>>
    /\ TablesAfter(p, u, r)
    /\ p = 1 => Accepts
    /\ r = 1 => ~Accepts /\ p = 0
    /\ \/ p = 1 /\ u = 0 /\ GoesOn
       \/ p = 1 /\ u = 0 /\ LaterGroups = {} /\ ChildEnds("ok")
       \/ p = u /\ TriesAgain
       \/ p = u /\ ChildEnds("failed")

\* The five attempts, and the deletion of a key, are all the steps.
LEMMA StepKinds ==
    ASSUME TypeOK, [Next]_vars
    PROVE  \/ \E p, u, r \in {0, 1} : Went(p, u, r)
           \/ \E c \in Creds : KeyDeleted(c)
           \/ UNCHANGED vars
  <1>1. /\ processed \in [Dests -> [Traces -> Nat]] /\ unheard \in [Dests -> [Traces -> Nat]]
        /\ refused \in [Dests -> [Traces -> Nat]] /\ dest \in Dests
    BY DEF TypeOK
  <1>2. \A table \in [Dests -> [Traces -> Nat]] : \A t \in Traces :
           table[dest][t] \in Nat
    BY <1>1
  <1>3. Sends => /\ result = "none" /\ requests' = [requests EXCEPT ![dest] = @ + 1]
                 /\ UNCHANGED <<config, valid>>
    BY DEF Sends
  <1>4. Fails => TriesAgain \/ ChildEnds("failed")
    BY DEF Fails, TriesAgain
  <1>5. Succeeds => GoesOn \/ (LaterGroups = {} /\ ChildEnds("ok"))
    BY DEF Succeeds, GoesOn
  <1>6. processed' = Counted(processed) /\ UNCHANGED <<unheard, refused>> => TablesAfter(1, 0, 0)
    BY <1>1, <1>2, CountedFacts DEF TablesAfter
  <1>7. processed' = Counted(processed) /\ unheard' = Counted(unheard) /\ UNCHANGED refused
        => TablesAfter(1, 1, 0)
    BY <1>1, <1>2, CountedFacts DEF TablesAfter
  <1>8. refused' = Counted(refused) /\ UNCHANGED <<processed, unheard>> => TablesAfter(0, 0, 1)
    BY <1>1, <1>2, CountedFacts DEF TablesAfter
  <1>9. UNCHANGED <<processed, unheard, refused>> => TablesAfter(0, 0, 0)
    BY <1>1, <1>2 DEF TablesAfter
  <1>10. AttemptAccepted => Went(1, 0, 0)
    BY <1>3, <1>5, <1>6 DEF AttemptAccepted, Went
  <1>11. AttemptUnheard => Went(1, 1, 0)
    BY <1>3, <1>4, <1>7 DEF AttemptUnheard, Went
  <1>12. AttemptRefused => Went(0, 0, 1)
    BY <1>3, <1>4, <1>8 DEF AttemptRefused, Went
  <1>13. AttemptUnavailable => Went(0, 0, 0)
    BY <1>3, <1>4, <1>9 DEF AttemptUnavailable, Went
  <1>14. AttemptDisconnected => Went(1, 1, 0) \/ Went(0, 0, 0)
    BY <1>3, <1>7, <1>9 DEF AttemptDisconnected, Went
  <1> QED
    BY <1>10, <1>11, <1>12, <1>13, <1>14 DEF Next, Attempt

-----------------------------------------------------------------------------
(* Types and the progress of the call.                                     *)

\* The credentials a trace is sent with, and so its group, never change.
LEMMA ConfigKept ==
    ASSUME UNCHANGED config
    PROVE  \A d, t : Cred(d, t)' = Cred(d, t) /\ GroupStart(d, t)' = GroupStart(d, t)
  <1>1. \A d, t : Cred(d, t)' = Cred(d, t)
    BY DEF Cred, config
  <1> QED
    BY <1>1 DEF GroupStart

\* A step that is no attempt: everything but the valid credentials stays.
LEMMA StillFacts ==
    ASSUME (\E c \in Creds : KeyDeleted(c)) \/ UNCHANGED vars
    PROVE  /\ UNCHANGED <<config, dest, todo, attempt, outcome, result, history>>
           /\ valid' \subseteq valid
  BY DEF KeyDeleted, vars

\* Every step preserves the types.
LEMMA TypeStep == TypeOK /\ [Next]_vars => TypeOK'
  <1> SUFFICES ASSUME TypeOK, [Next]_vars
               PROVE  TypeOK'
    OBVIOUS
  <1>0. /\ dest \in Dests /\ MaxRetries \in Nat /\ Destinations \in Nat \ {0} /\ BatchLen \in Nat \ {0}
        /\ attempt \in 0..MaxRetries /\ todo \subseteq Traces /\ todo # {}
        /\ outcome \in [Dests -> {"none", "ok", "failed"}]
        /\ requests \in [Dests -> Nat]
    BY ExporterAssumption DEF TypeOK
  <1>1. ASSUME NEW p \in {0, 1}, NEW u \in {0, 1}, NEW r \in {0, 1}, Went(p, u, r)
        PROVE  TypeOK'
    <2>1. /\ own' \in [Traces -> Creds \cup {NoCred}] /\ default' \in [Dests -> Creds]
          /\ valid' \subseteq Creds
      BY <1>1 DEF Went, config, TypeOK
    <2>2. requests' \in [Dests -> Nat]
      BY <1>0, <1>1 DEF Went
    <2>3. \A table \in {processed', unheard', refused'} : table \in [Dests -> [Traces -> Nat]]
      BY <1>1 DEF Went, TablesAfter
    <2>4. /\ dest' \in Dests /\ attempt' \in 0..MaxRetries /\ todo' \subseteq Traces /\ todo' # {}
          /\ outcome' \in [Dests -> {"none", "ok", "failed"}]
          /\ result' \in {"none", "returned", "raised"}
      <3>1. CASE GoesOn
        BY <1>0, <3>1 DEF GoesOn, LaterGroups, TypeOK
      <3>2. CASE TriesAgain
        BY <1>0, <3>2 DEF TriesAgain, TypeOK
      <3>3. ASSUME NEW how \in {"ok", "failed"}, ChildEnds(how)
            PROVE  /\ dest' \in Dests /\ attempt' \in 0..MaxRetries /\ todo' \subseteq Traces /\ todo' # {}
                   /\ outcome' \in [Dests -> {"none", "ok", "failed"}]
                   /\ result' \in {"none", "returned", "raised"}
        <4>1. Traces # {}
          BY <1>0 DEF Traces
        <4>2. outcome' \in [Dests -> {"none", "ok", "failed"}] /\ attempt' \in 0..MaxRetries
          BY <1>0, <3>3 DEF ChildEnds
        <4>3. CASE dest < Destinations
          BY <1>0, <3>3, <4>1, <4>2, <4>3 DEF ChildEnds, Dests, TypeOK
        <4>4. CASE ~(dest < Destinations)
          BY <1>0, <3>3, <4>2, <4>4 DEF ChildEnds, TypeOK
        <4> QED
          BY <4>2, <4>3, <4>4
      <3> QED
        BY <1>1, <3>1, <3>2, <3>3 DEF Went
    <2> QED
      BY <2>1, <2>2, <2>3, <2>4 DEF TypeOK
  <1>2. CASE (\E c \in Creds : KeyDeleted(c)) \/ UNCHANGED vars
    BY <1>2, StillFacts DEF TypeOK, config, history
  <1> QED
    BY <1>1, <1>2, StepKinds

\* Children take their turns: one that ended is not asked again, and one
\* that has not begun has sent nothing.
LEMMA ProgressStep == IndInv /\ [Next]_vars => Progress'
  <1> SUFFICES ASSUME IndInv, [Next]_vars
               PROVE  Progress'
    OBVIOUS
  <1>0. /\ TypeOK /\ Progress /\ dest \in Dests /\ Destinations \in Nat \ {0} /\ Dests \subseteq Nat
        /\ outcome \in [Dests -> {"none", "ok", "failed"}]
        /\ requests \in [Dests -> Nat]
    BY ExporterAssumption DEF IndInv, TypeOK, Dests
  <1>1. ASSUME NEW p \in {0, 1}, NEW u \in {0, 1}, NEW r \in {0, 1}, Went(p, u, r)
        PROVE  Progress'
    <2>1. /\ result = "none"
          /\ \A d \in Dests \ {dest} :
                /\ requests'[d] = requests[d] /\ processed'[d] = processed[d]
                /\ unheard'[d] = unheard[d] /\ refused'[d] = refused[d]
      BY <1>0, <1>1 DEF Went, TablesAfter
    <2>2. CASE GoesOn \/ TriesAgain
      BY <1>0, <2>1, <2>2 DEF GoesOn, TriesAgain, Progress
    <2>3. ASSUME NEW how \in {"ok", "failed"}, ChildEnds(how)
          PROVE  Progress'
      <3>1. outcome'[dest] = how /\ \A d \in Dests \ {dest} : outcome'[d] = outcome[d]
        BY <1>0, <2>3 DEF ChildEnds
      <3>2. CASE dest < Destinations
        <4>1. dest' = dest + 1 /\ result' = result /\ dest' \in Dests
          BY <1>0, <2>3, <3>2 DEF ChildEnds, Dests
        <4>2. \A d \in Dests : d > dest' => d > dest /\ d # dest
          BY <1>0, <4>1
        <4>3. \A d \in Dests : d < dest' => d < dest \/ d = dest
          BY <1>0, <4>1
        <4>4. dest' > dest /\ dest' # dest
          BY <1>0, <4>1
        <4>5. outcome'[dest'] = "none"
          BY <1>0, <3>1, <4>1, <4>4 DEF Progress
        <4>6. \A d \in Dests : d > dest' =>
                 /\ outcome'[d] = "none" /\ requests'[d] = 0
                 /\ \A t \in Traces : processed'[d][t] = 0 /\ unheard'[d][t] = 0 /\ refused'[d][t] = 0
          BY <1>0, <2>1, <3>1, <4>2 DEF Progress
        <4>7. \A d \in Dests : d < dest' => outcome'[d] # "none"
          BY <1>0, <2>3, <3>1, <4>3 DEF Progress
        <4> QED
          BY <1>0, <2>1, <4>1, <4>5, <4>6, <4>7 DEF Progress
      <3>3. CASE ~(dest < Destinations)
        <4>1. dest = Destinations /\ dest' = dest /\ result' # "none" /\ (Composite => result' # "raised")
          BY <1>0, <2>3, <3>3 DEF ChildEnds, Dests
        <4>2. \A d \in Dests : d > dest \/ d < dest => d # dest
          BY <1>0
        <4>3. \A d \in Dests : d > dest' =>
                 /\ outcome'[d] = "none" /\ requests'[d] = 0
                 /\ \A t \in Traces : processed'[d][t] = 0 /\ unheard'[d][t] = 0 /\ refused'[d][t] = 0
          BY <1>0, <2>1, <3>1, <4>1, <4>2 DEF Progress
        <4>4. \A d \in Dests : d < dest' => outcome'[d] # "none"
          BY <1>0, <3>1, <4>1, <4>2 DEF Progress
        <4>5. outcome'[dest'] # "none"
          BY <3>1, <4>1
        <4> QED
          BY <4>1, <4>3, <4>4, <4>5 DEF Progress
      <3> QED
        BY <3>2, <3>3
    <2> QED
      BY <1>1, <2>2, <2>3 DEF Went
  <1>2. CASE (\E c \in Creds : KeyDeleted(c)) \/ UNCHANGED vars
    <2>1. UNCHANGED <<dest, outcome, result, requests, processed, unheard, refused>>
      BY <1>2, StillFacts DEF history
    <2> QED
      BY <1>0, <2>1 DEF Progress
  <1> QED
    BY <1>0, <1>1, <1>2, StepKinds

\* A group leaves as a whole, and it is the first one.
LEMMA WholeGroupsStep == IndInv /\ [Next]_vars => WholeGroupsLeft'
  <1> SUFFICES ASSUME IndInv, [Next]_vars
               PROVE  WholeGroupsLeft'
    OBVIOUS
  <1>0. /\ TypeOK /\ WholeGroupsLeft /\ todo \subseteq Traces /\ FirstGroup
    BY FirstFacts DEF IndInv, TypeOK
  <1>1. UNCHANGED config
    BY <1>0, StepKinds, StillFacts DEF Went
  <1>2. \A d, t : Cred(d, t)' = Cred(d, t) /\ GroupStart(d, t)' = GroupStart(d, t)
    BY <1>1, ConfigKept
  <1>3. ASSUME UNCHANGED <<dest, todo>>
        PROVE  WholeGroupsLeft'
    BY <1>0, <1>2, <1>3 DEF WholeGroupsLeft
  <1>4. ASSUME GoesOn
        PROVE  WholeGroupsLeft'
    <2>1. dest' = dest /\ todo' = LaterGroups
      BY <1>4 DEF GoesOn
    <2>2. ASSUME NEW t \in LaterGroups, NEW u \in Traces, Cred(dest, u) = Cred(dest, t)
          PROVE  u \in LaterGroups
      <3>1. t \in todo /\ u \in todo
        BY <1>0, <2>2 DEF WholeGroupsLeft, FirstGroup
      <3> QED
        BY <1>0, <2>2, <3>1 DEF FirstGroup, LaterGroups
    <2>3. ASSUME NEW t \in LaterGroups, NEW u \in Traces, u \notin LaterGroups
          PROVE  GroupStart(dest, u) < GroupStart(dest, t)
      <3>1. CASE u \notin todo
        BY <1>0, <3>1 DEF WholeGroupsLeft, FirstGroup
      <3>2. CASE u \in todo
        <4>1. u \in Group
          BY <1>0, <2>3, <3>2 DEF FirstGroup
        <4> QED
          BY <1>0, <4>1, GroupsLeft
      <3> QED
        BY <3>1, <3>2
    <2> QED
      BY <1>2, <2>1, <2>2, <2>3 DEF WholeGroupsLeft
  <1>5. ASSUME NEW how, ChildEnds(how)
        PROVE  WholeGroupsLeft'
    <2>1. UNCHANGED <<dest, todo>> \/ todo' = Traces
      BY <1>5 DEF ChildEnds
    <2>2. ASSUME todo' = Traces
          PROVE  WholeGroupsLeft'
      BY <2>2 DEF WholeGroupsLeft
    <2> QED
      BY <1>3, <2>1, <2>2
  <1> QED
    BY <1>0, <1>3, <1>4, <1>5, StepKinds, StillFacts DEF Went, TriesAgain

-----------------------------------------------------------------------------
(* What was delivered, and how often.                                      *)

\* The tables follow the group that is sent.
LEMMA TablesStep == IndInv /\ [Next]_vars => TablesFollow'
  <1> SUFFICES ASSUME IndInv, [Next]_vars, result' = "none"
               PROVE  TablesFollow'
    BY DEF TablesFollow
  <1>0. /\ TypeOK /\ Progress /\ TypeOK' /\ FirstGroup /\ TablesFollow /\ dest \in Dests
        /\ \A table \in {processed, unheard, refused} : \A t \in Traces : table[dest][t] \in Nat
    BY FirstFacts, TypeStep DEF IndInv, TypeOK
  <1>1. TypeOK' => FirstGroup'
    BY FirstFacts, PTL
  <1>2. FirstGroup'
    BY <1>0, <1>1
  <1>3. UNCHANGED config
    BY <1>0, StepKinds, StillFacts DEF Went
  <1>4. \A d, t : Cred(d, t)' = Cred(d, t)
    BY <1>3, ConfigKept
  \* Where nothing of what is left was sent, the tables are as they should be.
  <1>5. ASSUME \A t \in Traces \ todo' : processed'[dest'][t] > 0,
               \A t \in todo' : processed'[dest'][t] = 0 /\ unheard'[dest'][t] = 0 /\ refused'[dest'][t] = 0
        PROVE  TablesFollow'
    BY <1>2, <1>5 DEF TablesFollow, FirstGroup
  <1>6. ASSUME UNCHANGED <<dest, todo>>
        PROVE  First' = First /\ Group' = Group /\ LaterGroups' = LaterGroups
               /\ (Accepts' <=> Cred(dest, First) \in valid')
    <2>1. First' = First
      BY <1>6 DEF First
    <2>2. Group' = Group
      BY <1>4, <1>6, <2>1 DEF Group, SameGroup
    <2> QED
      BY <1>4, <1>6, <2>1, <2>2 DEF LaterGroups, Accepts
  <1>7. ASSUME NEW p \in {0, 1}, NEW u \in {0, 1}, NEW r \in {0, 1}, Went(p, u, r)
        PROVE  TablesFollow'
    <2>1. /\ result = "none" /\ TablesAfter(p, u, r) /\ valid' = valid
          /\ p = 1 => Accepts
          /\ r = 1 => ~Accepts /\ p = 0
      BY <1>7 DEF Went
    <2>2. CASE p = 1 /\ u = 0 /\ GoesOn
      <3>1. dest' = dest /\ todo' = LaterGroups
        BY <2>2 DEF GoesOn
      <3>2. \A t \in Traces \ todo : t \notin Group /\ processed'[dest][t] > 0
        BY <1>0, <2>1 DEF TablesAfter, TablesFollow, FirstGroup
      <3>3. \A t \in Group : t \in Traces /\ processed'[dest][t] > 0
        BY <1>0, <2>1, <2>2 DEF TablesAfter, FirstGroup
      <3>4. \A t \in LaterGroups :
               processed'[dest][t] = 0 /\ unheard'[dest][t] = 0 /\ refused'[dest][t] = 0
        <4>1. \A t \in LaterGroups : t \in Traces /\ t \notin Group
          BY <1>0 DEF FirstGroup, LaterGroups
        <4> QED
          BY <1>0, <2>1, <4>1 DEF TablesAfter, TablesFollow
      <3> QED
        BY <1>0, <1>5, <3>1, <3>2, <3>3, <3>4 DEF FirstGroup
    <2>3. CASE p = u /\ TriesAgain
      <3>1. UNCHANGED <<dest, todo>>
        BY <2>3 DEF TriesAgain
      <3>2. First' = First /\ Group' = Group /\ LaterGroups' = LaterGroups /\ (Accepts' <=> Accepts)
        BY <1>6, <2>1, <3>1 DEF Accepts
      <3>3. \A t \in Traces \ todo : processed'[dest][t] > 0
        BY <1>0, <2>1 DEF TablesAfter, TablesFollow, FirstGroup
      <3>4. \A t \in LaterGroups :
               processed'[dest][t] = 0 /\ unheard'[dest][t] = 0 /\ refused'[dest][t] = 0
        <4>1. \A t \in LaterGroups : t \in Traces /\ t \notin Group
          BY <1>0 DEF FirstGroup, LaterGroups
        <4> QED
          BY <1>0, <2>1, <4>1 DEF TablesAfter, TablesFollow
      <3>5. \A t \in Group :
              /\ processed'[dest][t] = unheard'[dest][t]
              /\ processed'[dest][t] = processed'[dest][First]
              /\ refused'[dest][t] > 0 => ~Accepts
        <4>1. \A t \in Group : /\ t \in Traces /\ First \in Group
                               /\ processed'[dest][t] = processed[dest][t] + p
                               /\ unheard'[dest][t] = unheard[dest][t] + u
                               /\ refused'[dest][t] = refused[dest][t] + r
          BY <1>0, <2>1 DEF TablesAfter, FirstGroup
        <4> QED
          BY <1>0, <2>1, <2>3, <4>1 DEF TablesFollow
      <3> QED
        BY <3>1, <3>2, <3>3, <3>4, <3>5 DEF TablesFollow
    <2>4. ASSUME NEW how \in {"ok", "failed"}, ChildEnds(how)
          PROVE  TablesFollow'
      <3>1. dest < Destinations /\ dest' = dest + 1 /\ todo' = Traces
        BY <1>0, <2>1, <2>4 DEF ChildEnds
      <3>2. dest' \in Dests /\ dest' > dest /\ dest' # dest
        BY <1>0, <3>1, ExporterAssumption DEF Dests
      <3>3. \A t \in Traces : processed'[dest'][t] = 0 /\ unheard'[dest'][t] = 0 /\ refused'[dest'][t] = 0
        <4>1. \A t \in Traces : processed[dest'][t] = 0 /\ unheard[dest'][t] = 0 /\ refused[dest'][t] = 0
          BY <1>0, <3>2 DEF Progress
        <4>2. /\ processed'[dest'] = processed[dest'] /\ unheard'[dest'] = unheard[dest']
              /\ refused'[dest'] = refused[dest']
          BY <2>1, <3>2 DEF TablesAfter
        <4> QED
          BY <4>1, <4>2
      <3> QED
        BY <1>5, <3>1, <3>3
    <2> QED
      BY <1>7, <2>2, <2>3, <2>4 DEF Went
  <1>8. CASE (\E c \in Creds : KeyDeleted(c)) \/ UNCHANGED vars
    <2>1. UNCHANGED <<dest, todo, result, processed, unheard, refused>> /\ valid' \subseteq valid
      BY <1>8, StillFacts DEF history
    <2>2. First' = First /\ Group' = Group /\ LaterGroups' = LaterGroups /\ (Accepts' => Accepts)
      BY <1>6, <2>1 DEF Accepts
    <2> QED
      BY <1>0, <2>1, <2>2 DEF TablesFollow
  <1> QED
    BY <1>0, <1>7, <1>8, StepKinds

\* A child that does not raise has delivered all of the batch.
LEMMA OkStep == IndInv /\ [Next]_vars => OkMeansDelivered'
  <1> SUFFICES ASSUME IndInv, [Next]_vars, NEW d \in Dests, outcome'[d] = "ok", NEW t \in Traces
               PROVE  processed'[d][t] > 0
    BY DEF OkMeansDelivered
  <1>0. /\ TypeOK /\ OkMeansDelivered /\ FirstGroup /\ TablesFollow /\ dest \in Dests /\ Progress
        /\ outcome \in [Dests -> {"none", "ok", "failed"}] /\ processed[dest][t] \in Nat
    BY FirstFacts DEF IndInv, TypeOK
  <1>1. ASSUME NEW p \in {0, 1}, NEW u \in {0, 1}, NEW r \in {0, 1}, Went(p, u, r)
        PROVE  processed'[d][t] > 0
    <2>1. result = "none" /\ TablesAfter(p, u, r) /\ outcome[dest] = "none"
      BY <1>0, <1>1 DEF Went, Progress
    <2>2. \A how : ChildEnds(how) => outcome' = [outcome EXCEPT ![dest] = how]
      BY DEF ChildEnds
    <2>3. CASE d # dest
      <3>1. outcome'[d] = outcome[d]
        BY <1>0, <1>1, <2>2, <2>3 DEF Went, GoesOn, TriesAgain
      <3> QED
        BY <1>0, <2>1, <2>3, <3>1 DEF TablesAfter, OkMeansDelivered
    <2>4. CASE d = dest
      <3>1. p = 1 /\ LaterGroups = {}
        BY <1>0, <1>1, <2>1, <2>2, <2>4 DEF Went, GoesOn, TriesAgain
      <3>2. t \in Group \/ t \notin todo
        BY <1>0, <3>1 DEF FirstGroup
      <3>3. processed'[dest][t] = processed[dest][t] + (IF t \in Group THEN p ELSE 0)
        BY <2>1 DEF TablesAfter
      <3>4. t \notin todo => processed[dest][t] > 0
        BY <1>0, <2>1 DEF TablesFollow
      <3> QED
        BY <1>0, <2>4, <3>1, <3>2, <3>3, <3>4
    <2> QED
      BY <2>3, <2>4
  <1>2. CASE (\E c \in Creds : KeyDeleted(c)) \/ UNCHANGED vars
    BY <1>0, <1>2, StillFacts DEF OkMeansDelivered, history
  <1> QED
    BY <1>0, <1>1, <1>2, StepKinds

\* What is delivered is delivered group by group, from the first.
LEMMA PrefixStep == IndInv /\ [Next]_vars => DeliveredPrefix'
  <1>0. ASSUME IndInv, [Next]_vars
        PROVE  UNCHANGED config
    BY <1>0, StepKinds, StillFacts DEF Went, IndInv
  <1> SUFFICES ASSUME IndInv, [Next]_vars, NEW d \in Dests, NEW t \in Traces, NEW v \in Traces,
                      GroupStart(d, t) <= GroupStart(d, v), processed'[d][v] > 0
               PROVE  processed'[d][t] > 0
    BY <1>0, ConfigKept DEF DeliveredPrefix
  <1>1. /\ TypeOK /\ DeliveredPrefix /\ FirstGroup /\ TablesFollow /\ dest \in Dests
        /\ WholeGroupsLeft /\ \A x \in Traces : processed[dest][x] \in Nat
        /\ GroupStart(d, t) \in Nat /\ GroupStart(d, v) \in Nat
    BY FirstFacts, GroupStartFacts DEF IndInv, TypeOK
  <1>2. ASSUME NEW p \in {0, 1}, NEW u \in {0, 1}, NEW r \in {0, 1}, Went(p, u, r)
        PROVE  processed'[d][t] > 0
    <2>1. result = "none" /\ TablesAfter(p, u, r)
      BY <1>2 DEF Went
    <2>2. CASE d # dest
      BY <1>1, <2>1, <2>2 DEF TablesAfter, DeliveredPrefix
    <2>3. CASE d = dest
      <3>0. \A x \in Traces : processed'[dest][x] = processed[dest][x] + (IF x \in Group THEN p ELSE 0)
        BY <2>1 DEF TablesAfter
      <3>1. CASE t \notin todo
        BY <1>1, <2>1, <2>3, <3>0, <3>1 DEF TablesFollow
      <3>2. CASE t \in todo
        <4>1. v \in todo
          BY <1>1, <2>3, <3>2 DEF WholeGroupsLeft
        <4>2. v \in Group
          <5>1. v \in LaterGroups => processed'[dest][v] = 0
            BY <1>1, <2>1, <3>0, <4>1 DEF TablesFollow, FirstGroup, LaterGroups
          <5> QED
            BY <1>1, <2>3, <4>1, <5>1 DEF FirstGroup
        <4>3. t \in Group
          <5>1. GroupStart(dest, v) = First /\ \A x \in LaterGroups : First < GroupStart(dest, x)
            BY <1>1, <4>2, GroupsLeft
          <5>2. First \in Nat
            BY <1>1 DEF FirstGroup
          <5> QED
            BY <1>1, <2>3, <3>2, <5>1, <5>2 DEF FirstGroup
        <4>4. processed[dest][t] = processed[dest][v]
          BY <1>1, <2>1, <4>2, <4>3 DEF TablesFollow
        <4> QED
          BY <2>3, <3>0, <4>2, <4>3, <4>4
      <3> QED
        BY <3>1, <3>2
    <2> QED
      BY <2>2, <2>3
  <1>3. CASE (\E c \in Creds : KeyDeleted(c)) \/ UNCHANGED vars
    BY <1>1, <1>3, StillFacts DEF DeliveredPrefix, history
  <1> QED
    BY <1>1, <1>2, <1>3, StepKinds

\* A group is taken in again only after an answer to it was lost, and is
\* refused after it was taken in only then.
LEMMA DuplicatesStep == IndInv /\ [Next]_vars => DuplicatesExplained'
  <1> SUFFICES ASSUME IndInv, [Next]_vars, NEW d \in Dests, NEW t \in Traces
               PROVE  /\ processed'[d][t] <= 1 + unheard'[d][t]
                      /\ processed'[d][t] > 0 /\ refused'[d][t] > 0 => unheard'[d][t] > 0
    BY DEF DuplicatesExplained
  <1>1. /\ TypeOK /\ DuplicatesExplained /\ FirstGroup /\ TablesFollow /\ dest \in Dests
        /\ processed[dest][t] \in Nat /\ unheard[dest][t] \in Nat /\ refused[dest][t] \in Nat
    BY FirstFacts DEF IndInv, TypeOK
  <1>2. ASSUME NEW p \in {0, 1}, NEW u \in {0, 1}, NEW r \in {0, 1}, Went(p, u, r)
        PROVE  /\ processed'[d][t] <= 1 + unheard'[d][t]
               /\ processed'[d][t] > 0 /\ refused'[d][t] > 0 => unheard'[d][t] > 0
    <2>1. /\ result = "none" /\ TablesAfter(p, u, r)
          /\ p = 1 => Accepts
          /\ r = 1 => ~Accepts /\ p = 0
          /\ p = u \/ (p = 1 /\ u = 0)
      BY <1>2 DEF Went
    <2>2. CASE d # dest
      BY <1>1, <2>1, <2>2 DEF TablesAfter, DuplicatesExplained
    <2>3. CASE d = dest /\ t \notin Group
      BY <1>1, <2>1, <2>3 DEF TablesAfter, DuplicatesExplained
    <2>4. CASE d = dest /\ t \in Group
      <3>1. /\ processed'[dest][t] = processed[dest][t] + p
            /\ unheard'[dest][t] = unheard[dest][t] + u
            /\ refused'[dest][t] = refused[dest][t] + r
        BY <2>1, <2>4 DEF TablesAfter
      <3>2. processed[dest][t] = unheard[dest][t] /\ (refused[dest][t] > 0 => ~Accepts)
        BY <1>1, <2>1, <2>4 DEF TablesFollow
      <3> QED
        BY <1>1, <2>1, <2>4, <3>1, <3>2
    <2> QED
      BY <2>2, <2>3, <2>4
  <1>3. CASE (\E c \in Creds : KeyDeleted(c)) \/ UNCHANGED vars
    BY <1>1, <1>3, StillFacts DEF DuplicatesExplained, history
  <1> QED
    BY <1>1, <1>2, <1>3, StepKinds

-----------------------------------------------------------------------------
(* How many requests a call sends.                                         *)

\* One more group is worth 1 + max_retries requests.
LEMMA OneMoreGroup ==
    ASSUME NEW K \in Nat, NEW L \in Nat, NEW M \in Nat, K + 1 <= L
    PROVE  /\ (K + 1) * (M + 1) = K * (M + 1) + M + 1
           /\ K * (M + 1) + M + 1 <= L * (M + 1)
           /\ K * (M + 1) \in Nat /\ L * (M + 1) \in Nat
  <1>1. (K + 1) * (M + 1) = K * (M + 1) + M + 1
    OBVIOUS
  <1>2. PICK j \in Nat : L = K + 1 + j
    <2>1. L - K - 1 \in Nat /\ L = K + 1 + (L - K - 1)
      OBVIOUS
    <2> QED
      BY <2>1
  <1>3. L * (M + 1) = (K + 1) * (M + 1) + j * (M + 1)
    BY <1>2
  <1>4. j * (M + 1) \in Nat /\ K * (M + 1) \in Nat /\ L * (M + 1) \in Nat
    OBVIOUS
  <1> QED
    BY <1>1, <1>3, <1>4

\* There are finitely many groups, at most one for each trace.
LEMMA FiniteGroups ==
    ASSUME NEW d
    PROVE  IsFiniteSet({Cred(d, t) : t \in Traces}) /\ NumGroups(d) \in Nat
  <1> DEFINE Sent == {Cred(d, t) : t \in Traces}
             f == [t \in Traces |-> Cred(d, t)]
  <1>1. IsFiniteSet(Traces)
    BY FS_Interval, ExporterAssumption DEF Traces
  <1>2. f \in Surjection(Traces, Sent)
    BY DEF Surjection
  <1>3. IsFiniteSet(Sent)
    <2> HIDE DEF f, Sent
    <2> QED
      BY <1>1, <1>2, FS_Surjection
  <1> QED
    BY <1>3, FS_CardinalityType DEF NumGroups

\* While a group is left, fewer than all were answered, and not this one.
LEMMA GroupsToGo ==
    ASSUME TypeOK, WholeGroupsLeft
    PROVE  /\ IsFiniteSet(Answered) /\ Cardinality(Answered) \in Nat
           /\ Cardinality(Answered \cup {Cred(dest, First)}) = Cardinality(Answered) + 1
           /\ Cardinality(Answered) + 1 <= NumGroups(dest)
  <1> DEFINE Sent == {Cred(dest, t) : t \in Traces}
             More == Answered \cup {Cred(dest, First)}
  <1>1. FirstGroup
    BY FirstFacts
  <1>2. IsFiniteSet(Sent) /\ NumGroups(dest) = Cardinality(Sent) /\ NumGroups(dest) \in Nat
    BY FiniteGroups DEF NumGroups
  <1>3. Answered \subseteq Sent /\ More \subseteq Sent
    BY <1>1 DEF Answered, FirstGroup
  <1>4. Cred(dest, First) \notin Answered
    BY <1>1 DEF Answered, FirstGroup, WholeGroupsLeft
  <1>5. IsFiniteSet(Answered) /\ IsFiniteSet(More) /\ Cardinality(More) <= Cardinality(Sent)
    <2> HIDE DEF Sent, More
    <2> QED
      BY <1>2, <1>3, FS_Subset
  <1>6. Cardinality(Answered) \in Nat /\ Cardinality(More) = Cardinality(Answered) + 1
    BY <1>4, <1>5, FS_AddElement, FS_CardinalityType
  <1> QED
    BY <1>2, <1>5, <1>6

\* The group that was sent joins those answered when the next one is sent.
LEMMA AnsweredNext ==
    ASSUME TypeOK, UNCHANGED config, GoesOn
    PROVE  Answered' = Answered \cup {Cred(dest, First)}
  <1>1. FirstGroup
    BY FirstFacts
  <1>2. dest' = dest /\ todo' = LaterGroups
    BY DEF GoesOn
  <1>3. \A d, t : Cred(d, t)' = Cred(d, t)
    BY ConfigKept
  <1>4. Traces \ LaterGroups = (Traces \ todo) \cup Group
    BY <1>1 DEF FirstGroup, LaterGroups
  <1>5. Answered' = {Cred(dest, t) : t \in (Traces \ todo) \cup Group}
    BY <1>2, <1>3, <1>4 DEF Answered
  <1>6. \A t \in Group : Cred(dest, t) = Cred(dest, First)
    BY <1>1 DEF FirstGroup
  <1>7. First \in Group
    BY <1>1 DEF FirstGroup
  <1> QED
    BY <1>5, <1>6, <1>7 DEF Answered

\* The requests of the destination at work are those of the groups answered
\* and the attempts at this one.
LEMMA RequestsStep == IndInv /\ [Next]_vars => RequestsCounted'
  <1> SUFFICES ASSUME IndInv, [Next]_vars, result' = "none"
               PROVE  requests'[dest'] <= Cardinality(Answered') * (MaxRetries + 1) + attempt'
    BY DEF RequestsCounted
  <1>0. /\ TypeOK /\ Progress /\ WholeGroupsLeft /\ RequestsCounted /\ dest \in Dests
        /\ requests \in [Dests -> Nat] /\ attempt \in 0..MaxRetries /\ MaxRetries \in Nat
        /\ outcome \in [Dests -> {"none", "ok", "failed"}]
    BY ExporterAssumption DEF IndInv, TypeOK
  <1>1. UNCHANGED config
    BY <1>0, StepKinds, StillFacts DEF Went
  <1>2. ASSUME UNCHANGED <<dest, todo>>
        PROVE  Answered' = Answered
    BY <1>1, <1>2, ConfigKept DEF Answered
  <1> DEFINE K == Cardinality(Answered)
  <1>3. K \in Nat /\ NumGroups(dest) \in Nat /\ K + 1 <= NumGroups(dest)
    BY <1>0, GroupsToGo, FiniteGroups
  <1>4. (K + 1) * (MaxRetries + 1) = K * (MaxRetries + 1) + MaxRetries + 1
        /\ K * (MaxRetries + 1) \in Nat
    <2> HIDE DEF K
    <2> QED
      BY <1>0, <1>3, OneMoreGroup
  <1>5. ASSUME NEW p \in {0, 1}, NEW u \in {0, 1}, NEW r \in {0, 1}, Went(p, u, r)
        PROVE  requests'[dest'] <= Cardinality(Answered') * (MaxRetries + 1) + attempt'
    <2>1. result = "none" /\ requests'[dest] = requests[dest] + 1
          /\ \A d \in Dests \ {dest} : requests'[d] = requests[d]
      BY <1>0, <1>5 DEF Went
    <2>2. requests[dest] <= K * (MaxRetries + 1) + attempt
      BY <1>0, <2>1 DEF RequestsCounted
    <2>3. CASE GoesOn
      <3>1. Cardinality(Answered') = K + 1
        BY <1>0, <1>1, <2>3, AnsweredNext, GroupsToGo
      <3>2. dest' = dest /\ attempt' = 0
        BY <2>3 DEF GoesOn
      <3> HIDE DEF K
      <3> QED
        BY <1>0, <1>3, <1>4, <2>1, <2>2, <3>1, <3>2
    <2>4. CASE TriesAgain
      <3>1. dest' = dest /\ attempt' = attempt + 1 /\ Cardinality(Answered') = K
        BY <1>2, <2>4 DEF TriesAgain
      <3> HIDE DEF K
      <3> QED
        BY <1>0, <1>3, <1>4, <2>1, <2>2, <3>1
    <2>5. ASSUME NEW how, ChildEnds(how)
          PROVE  requests'[dest'] <= Cardinality(Answered') * (MaxRetries + 1) + attempt'
      <3>1. dest < Destinations /\ dest' = dest + 1 /\ todo' = Traces /\ attempt' = 0
        BY <1>0, <2>1, <2>5 DEF ChildEnds
      <3>2. dest' \in Dests /\ dest' > dest /\ dest' # dest
        BY <1>0, <3>1, ExporterAssumption DEF Dests
      <3>3. requests'[dest'] = 0
        BY <1>0, <2>1, <3>2 DEF Progress
      <3>4. Answered' = {}
        BY <3>1 DEF Answered
      <3>5. Cardinality(Answered') = 0
        BY <3>4, FS_EmptySet
      <3> QED
        BY <1>0, <3>1, <3>3, <3>5
    <2> QED
      BY <1>5, <2>3, <2>4, <2>5 DEF Went
  <1>6. CASE (\E c \in Creds : KeyDeleted(c)) \/ UNCHANGED vars
    <2>1. UNCHANGED <<dest, todo, attempt, result, requests>>
      BY <1>6, StillFacts DEF history
    <2>2. Answered' = Answered
      BY <1>2, <2>1
    <2> QED
      BY <1>0, <2>1, <2>2 DEF RequestsCounted
  <1> QED
    BY <1>0, <1>5, <1>6, StepKinds

\* No destination is sent more than 1 + max_retries requests for each group.
LEMMA BoundStep == IndInv /\ [Next]_vars => RequestsBounded'
  <1> SUFFICES ASSUME IndInv, [Next]_vars, NEW d \in Dests
               PROVE  requests'[d] <= NumGroups(d)' * (MaxRetries + 1)
    BY DEF RequestsBounded
  <1>0. /\ TypeOK /\ WholeGroupsLeft /\ RequestsCounted /\ RequestsBounded /\ dest \in Dests
        /\ requests \in [Dests -> Nat] /\ attempt \in 0..MaxRetries /\ MaxRetries \in Nat
    BY ExporterAssumption DEF IndInv, TypeOK
  <1>1. UNCHANGED config
    BY <1>0, StepKinds, StillFacts DEF Went
  <1>2. NumGroups(d)' = NumGroups(d)
    BY <1>1, ConfigKept DEF NumGroups
  <1>3. requests[d] <= NumGroups(d) * (MaxRetries + 1)
    BY <1>0 DEF RequestsBounded
  <1>4. ASSUME NEW p \in {0, 1}, NEW u \in {0, 1}, NEW r \in {0, 1}, Went(p, u, r)
        PROVE  requests'[d] <= NumGroups(d) * (MaxRetries + 1)
    <2>1. result = "none" /\ requests' = [requests EXCEPT ![dest] = @ + 1]
      BY <1>4 DEF Went
    <2>2. CASE d # dest
      BY <1>0, <1>3, <2>1, <2>2
    <2>3. CASE d = dest
      <3> DEFINE K == Cardinality(Answered)
      <3>1. requests'[dest] = requests[dest] + 1
        BY <1>0, <2>1
      <3>2. requests[dest] <= K * (MaxRetries + 1) + attempt
        BY <1>0, <2>1 DEF RequestsCounted
      <3>3. K \in Nat /\ NumGroups(dest) \in Nat /\ K + 1 <= NumGroups(dest)
        BY <1>0, GroupsToGo, FiniteGroups
      <3> HIDE DEF K
      <3>4. K * (MaxRetries + 1) + MaxRetries + 1 <= NumGroups(dest) * (MaxRetries + 1)
            /\ K * (MaxRetries + 1) \in Nat /\ NumGroups(dest) * (MaxRetries + 1) \in Nat
        BY <1>0, <3>3, OneMoreGroup
      <3> QED
        BY <1>0, <2>3, <3>1, <3>2, <3>4
    <2> QED
      BY <2>2, <2>3
  <1>5. CASE (\E c \in Creds : KeyDeleted(c)) \/ UNCHANGED vars
    BY <1>2, <1>3, <1>5, StillFacts DEF history
  <1> QED
    BY <1>0, <1>2, <1>4, <1>5, StepKinds

-----------------------------------------------------------------------------
(* The theorems.                                                           *)

\* A call begins with the whole batch left to send and nothing counted.
LEMMA InitInvariant == Init => IndInv
  <1> SUFFICES ASSUME Init
               PROVE  IndInv
    OBVIOUS
  <1>0. /\ BatchLen \in Nat \ {0} /\ Destinations \in Nat \ {0} /\ MaxRetries \in Nat
        /\ Dests \subseteq Nat /\ 1 \in Dests /\ Traces # {} /\ \A d \in Dests : d >= 1
    BY ExporterAssumption DEF Dests, Traces
  <1>1. TypeOK
    BY <1>0 DEF Init, TypeOK, Zero
  <1>2. \A d \in Dests : /\ outcome[d] = "none" /\ requests[d] = 0
                         /\ \A t \in Traces : processed[d][t] = 0 /\ unheard[d][t] = 0 /\ refused[d][t] = 0
    BY DEF Init, Zero
  <1>3. dest = 1 /\ result = "none" /\ todo = Traces /\ attempt = 0
    BY DEF Init
  <1>4. Progress
    BY <1>0, <1>2, <1>3 DEF Progress
  <1>5. WholeGroupsLeft
    BY <1>3 DEF WholeGroupsLeft
  <1>6. TablesFollow
    BY <1>0, <1>1, <1>2, <1>3, FirstFacts DEF TablesFollow, FirstGroup
  <1>7. RequestsCounted
    <2>1. Answered = {}
      BY <1>3 DEF Answered
    <2>2. Cardinality(Answered) = 0
      BY <2>1, FS_EmptySet
    <2> QED
      BY <1>0, <1>2, <1>3, <2>2 DEF RequestsCounted
  <1>8. OkMeansDelivered /\ DeliveredPrefix /\ DuplicatesExplained
    BY <1>2 DEF OkMeansDelivered, DeliveredPrefix, DuplicatesExplained
  <1>9. RequestsBounded
    <2>1. ASSUME NEW d \in Dests
          PROVE  requests[d] <= NumGroups(d) * (MaxRetries + 1)
      <3>1. \A k \in Nat : k * (MaxRetries + 1) \in Nat
        BY <1>0
      <3>2. NumGroups(d) * (MaxRetries + 1) \in Nat
        BY <3>1, FiniteGroups
      <3> QED
        BY <1>2, <3>2
    <2> QED
      BY <2>1 DEF RequestsBounded
  <1> QED
    BY <1>1, <1>4, <1>5, <1>6, <1>7, <1>8, <1>9 DEF IndInv

\* Every step of a call preserves the invariant.
LEMMA StepInvariant == IndInv /\ [Next]_vars => IndInv'
  <1>1. IndInv /\ [Next]_vars => TypeOK'
    BY TypeStep DEF IndInv
  <1> QED
    BY <1>1, ProgressStep, WholeGroupsStep, TablesStep, RequestsStep, OkStep, PrefixStep,
       DuplicatesStep, BoundStep DEF IndInv

\* The invariant holds of every call of export_batch.
THEOREM Invariance == Spec => []IndInv
  <1>1. Init => IndInv
    BY InitInvariant
  <1>2. IndInv /\ [Next]_vars => IndInv'
    BY StepInvariant
  <1> QED
    BY <1>1, <1>2, PTL DEF Spec

\* The loop variable of _send_payload stays within 0..max_retries, and every
\* other variable within its type.
THEOREM TypeCorrect == Spec => []TypeOK
  <1>1. IndInv => TypeOK
    BY DEF IndInv
  <1> QED
    BY <1>1, Invariance, PTL

\* A call that is counted as exported has delivered the whole batch, what is
\* delivered otherwise is a prefix of its groups, and a CompositeExporter asks
\* every child whatever the others did.  (export_batch, http.py, base.py.)
THEOREM DeliveriesExplained == Spec => []DeliveryExplained
  <1>1. IndInv => DeliveryExplained
    <2> SUFFICES ASSUME IndInv
                 PROVE  DeliveryExplained
      OBVIOUS
    <2>1. OkMeansDelivered /\ DeliveredPrefix
      BY DEF IndInv
    <2>2. Progress /\ Destinations \in Nat \ {0} /\ dest \in Dests
      BY ExporterAssumption DEF IndInv, TypeOK
    <2>3. ASSUME result = "returned", NEW d \in Dests
          PROVE  outcome[d] # "none"
      <3>1. dest = Destinations /\ outcome[dest] # "none"
        BY <2>2, <2>3 DEF Progress
      <3>2. d < dest \/ d = dest
        BY <2>2, <3>1 DEF Dests
      <3> QED
        BY <2>2, <3>1, <3>2 DEF Progress
    <2>4. CompositeIsolates
      BY <2>2, <2>3 DEF CompositeIsolates, Progress
    <2> QED
      BY <2>1, <2>4 DEF DeliveryExplained
  <1> QED
    BY <1>1, Invariance, PTL

\* A trace is taken in twice, or refused after it was taken in, only after an
\* answer was lost, and a group is never sent more than 1 + max_retries times.
\* (_send_payload, http.py.)
THEOREM RepeatsAreExplained == Spec => []RepeatsExplained
  <1>1. IndInv => RepeatsExplained
    BY DEF IndInv, RepeatsExplained
  <1> QED
    BY <1>1, Invariance, PTL
=============================================================================
