------------------------- MODULE IssueGroupingProofs -------------------------
(***************************************************************************)
(* Proofs about IssueGrouping, for any number of events, fingerprints and  *)
(* issues, with and without merges and failures of Postgres.               *)
(***************************************************************************)
EXTENDS IssueGrouping, FiniteSetTheorems, TLAPS

-----------------------------------------------------------------------------
(***************************************************************************)
(* The inductive invariant.                                                *)
(***************************************************************************)
\* The requests whose groupEvent has committed.
Advanced == {r \in Requests : pc[r] \in {"event", "done", "lost"}}

MergeTyped ==
    merge \in [phase : {"none", "checked", "moved", "counted"}, target : Ids \cup {None},
               source : Ids \cup {None}, moved : SUBSET Requests, total : Nat]

\* No count exceeds the number of commits of groupEvent: what keeps it in range,
\* also where a merge overwrote it.
CountsBounded ==
    /\ \A i \in Ids : issue[i].count <= Cardinality(Advanced)
    /\ merge.total <= Cardinality(Advanced)

\* A request points to an issue that was inserted, and does so once it has one.
Pointed ==
    \A r \in Requests :
        /\ at[r] # None => issue[at[r]].is # "unused"
        /\ pc[r] \in {"found", "event", "done", "lost"} => at[r] # None

\* Rows of events belong to requests that were accepted.
RowsOfDone ==
    /\ \A r \in Requests : stored[r] # None => pc[r] = "done"
    /\ \A r \in merge.moved : pc[r] = "done"

\* A merge is of two issues, and the one that rows were moved to stays.
MergeHolds ==
    /\ merge.phase # "none" =>
           merge.target \in Ids /\ merge.source \in Ids /\ merge.target # merge.source
    /\ merge.moved # {} => merge.target \in Live

\* What is true of the requests: types, and the row that a lock keeps.
RequestsTyped ==
    /\ lock \in [Ids -> Requests \cup {None}]
    /\ pc \in [Requests -> {"start", "found", "missing", "event", "done", "lost", "failed"}]
    /\ at \in [Requests -> Ids \cup {None}]
    /\ stored \in [Requests -> Ids \cup {None}]
    /\ removed \subseteq Requests /\ targets \subseteq Ids

\* Issues with a count of any size.
IssuesTyped ==
    issue \in [Ids -> [is : {"unused", "live", "gone"}, fp : Fingerprints \cup {None},
                       count : Nat]]

Locked == \A r \in Requests : pc[r] = "found" => at[r] \in Live /\ lock[at[r]] = r

Inv == /\ IssuesTyped /\ RequestsTyped /\ Locked /\ MergeTyped
       /\ Pointed /\ RowsOfDone /\ MergeHolds /\ CountsBounded

-----------------------------------------------------------------------------
(***************************************************************************)
(* Facts about sets of requests.                                           *)
(***************************************************************************)
\* Their sizes are numbers, and a part is not larger than the whole.
LEMMA Sizes ==
    ASSUME NEW S, NEW T, S \subseteq T, T \subseteq Requests
    PROVE  Cardinality(S) \in Nat /\ Cardinality(T) \in Nat /\ Cardinality(S) <= Cardinality(T)
<1>1. IsFiniteSet(T)
  BY GroupingAssumption, FS_Subset
<1> QED
  BY <1>1, FS_Subset, FS_CardinalityType

\* One request more makes a set of them larger by one.
LEMMA OneMore ==
    ASSUME NEW S, S \subseteq Requests, NEW r \in Requests, r \notin S
    PROVE  Cardinality(S \cup {r}) = Cardinality(S) + 1
<1>1. IsFiniteSet(S)
  BY GroupingAssumption, FS_Subset
<1> QED
  BY <1>1, FS_AddElement

\* The invariant contains the type invariant of the specification.
LEMMA InvGivesTypes == Inv => TypeOK
<1> SUFFICES ASSUME Inv PROVE TypeOK
  OBVIOUS
<1>1. Cardinality(Advanced) \in Nat /\ Cardinality(Requests) \in Nat
      /\ Cardinality(Advanced) <= Cardinality(Requests)
  BY Sizes DEF Advanced
<1>2. \A n \in Nat : n <= Cardinality(Advanced) => n \in 0..Cardinality(Requests)
  BY <1>1
<1>3. issue \in [Ids -> Row]
  BY <1>2 DEF Inv, IssuesTyped, CountsBounded, Row
<1>4. merge.total \in 0..Cardinality(Requests)
  BY <1>2 DEF Inv, MergeTyped, CountsBounded
<1> QED
  BY <1>3, <1>4 DEF Inv, TypeOK, RequestsTyped, Locked, MergeTyped

-----------------------------------------------------------------------------
(***************************************************************************)
(* The invariant holds at first, and every step keeps it.                  *)
(***************************************************************************)
LEMMA InvInit == Init => Inv
<1> SUFFICES ASSUME Init PROVE Inv
  OBVIOUS
<1> USE GroupingAssumption
<1>1. IssuesTyped
  BY DEF Init, IssuesTyped, NoRow
<1>2. RequestsTyped /\ Locked
  BY DEF Init, RequestsTyped, Locked
<1>3. MergeTyped /\ MergeHolds
  BY DEF Init, MergeTyped, MergeHolds, NoMerge
<1>4. Pointed /\ RowsOfDone
  BY DEF Init, Pointed, RowsOfDone, NoMerge
<1>5. Cardinality(Advanced) \in Nat
  BY Sizes DEF Advanced
<1>6. CountsBounded
  BY <1>5 DEF Init, CountsBounded, NoRow, NoMerge
<1> QED
  BY <1>1, <1>2, <1>3, <1>4, <1>6 DEF Inv

\* A request that takes its row, or finds that there is none.
LEMMA SelectKeepsInv ==
    ASSUME Inv, NEW r \in Requests, Missing(r) \/ \E i \in Ids : Found(r, i)
    PROVE  Inv'
<1> USE GroupingAssumption
<1>0. UNCHANGED <<issue, stored, merge, removed, targets>> /\ pc[r] = "start"
  BY DEF Missing, Found
<1>1. RequestsTyped'
  BY <1>0 DEF Inv, RequestsTyped, Missing, Found, Goto
<1>2. Locked' /\ Pointed'
  <2>1. CASE Missing(r)
    BY <2>1 DEF Inv, Missing, Goto, RequestsTyped, Locked, Pointed, Live
  <2>2. ASSUME NEW i \in Ids, Found(r, i) PROVE Locked' /\ Pointed'
    <3>1. /\ lock' = [lock EXCEPT ![i] = r] /\ at' = [at EXCEPT ![r] = i]
          /\ pc' = [pc EXCEPT ![r] = "found"] /\ issue' = issue
          /\ i \in Live /\ lock[i] = None
      BY <2>2 DEF Found, Goto, Matching
    <3>2. Locked'
      BY <3>1 DEF Inv, RequestsTyped, Locked, Live
    <3>3. Pointed'
      BY <3>1 DEF Inv, RequestsTyped, Pointed, Live
    <3> QED
      BY <3>2, <3>3
  <2> QED
    BY <2>1, <2>2
<1>3. RowsOfDone'
  BY <1>0 DEF Inv, RequestsTyped, RowsOfDone, Missing, Found, Goto, MergeTyped
<1>4. Advanced' = Advanced
  BY <1>0 DEF Inv, RequestsTyped, Advanced, Missing, Found, Goto
<1> QED
  BY <1>0, <1>1, <1>2, <1>3, <1>4
     DEF Inv, IssuesTyped, MergeTyped, MergeHolds, CountsBounded, Live

\* A commit of groupEvent: one count and the set of commits grow by one.
LEMMA CommitKeepsInv ==
    ASSUME Inv, NEW r \in Requests, Update(r) \/ \E i \in Ids : Insert(r, i)
    PROVE  Inv'
<1> USE GroupingAssumption
<1>0. /\ UNCHANGED <<stored, merge, removed, targets>>
      /\ pc[r] \in {"found", "missing"} /\ pc' = [pc EXCEPT ![r] = "event"]
  BY DEF Update, Insert, Goto
<1>1. /\ Cardinality(Advanced') = Cardinality(Advanced) + 1
      /\ Cardinality(Advanced) \in Nat
  <2>1. Advanced' = Advanced \cup {r} /\ r \notin Advanced /\ Advanced \subseteq Requests
    BY <1>0 DEF Inv, RequestsTyped, Advanced
  <2> QED
    BY <2>1, OneMore, Sizes
<1>2. RowsOfDone'
  BY <1>0 DEF Inv, RequestsTyped, RowsOfDone, MergeTyped
<1>3. CASE Update(r)
  <2> DEFINE k == at[r]
  <2>1. /\ k \in Ids /\ issue[k].is = "live" /\ lock[k] = r
        /\ issue' = [issue EXCEPT ![k] = Counted(@)]
        /\ lock' = [lock EXCEPT ![k] = None] /\ at' = at
    BY <1>3 DEF Inv, Update, Locked, Live
  <2>2. /\ IssuesTyped'
        /\ \A i \in Ids : issue'[i].is = issue[i].is
        /\ \A i \in Ids : issue'[i].count \in {issue[i].count, issue[i].count + 1}
    BY <2>1 DEF Inv, IssuesTyped, Counted
  <2>3. Live' = Live
    BY <2>2 DEF Live
  <2>4. RequestsTyped'
    BY <1>0, <2>1 DEF Inv, RequestsTyped
  <2>5. Locked'
    BY <1>0, <2>1, <2>3 DEF Inv, RequestsTyped, Locked
  <2>6. Pointed'
    BY <1>0, <2>1, <2>2 DEF Inv, RequestsTyped, Pointed
  <2>7. CountsBounded'
    BY <1>0, <1>1, <2>2 DEF Inv, IssuesTyped, MergeTyped, CountsBounded
  <2> QED
    BY <1>0, <1>2, <2>2, <2>3, <2>4, <2>5, <2>6, <2>7 DEF Inv, MergeTyped, MergeHolds
<1>4. ASSUME NEW i \in Ids, Insert(r, i) PROVE Inv'
  <2>1. /\ issue[i].is = "unused"
        /\ issue' = [issue EXCEPT ![i] = [is |-> "live", fp |-> FpOf[r], count |-> 1]]
        /\ at' = [at EXCEPT ![r] = i] /\ lock' = lock
    BY <1>4 DEF Insert
  <2>2. /\ IssuesTyped' /\ issue'[i].is = "live" /\ issue'[i].count = 1
        /\ \A j \in Ids \ {i} : issue'[j] = issue[j]
    BY <2>1 DEF Inv, IssuesTyped
  <2>3. Live' = Live \cup {i}
    BY <2>2 DEF Live
  <2>4. RequestsTyped'
    BY <1>0, <2>1 DEF Inv, RequestsTyped
  <2>5. Locked'
    BY <1>0, <2>1, <2>3 DEF Inv, RequestsTyped, Locked
  <2>6. Pointed'
    BY <1>0, <2>1, <2>2 DEF Inv, RequestsTyped, Pointed
  <2>7. CountsBounded'
    BY <1>0, <1>1, <2>2 DEF Inv, IssuesTyped, MergeTyped, CountsBounded
  <2> QED
    BY <1>0, <1>2, <2>2, <2>3, <2>4, <2>5, <2>6, <2>7 DEF Inv, MergeTyped, MergeHolds
<1> QED
  BY <1>3, <1>4

\* The insert of the event, or a failure: no issue changes.
LEMMA EndKeepsInv ==
    ASSUME Inv, NEW r \in Requests, InsertEvent(r) \/ Fail(r)
    PROVE  Inv'
<1> USE GroupingAssumption
<1>0. UNCHANGED <<issue, merge, removed, targets>> /\ Live' = Live
  BY DEF InsertEvent, Fail, Live
<1>1. RequestsTyped'
  BY <1>0 DEF Inv, RequestsTyped, InsertEvent, Fail, Goto
<1>2. Locked'
  BY <1>0 DEF Inv, RequestsTyped, Locked, InsertEvent, Fail, Goto, Live
<1>3. Pointed'
  BY <1>0 DEF Inv, RequestsTyped, Pointed, InsertEvent, Fail, Goto
<1>4. RowsOfDone'
  BY <1>0 DEF Inv, RequestsTyped, MergeTyped, RowsOfDone, InsertEvent, Fail, Goto
<1>5. Advanced' = Advanced
  BY DEF Inv, RequestsTyped, Advanced, InsertEvent, Fail, Goto
<1> QED
  BY <1>0, <1>1, <1>2, <1>3, <1>4, <1>5
     DEF Inv, IssuesTyped, MergeTyped, MergeHolds, CountsBounded

\* A merge before its commit changes only itself.
LEMMA MergeKeepsInv ==
    ASSUME Inv, MergeMove \/ MergeCount \/ \E t, s \in Ids : MergeCheck(t, s)
    PROVE  Inv'
<1> USE GroupingAssumption
<1>0. UNCHANGED <<issue, lock, pc, at, stored, removed, targets>>
  BY DEF MergeCheck, MergeMove, MergeCount
<1>1. Live' = Live /\ Advanced' = Advanced
  BY <1>0 DEF Live, Advanced
<1>2. Cardinality(Advanced) \in Nat
  BY Sizes DEF Advanced
<1>3. /\ MergeTyped' /\ MergeHolds'
      /\ merge'.total <= Cardinality(Advanced) /\ \A r \in merge'.moved : pc[r] = "done"
  <2>1. CASE \E t, s \in Ids : MergeCheck(t, s)
    <3>1. PICK t \in Ids, s \in Ids : MergeCheck(t, s)
      BY <2>1
    <3>2. t # s /\ merge' = [phase |-> "checked", target |-> t, source |-> s,
                            moved |-> {}, total |-> 0]
      BY <3>1 DEF MergeCheck, NoMerge
    <3> QED
      BY <1>2, <3>2 DEF MergeTyped, MergeHolds
  <2>2. CASE MergeMove
    <3>1. EventsOf(merge.source) \subseteq Requests
      BY DEF EventsOf
    <3>2. CASE merge' = NoMerge
      BY <1>2, <3>2 DEF NoMerge, MergeTyped, MergeHolds
    <3>3. CASE merge' # NoMerge
      <4>1. /\ merge' = [merge EXCEPT !.phase = "moved", !.moved = EventsOf(merge.source)]
            /\ EventsOf(merge.source) = {} \/ merge.target \in Live
            /\ merge.phase = "checked"
        BY <2>2, <3>3 DEF MergeMove
      <4>2. MergeTyped' /\ MergeHolds' /\ merge'.total = merge.total
        BY <1>1, <3>1, <4>1 DEF Inv, MergeTyped, MergeHolds
      <4>3. \A r \in merge'.moved : pc[r] = "done"
        BY <4>1 DEF Inv, MergeTyped, MergeHolds, RowsOfDone, EventsOf
      <4> QED
        BY <4>2, <4>3 DEF Inv, CountsBounded
    <3> QED
      BY <3>2, <3>3
  <2>3. CASE MergeCount
    <3> DEFINE sum == (merge.moved \ removed) \cup EventsOf(merge.target)
    <3>1. /\ merge' = [merge EXCEPT !.phase = "counted", !.total = Cardinality(sum)]
          /\ merge.phase = "moved"
      BY <2>3 DEF MergeCount
    <3>2. sum \subseteq Advanced
      BY <3>1 DEF Inv, RequestsTyped, MergeTyped, MergeHolds, RowsOfDone, EventsOf, Advanced
    <3>3. Cardinality(sum) \in Nat /\ Cardinality(sum) <= Cardinality(Advanced)
      BY <3>2, Sizes DEF Advanced
    <3> HIDE DEF sum
    <3> QED
      BY <1>1, <3>1, <3>3 DEF Inv, MergeTyped, MergeHolds, RowsOfDone
  <2> QED
    BY <2>1, <2>2, <2>3
<1> QED
  BY <1>0, <1>1, <1>3
     DEF Inv, IssuesTyped, RequestsTyped, Locked, Pointed, RowsOfDone, CountsBounded

\* The commit of a merge, which ends it: the source goes, unless rows reached it.
LEMMA MergeCommitKeepsInv ==
    ASSUME Inv, MergeCommit
    PROVE  Inv'
<1> USE GroupingAssumption
<1> DEFINE t == merge.target
           s == merge.source
<1>0. /\ merge' = NoMerge /\ UNCHANGED <<lock, pc, at, removed>>
      /\ t \in Ids /\ s \in Ids /\ t # s /\ lock[t] = None /\ lock[s] = None
  BY DEF Inv, MergeCommit, MergeHolds
<1>1. MergeTyped' /\ MergeHolds'
  BY <1>0 DEF MergeTyped, MergeHolds, NoMerge
<1>2. Cardinality(Advanced) \in Nat /\ Advanced' = Advanced
  BY <1>0, Sizes DEF Advanced
<1>3. CASE UNCHANGED <<issue, stored, targets>>
  BY <1>0, <1>1, <1>2, <1>3
     DEF Inv, IssuesTyped, RequestsTyped, Locked, Pointed, RowsOfDone, CountsBounded,
         NoMerge, Live
<1>4. CASE /\ issue' = [issue EXCEPT
                  ![t] = IF t \in Live THEN [@ EXCEPT !.count = merge.total] ELSE @,
                  ![s] = NoRow("gone")]
           /\ stored' = [r \in Requests |-> IF r \in EventsOf(s) THEN t ELSE stored[r]]
           /\ targets' = targets \cup {t}
  <2>1. /\ IssuesTyped' /\ issue'[s].is = "gone" /\ issue'[s].count = 0
        /\ \A i \in Ids \ {s} : issue'[i].is = issue[i].is
        /\ \A i \in Ids \ {s} : issue'[i].count \in {issue[i].count, merge.total}
    BY <1>0, <1>4 DEF Inv, IssuesTyped, MergeTyped, NoRow
  <2>2. Live' = Live \ {s}
    BY <1>0, <2>1 DEF Live
  <2>3. RequestsTyped'
    BY <1>0, <1>4 DEF Inv, RequestsTyped
  <2>4. Locked'
    BY <1>0, <2>2 DEF Inv, RequestsTyped, Locked
  <2>5. Pointed'
    BY <1>0, <2>1 DEF Inv, RequestsTyped, Pointed
  <2>6. RowsOfDone'
    BY <1>0, <1>4 DEF Inv, RequestsTyped, RowsOfDone, EventsOf, NoMerge
  <2>7. CountsBounded'
    BY <1>0, <1>2, <2>1 DEF Inv, CountsBounded, NoMerge
  <2> QED
    BY <1>1, <2>1, <2>3, <2>4, <2>5, <2>6, <2>7 DEF Inv
<1> QED
  BY <1>3, <1>4 DEF MergeCommit

\* A deletion, and retention.
LEMMA DeleteKeepsInv ==
    ASSUME Inv, (\E i \in Ids : DeleteIssue(i)) \/ \E r \in Requests : Expire(r)
    PROVE  Inv'
<1> USE GroupingAssumption
<1>0. UNCHANGED <<lock, pc, at, merge, targets>> /\ Advanced' = Advanced
  BY DEF DeleteIssue, Expire, Advanced
<1>1. RequestsTyped' /\ RowsOfDone'
  BY <1>0 DEF Inv, RequestsTyped, RowsOfDone, DeleteIssue, Expire, EventsOf
<1>2. ASSUME NEW i \in Ids, DeleteIssue(i) PROVE Inv'
  <2>1. /\ i \in Live /\ lock[i] = None /\ issue' = [issue EXCEPT ![i] = NoRow("gone")]
        /\ merge.moved # {} => i # merge.target
    BY <1>2 DEF DeleteIssue
  <2>2. /\ IssuesTyped' /\ issue'[i].is = "gone" /\ issue'[i].count = 0
        /\ \A j \in Ids \ {i} : issue'[j] = issue[j]
    BY <2>1 DEF Inv, IssuesTyped, NoRow
  <2>3. Live' = Live \ {i}
    BY <2>2 DEF Live
  <2>4. Locked'
    BY <1>0, <2>1, <2>3 DEF Inv, RequestsTyped, Locked
  <2>5. Pointed'
    BY <1>0, <2>2 DEF Inv, RequestsTyped, Pointed
  <2>6. MergeTyped' /\ MergeHolds'
    BY <1>0, <2>1, <2>3 DEF Inv, MergeTyped, MergeHolds
  <2>7. CountsBounded'
    <3>1. Cardinality(Advanced) \in Nat
      BY Sizes DEF Advanced
    <3> QED
      BY <1>0, <2>2, <3>1 DEF Inv, CountsBounded
  <2> QED
    BY <1>1, <2>2, <2>4, <2>5, <2>6, <2>7 DEF Inv
<1>3. ASSUME NEW r \in Requests, Expire(r) PROVE Inv'
  <2>1. UNCHANGED issue /\ Live' = Live
    BY <1>3 DEF Expire, Live
  <2> QED
    BY <1>0, <1>1, <2>1
       DEF Inv, IssuesTyped, Locked, Pointed, MergeTyped, MergeHolds, CountsBounded
<1> QED
  BY <1>2, <1>3

LEMMA InvStep == Inv /\ [Next]_vars => Inv'
<1> SUFFICES ASSUME Inv, [Next]_vars PROVE Inv'
  OBVIOUS
<1>1. ASSUME NEW r \in Requests, Ingest(r) PROVE Inv'
  BY <1>1, SelectKeepsInv, CommitKeepsInv, EndKeepsInv DEF Ingest
<1>2. CASE UNCHANGED vars
  BY <1>2 DEF vars, Inv, IssuesTyped, RequestsTyped, Locked, MergeTyped, Pointed,
              RowsOfDone, MergeHolds, CountsBounded, Live, Advanced
<1> QED
  BY <1>1, <1>2, MergeKeepsInv, MergeCommitKeepsInv, DeleteKeepsInv DEF Next

LEMMA InvAlways == Spec => []Inv
  BY InvInit, InvStep, PTL DEF Spec

-----------------------------------------------------------------------------
(***************************************************************************)
(* What the specification promises.                                        *)
(***************************************************************************)
\* Every variable keeps its type, and a request between the select and the update
\* of groupEvent holds a row that nobody deletes.
THEOREM TypeCorrect == Spec => []TypeOK
  BY InvAlways, InvGivesTypes, PTL

\* An accepted event is on an issue that exists until a deletion or retention
\* takes it: a merge moves rows only to an issue that it keeps from being deleted.
THEOREM AcceptedEventsKept == Spec => []EventsKept
<1> USE GroupingAssumption
<1>1. Init => EventsKept
  BY DEF Init, EventsKept
<1>2. Inv /\ EventsKept /\ [Next]_vars => EventsKept'
  <2> SUFFICES ASSUME Inv, EventsKept, [Next]_vars PROVE EventsKept'
    OBVIOUS
  <2> USE DEF EventsKept
  <2>0. UNCHANGED issue => Live' = Live
    BY DEF Live
  <2>1. ASSUME NEW r \in Requests, Missing(r) \/ \E i \in Ids : Found(r, i)
        PROVE  EventsKept'
    BY <2>0, <2>1 DEF Inv, RequestsTyped, Missing, Found, Goto
  <2>2. ASSUME NEW r \in Requests, Update(r) PROVE EventsKept'
    <3>1. Live' = Live
      BY <2>2 DEF Inv, IssuesTyped, Update, Counted, Live
    <3> QED
      BY <2>2, <3>1 DEF Inv, RequestsTyped, Update, Goto
  <2>3. ASSUME NEW r \in Requests, NEW i \in Ids, Insert(r, i) PROVE EventsKept'
    <3>1. Live \subseteq Live'
      BY <2>3 DEF Inv, IssuesTyped, Insert, Live
    <3> QED
      BY <2>3, <3>1 DEF Inv, RequestsTyped, Insert, Goto
  <2>4. ASSUME NEW r \in Requests, InsertEvent(r) \/ Fail(r) PROVE EventsKept'
    BY <2>0, <2>4 DEF Inv, RequestsTyped, InsertEvent, Fail, Goto
  <2>5. CASE MergeMove \/ MergeCount \/ \E t, s \in Ids : MergeCheck(t, s)
    BY <2>0, <2>5 DEF MergeMove, MergeCount, MergeCheck
  <2>6. CASE MergeCommit
    <3> DEFINE t == merge.target
               s == merge.source
    <3>1. /\ UNCHANGED <<pc, removed>> /\ t \in Ids /\ s \in Ids /\ t # s
      BY <2>6 DEF Inv, MergeCommit, MergeHolds
    <3>2. CASE UNCHANGED <<issue, stored, targets>>
      BY <2>0, <3>1, <3>2
    <3>3. CASE /\ EventsOf(s) \subseteq merge.moved
               /\ issue' = [issue EXCEPT
                      ![t] = IF t \in Live THEN [@ EXCEPT !.count = merge.total] ELSE @,
                      ![s] = NoRow("gone")]
               /\ stored' = [r \in Requests |-> IF r \in EventsOf(s) THEN t ELSE stored[r]]
      <4>1. Live' = Live \ {s}
        BY <3>1, <3>3 DEF Inv, IssuesTyped, NoRow, Live
      <4>2. EventsOf(s) # {} => t \in Live
        BY <3>3 DEF Inv, MergeHolds
      <4> QED
        BY <3>1, <3>3, <4>1, <4>2 DEF EventsOf
    <3> QED
      BY <2>6, <3>2, <3>3 DEF MergeCommit
  <2>7. ASSUME NEW i \in Ids, DeleteIssue(i) PROVE EventsKept'
    <3>1. Live' = Live \ {i}
      BY <2>7 DEF Inv, IssuesTyped, DeleteIssue, NoRow, Live
    <3> QED
      BY <2>7, <3>1 DEF DeleteIssue, EventsOf
  <2>8. ASSUME NEW r \in Requests, Expire(r) PROVE EventsKept'
    BY <2>0, <2>8 DEF Inv, RequestsTyped, Expire
  <2>9. CASE UNCHANGED vars
    BY <2>0, <2>9 DEF vars
  <2> QED
    BY <2>1, <2>2, <2>3, <2>4, <2>5, <2>6, <2>7, <2>8, <2>9 DEF Next, Ingest
<1> QED
  BY <1>1, <1>2, InvAlways, PTL DEF Spec

\* The count of an issue that no other was merged into is the number of requests
\* that counted their event on it: the row lock keeps an increment from being lost,
\* and a new issue is nobody's yet.
THEOREM CountsExact == Spec => []CountIsExact
<1> USE GroupingAssumption
<1>1. Init => CountIsExact
  BY DEF Init, CountIsExact, Live, NoRow
<1>2. Inv /\ CountIsExact /\ [Next]_vars => CountIsExact'
  <2> SUFFICES ASSUME Inv, CountIsExact, [Next]_vars PROVE CountIsExact'
    OBVIOUS
  <2>0. ASSUME UNCHANGED <<issue, targets>>, \A i \in Ids : CountedOn(i)' = CountedOn(i)
        PROVE  CountIsExact'
    BY <2>0 DEF CountIsExact, Live
  <2>1. ASSUME NEW r \in Requests, Missing(r) \/ \E i \in Ids : Found(r, i)
        PROVE  CountIsExact'
    <3>1. \A i \in Ids : CountedOn(i)' = CountedOn(i)
      BY <2>1 DEF Inv, RequestsTyped, Missing, Found, Goto, CountedOn
    <3> QED
      BY <2>0, <2>1, <3>1 DEF Missing, Found
  <2>2. ASSUME NEW r \in Requests, Update(r) PROVE CountIsExact'
    <3> DEFINE k == at[r]
    <3>1. /\ k \in Live /\ k \in Ids /\ pc[r] = "found" /\ issue[k].count \in Nat
          /\ issue' = [issue EXCEPT ![k] = Counted(@)] /\ at' = at /\ targets' = targets
          /\ pc' = [pc EXCEPT ![r] = "event"]
      BY <2>2 DEF Inv, IssuesTyped, Update, Goto, Locked, Live
    <3>2. /\ Live' = Live /\ issue'[k].count = issue[k].count + 1
          /\ \A i \in Ids \ {k} : issue'[i] = issue[i]
      BY <3>1 DEF Inv, IssuesTyped, Counted, Live
    <3> SUFFICES ASSUME NEW i \in Live, i \notin targets
                 PROVE  issue'[i].count = Cardinality(CountedOn(i)')
      BY <3>1, <3>2 DEF CountIsExact
    <3>3. i \in Ids /\ issue[i].count = Cardinality(CountedOn(i))
      BY DEF CountIsExact, Live
    <3>4. CASE i = k
      <4>1. /\ CountedOn(i)' = CountedOn(i) \cup {r} /\ r \notin CountedOn(i)
            /\ CountedOn(i) \subseteq Requests
        BY <3>1, <3>4 DEF Inv, RequestsTyped, CountedOn
      <4> QED
        BY <3>2, <3>3, <3>4, <4>1, OneMore
    <3>5. CASE i # k
      <4>1. CountedOn(i)' = CountedOn(i)
        BY <3>1, <3>3, <3>5 DEF Inv, RequestsTyped, CountedOn
      <4> QED
        BY <3>2, <3>3, <3>5, <4>1
    <3> QED
      BY <3>4, <3>5
  <2>3. ASSUME NEW r \in Requests, NEW k \in Ids, Insert(r, k) PROVE CountIsExact'
    <3>1. /\ pc[r] = "missing" /\ issue[k].is = "unused"
          /\ issue' = [issue EXCEPT ![k] = [is |-> "live", fp |-> FpOf[r], count |-> 1]]
          /\ at' = [at EXCEPT ![r] = k] /\ targets' = targets
          /\ pc' = [pc EXCEPT ![r] = "event"]
      BY <2>3 DEF Insert, Goto
    <3>2. \A q \in Requests : at[q] # k
      BY <3>1 DEF Inv, Pointed
    <3>3. CountedOn(k)' = {r} /\ \A i \in Ids \ {k} : CountedOn(i)' = CountedOn(i)
      BY <3>1, <3>2 DEF Inv, RequestsTyped, CountedOn
    <3>4. Cardinality({r}) = 1
      BY FS_Singleton
    <3>5. /\ Live' = Live \cup {k} /\ issue'[k].count = 1
          /\ \A i \in Ids \ {k} : issue'[i] = issue[i]
      BY <3>1 DEF Inv, IssuesTyped, Live
    <3> SUFFICES ASSUME NEW i \in Live', i \notin targets
                 PROVE  issue'[i].count = Cardinality(CountedOn(i)')
      BY <3>1 DEF CountIsExact
    <3>6. CASE i = k
      BY <3>3, <3>4, <3>5, <3>6
    <3>7. CASE i # k
      BY <3>3, <3>5, <3>7 DEF CountIsExact, Live
    <3> QED
      BY <3>6, <3>7
  <2>4. ASSUME NEW r \in Requests, InsertEvent(r) \/ Fail(r) PROVE CountIsExact'
    <3>1. \A i \in Ids : CountedOn(i)' = CountedOn(i)
      BY <2>4 DEF Inv, RequestsTyped, InsertEvent, Fail, Goto, CountedOn
    <3> QED
      BY <2>0, <2>4, <3>1 DEF InsertEvent, Fail
  <2>5. ASSUME UNCHANGED <<pc, at>> PROVE \A i \in Ids : CountedOn(i)' = CountedOn(i)
    BY <2>5 DEF CountedOn
  <2>6. CASE MergeMove \/ MergeCount \/ \E t, s \in Ids : MergeCheck(t, s)
    BY <2>0, <2>5, <2>6 DEF MergeMove, MergeCount, MergeCheck
  <2>7. CASE MergeCommit
    <3> DEFINE t == merge.target
               s == merge.source
    <3>1. UNCHANGED <<pc, at>> /\ t \in Ids /\ s \in Ids /\ t # s
      BY <2>7 DEF Inv, MergeCommit, MergeHolds
    <3>2. CASE UNCHANGED <<issue, stored, targets>>
      BY <2>0, <2>5, <3>1, <3>2
    <3>3. CASE /\ issue' = [issue EXCEPT
                      ![t] = IF t \in Live THEN [@ EXCEPT !.count = merge.total] ELSE @,
                      ![s] = NoRow("gone")]
               /\ targets' = targets \cup {t}
      <4>1. /\ Live' = Live \ {s}
            /\ \A i \in Ids \ {s, t} : issue'[i] = issue[i]
        BY <3>1, <3>3 DEF Inv, IssuesTyped, NoRow, Live
      <4> SUFFICES ASSUME NEW i \in Live, i # s, i # t, i \notin targets
                   PROVE  issue'[i].count = Cardinality(CountedOn(i)')
        BY <3>3, <4>1 DEF CountIsExact
      <4>2. i \in Ids /\ CountedOn(i)' = CountedOn(i) /\ issue'[i] = issue[i]
        BY <2>5, <3>1, <4>1 DEF Live
      <4> QED
        BY <4>2 DEF CountIsExact
    <3> QED
      BY <2>7, <3>2, <3>3 DEF MergeCommit
  <2>8. ASSUME NEW k \in Ids, DeleteIssue(k) PROVE CountIsExact'
    <3>1. Live' = Live \ {k} /\ \A i \in Ids \ {k} : issue'[i] = issue[i]
      BY <2>8 DEF Inv, IssuesTyped, DeleteIssue, NoRow, Live
    <3> QED
      BY <2>5, <2>8, <3>1 DEF DeleteIssue, CountIsExact, Live
  <2>9. ASSUME NEW r \in Requests, Expire(r) PROVE CountIsExact'
    BY <2>0, <2>5, <2>9 DEF Expire
  <2>10. CASE UNCHANGED vars
    BY <2>0, <2>5, <2>10 DEF vars
  <2> QED
    BY <2>1, <2>2, <2>3, <2>4, <2>6, <2>7, <2>8, <2>9, <2>10 DEF Next, Ingest
<1> QED
  BY <1>1, <1>2, InvAlways, PTL DEF Spec

-----------------------------------------------------------------------------
(***************************************************************************)
(* When the lock of groupEvent does what its comment says.                 *)
(***************************************************************************)
\* A lookup finds no issue only while no other request of the fingerprint is between
\* such a lookup and its insert.
OneFirstAtATime ==
    \A r, q \in Requests :
        pc[r] = "start" /\ pc'[r] = "missing" /\ FpOf[q] = FpOf[r] => pc[q] # "missing"

\* A request about to insert is the only one of its fingerprint, which has no issue.
FirstAlone ==
    \A r \in Requests : pc[r] = "missing" =>
        /\ \A i \in Live : issue[i].fp # FpOf[r]
        /\ \A q \in Requests : pc[q] = "missing" /\ FpOf[q] = FpOf[r] => q = r

\* Steps after which no more issues live, of the same fingerprints, and no more requests
\* are about to insert.
LEMMA NothingNew ==
    ASSUME FirstAlone, OneIssuePerFingerprint,
           Live' \subseteq Live, \A i \in Live' : issue'[i].fp = issue[i].fp,
           \A r \in Requests : pc'[r] = "missing" => pc[r] = "missing"
    PROVE  (FirstAlone /\ OneIssuePerFingerprint)'
  BY DEF FirstAlone, OneIssuePerFingerprint

\* The comment above groupEvent is true of every history in which no two requests of a
\* fingerprint are first at once (ingestion/grouper.ts): whatever is counted, merged,
\* deleted, expired or rolled back, a second issue of a live fingerprint takes two
\* lookups that both found none before either inserted, which a unique index or a lock
\* on the fingerprint would rule out.
THEOREM OneIssueUnlessTwoAreFirst ==
    Spec /\ [][OneFirstAtATime]_vars => []OneIssuePerFingerprint
<1>1. Init => FirstAlone /\ OneIssuePerFingerprint
  BY DEF Init, NoRow, Live, FirstAlone, OneIssuePerFingerprint
<1>2. Inv /\ FirstAlone /\ OneIssuePerFingerprint /\ [Next]_vars /\ [OneFirstAtATime]_vars
        => (FirstAlone /\ OneIssuePerFingerprint)'
  <2> SUFFICES ASSUME Inv, FirstAlone, OneIssuePerFingerprint, [Next]_vars,
                      [OneFirstAtATime]_vars
               PROVE  (FirstAlone /\ OneIssuePerFingerprint)'
    OBVIOUS
  <2>0. IssuesTyped /\ RequestsTyped /\ Locked
    BY DEF Inv
  <2>1. ASSUME NEW r \in Requests, NEW i \in Ids, Found(r, i)
        PROVE  (FirstAlone /\ OneIssuePerFingerprint)'
    BY <2>0, <2>1, NothingNew DEF RequestsTyped, Found, Goto, Live
  <2>2. ASSUME NEW r \in Requests, Missing(r)
        PROVE  (FirstAlone /\ OneIssuePerFingerprint)'
    <3>1. /\ pc[r] = "start" /\ pc' = [pc EXCEPT ![r] = "missing"] /\ issue' = issue
          /\ \A i \in Live : issue[i].fp # FpOf[r]
      BY <2>2 DEF Missing, Goto, Matching
    <3>2. pc' # pc /\ OneFirstAtATime
      BY <2>0, <3>1 DEF RequestsTyped, vars
    <3>3. \A q \in Requests : FpOf[q] = FpOf[r] => pc[q] # "missing"
      BY <2>0, <3>1, <3>2 DEF OneFirstAtATime, RequestsTyped
    <3>4. \A q \in Requests : pc'[q] = IF q = r THEN "missing" ELSE pc[q]
      BY <2>0, <3>1 DEF RequestsTyped
    <3>5. Live' = Live
      BY <3>1 DEF Live
    <3>6. FirstAlone'
      BY <3>1, <3>3, <3>4, <3>5 DEF FirstAlone
    <3> QED
      BY <3>1, <3>5, <3>6 DEF OneIssuePerFingerprint
  <2>3. ASSUME NEW r \in Requests, Update(r)
        PROVE  (FirstAlone /\ OneIssuePerFingerprint)'
    <3>1. \A i \in Ids : issue'[i].is = issue[i].is /\ issue'[i].fp = issue[i].fp
      BY <2>0, <2>3 DEF IssuesTyped, RequestsTyped, Locked, Update, Counted, Live
    <3>2. Live' = Live
      BY <3>1 DEF Live
    <3> QED
      BY <2>0, <2>3, <3>1, <3>2, NothingNew DEF RequestsTyped, Update, Goto, Live
  <2>4. ASSUME NEW r \in Requests, NEW i \in Ids, Insert(r, i)
        PROVE  (FirstAlone /\ OneIssuePerFingerprint)'
    <3>1. /\ pc[r] = "missing" /\ pc' = [pc EXCEPT ![r] = "event"]
          /\ issue' = [issue EXCEPT ![i] = [is |-> "live", fp |-> FpOf[r], count |-> 1]]
      BY <2>4 DEF Insert, Goto
    <3>2. /\ issue'[i].fp = FpOf[r] /\ i \in Live' /\ Live' \subseteq Live \cup {i}
          /\ \A j \in Ids \ {i} : issue'[j] = issue[j]
      BY <2>0, <3>1 DEF IssuesTyped, Live
    <3>3. \A q \in Requests : pc'[q] = "missing" => pc[q] = "missing" /\ q # r
      BY <2>0, <3>1 DEF RequestsTyped
    <3>4. \A j \in Live' : j # i => j \in Live /\ issue'[j].fp = issue[j].fp
      BY <3>2 DEF Live
    <3>5. \A j \in Live : issue[j].fp # FpOf[r]
      BY <3>1 DEF FirstAlone
    <3>6. FirstAlone'
      BY <3>1, <3>2, <3>3, <3>4 DEF FirstAlone
    <3>7. OneIssuePerFingerprint'
      BY <3>2, <3>4, <3>5 DEF OneIssuePerFingerprint
    <3> QED
      BY <3>6, <3>7
  <2>5. ASSUME NEW r \in Requests, InsertEvent(r) \/ Fail(r)
        PROVE  (FirstAlone /\ OneIssuePerFingerprint)'
    BY <2>0, <2>5, NothingNew DEF RequestsTyped, InsertEvent, Fail, Goto, Live
  <2>6. ASSUME MergeMove \/ MergeCount \/ (\E t, s \in Ids : MergeCheck(t, s))
        PROVE  (FirstAlone /\ OneIssuePerFingerprint)'
    BY <2>6, NothingNew DEF MergeMove, MergeCount, MergeCheck, Live
  <2>7. ASSUME MergeCommit PROVE (FirstAlone /\ OneIssuePerFingerprint)'
    <3>1. MergeHolds /\ merge.phase # "none"
      BY <2>7 DEF MergeCommit, Inv
    <3>2. merge.target \in Ids /\ merge.source \in Ids /\ merge.target # merge.source
      BY <3>1 DEF MergeHolds
    <3>3. \A j \in Live' : j \in Live /\ issue'[j].fp = issue[j].fp
      <4>1. CASE issue' = issue
        BY <4>1 DEF Live
      <4>2. CASE issue' = [issue EXCEPT
                   ![merge.target] = IF merge.target \in Live
                                     THEN [@ EXCEPT !.count = merge.total] ELSE @,
                   ![merge.source] = NoRow("gone")]
        BY <2>0, <3>2, <4>2 DEF IssuesTyped, NoRow, Live
      <4> QED
        BY <2>7, <4>1, <4>2 DEF MergeCommit
    <3>4. pc' = pc
      BY <2>7 DEF MergeCommit
    <3> QED
      BY <3>3, <3>4, NothingNew
  <2>8. ASSUME NEW i \in Ids, DeleteIssue(i)
        PROVE  (FirstAlone /\ OneIssuePerFingerprint)'
    <3>1. \A j \in Live' : j \in Live /\ issue'[j].fp = issue[j].fp
      BY <2>0, <2>8 DEF IssuesTyped, DeleteIssue, NoRow, Live
    <3> QED
      BY <2>8, <3>1, NothingNew DEF DeleteIssue
  <2>9. ASSUME NEW r \in Requests, Expire(r)
        PROVE  (FirstAlone /\ OneIssuePerFingerprint)'
    BY <2>9, NothingNew DEF Expire, Live
  <2>10. CASE UNCHANGED vars
    BY <2>10, NothingNew DEF vars, Live
  <2> QED
    BY <2>1, <2>2, <2>3, <2>4, <2>5, <2>6, <2>7, <2>8, <2>9, <2>10 DEF Next, Ingest
<1> QED
  BY <1>1, <1>2, InvAlways, PTL DEF Spec
=============================================================================
