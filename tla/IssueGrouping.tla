---------------------------- MODULE IssueGrouping ----------------------------
(***************************************************************************)
(* Ingestion of error events and the life of the issues that group them:   *)
(* src/api/sentry-ingest.ts (ingestEvent), src/ingestion/grouper.ts        *)
(* (groupEvent) and the merge and delete handlers of src/api/issues.ts.    *)
(*                                                                         *)
(* A request counts its event in one transaction and stores it with a      *)
(* separate insert.  A transaction of Postgres (read committed) is modelled*)
(* by its statements where another one can come between them, with the row *)
(* locks that matter: FOR UPDATE of groupEvent, which the inserts of rows  *)
(* that refer to the issue and its deletion wait for.                      *)
(***************************************************************************)
EXTENDS Naturals, FiniteSets

CONSTANTS Requests,      \* events being ingested, one request each
          Fingerprints,
          FpOf,          \* the fingerprint of each event
          Ids,           \* bound: issues ever created
          None,
          Merging,       \* whether issues are merged
          Faulty         \* whether Postgres may fail

ASSUME GroupingAssumption ==
    /\ IsFiniteSet(Requests) /\ IsFiniteSet(Ids)
    /\ FpOf \in [Requests -> Fingerprints]
    /\ None \notin Ids \cup Requests \cup Fingerprints
    /\ Merging \in BOOLEAN /\ Faulty \in BOOLEAN

VARIABLES
    issue,    \* issues: the row of an id, with whether it exists yet or still
    lock,     \* the request that holds the row FOR UPDATE, or None
    pc,       \* where each request is
    at,       \* issueId: the issue that a request counted its event on
    stored,   \* events: the issue_id of the event's row, None without a row
    merge,    \* the merge in flight
    removed,  \* history: the events deleted with their issue or by retention
    targets   \* history: the issues another one was merged into

vars == <<issue, lock, pc, at, stored, merge, removed, targets>>

Row == [is : {"unused", "live", "gone"}, fp : Fingerprints \cup {None},
        count : 0..Cardinality(Requests)]
NoRow(what) == [is |-> what, fp |-> None, count |-> 0]
Live == {i \in Ids : issue[i].is = "live"}
EventsOf(i) == {r \in Requests : stored[r] = i}

NoMerge == [phase |-> "none", target |-> None, source |-> None,
            moved |-> {}, total |-> 0]

Init ==
    /\ issue = [i \in Ids |-> NoRow("unused")]
    /\ lock = [i \in Ids |-> None]
    /\ pc = [r \in Requests |-> "start"]
    /\ at = [r \in Requests |-> None]
    /\ stored = [r \in Requests |-> None]
    /\ merge = NoMerge
    /\ removed = {}
    /\ targets = {}

\* The merge has re-pointed events to i: their new references keep a share lock.
SharedByMerge(i) == merge.target = i /\ merge.moved # {}

-----------------------------------------------------------------------------
(***************************************************************************)
(* ingestEvent: the transaction of groupEvent, then the insert of the      *)
(* event.                                                                  *)
(***************************************************************************)
Goto(r, to) == pc' = [pc EXCEPT ![r] = to]
Matching(r) == {i \in Live : issue[i].fp = FpOf[r]}

\* SELECT ... LIMIT 1 FOR UPDATE finds an issue and locks it, waiting for the
\* one who has it locked.
Found(r, i) ==
    /\ pc[r] = "start"
    /\ i \in Matching(r)
    /\ lock[i] = None /\ ~SharedByMerge(i)
    /\ lock' = [lock EXCEPT ![i] = r]
    /\ at' = [at EXCEPT ![r] = i]
    /\ Goto(r, "found")
    /\ UNCHANGED <<issue, stored, merge, removed, targets>>

\* It finds none, and locks nothing.
Missing(r) ==
    /\ pc[r] = "start"
    /\ Matching(r) = {}
    /\ Goto(r, "missing")
    /\ UNCHANGED <<issue, lock, at, stored, merge, removed, targets>>

Counted(row) == [row EXCEPT !.count = @ + 1]

\* Defect: the update names the fingerprint instead of the row.
UpdateByFingerprint(r) ==
    /\ pc[r] = "found"
    /\ issue' = [i \in Ids |-> IF i \in Matching(r) THEN Counted(issue[i]) ELSE issue[i]]
    /\ lock' = [lock EXCEPT ![at[r]] = None]
    /\ Goto(r, "event")
    /\ UNCHANGED <<at, stored, merge, removed, targets>>

\* UPDATE ... SET count = count + 1, and the commit.
Update(r) ==
    /\ pc[r] = "found"
    /\ issue' = [issue EXCEPT ![at[r]] = Counted(@)]
    /\ lock' = [lock EXCEPT ![at[r]] = None]
    /\ Goto(r, "event")
    /\ UNCHANGED <<at, stored, merge, removed, targets>>

\* The insert of a new issue, and the commit; nothing in the schema makes
\* (project_id, fingerprint) unique.
Insert(r, i) ==
    /\ pc[r] = "missing"
    /\ issue[i].is = "unused"
    /\ issue' = [issue EXCEPT ![i] = [is |-> "live", fp |-> FpOf[r], count |-> 1]]
    /\ at' = [at EXCEPT ![r] = i]
    /\ Goto(r, "event")
    /\ UNCHANGED <<lock, stored, merge, removed, targets>>

\* The insert into events; its foreign key fails when the issue was deleted.
InsertEvent(r) ==
    /\ pc[r] = "event"
    /\ lock[at[r]] = None
    /\ IF at[r] \in Live
       THEN stored' = [stored EXCEPT ![r] = at[r]] /\ Goto(r, "done")
       ELSE Goto(r, "lost") /\ UNCHANGED stored
    /\ UNCHANGED <<issue, lock, at, merge, removed, targets>>

\* Postgres fails: the transaction rolls back, or only the insert is lost.
Fail(r) ==
    /\ Faulty
    /\ pc[r] \in {"start", "found", "missing", "event"}
    /\ lock' = [i \in Ids |-> IF lock[i] = r THEN None ELSE lock[i]]
    /\ IF pc[r] = "event"
       THEN Goto(r, "lost") /\ UNCHANGED at
       ELSE Goto(r, "failed") /\ at' = [at EXCEPT ![r] = None]
    /\ UNCHANGED <<issue, stored, merge, removed, targets>>

Ingest(r) ==
    \/ Missing(r) \/ Update(r) \/ InsertEvent(r) \/ Fail(r)
    \/ \E i \in Ids : Found(r, i) \/ Insert(r, i)

-----------------------------------------------------------------------------
(***************************************************************************)
(* POST /issues/merge with one source, DELETE /issues/:id and retention.   *)
(***************************************************************************)
\* The handler reads target and source and finds both, outside the transaction.
MergeCheck(t, s) ==
    /\ Merging
    /\ merge = NoMerge
    /\ t \in Live /\ s \in Live /\ t # s
    /\ merge' = [NoMerge EXCEPT !.phase = "checked", !.target = t, !.source = s]
    /\ UNCHANGED <<issue, lock, pc, at, stored, removed, targets>>

\* The first statement: the committed events of the source are re-pointed, which
\* others see after the commit; the foreign key fails if the target is gone.
MergeMove ==
    LET here == EventsOf(merge.source)
    IN  /\ merge.phase = "checked"
        /\ here # {} => lock[merge.target] = None
        /\ merge' = IF here = {} \/ merge.target \in Live
                    THEN [merge EXCEPT !.phase = "moved", !.moved = here]
                    ELSE NoMerge
        /\ UNCHANGED <<issue, lock, pc, at, stored, removed, targets>>

\* SELECT count(*): the events moved and those committed on the target.
MergeCount ==
    /\ merge.phase = "moved"
    /\ merge' = [merge EXCEPT
          !.phase = "counted",
          !.total = Cardinality((merge.moved \ removed) \cup EventsOf(merge.target))]
    /\ UNCHANGED <<issue, lock, pc, at, stored, removed, targets>>

\* Defect: events that reached the source meanwhile are deleted with it.
MergeCommitErases ==
    LET t == merge.target
        s == merge.source
    IN  /\ merge.phase = "counted"
        /\ lock[t] = None /\ lock[s] = None
        /\ issue' = [issue EXCEPT
              ![t] = IF t \in Live THEN [@ EXCEPT !.count = merge.total] ELSE @,
              ![s] = NoRow("gone")]
        /\ stored' = [r \in Requests |-> IF stored[r] # s THEN stored[r]
                                         ELSE IF r \in merge.moved THEN t ELSE None]
        /\ targets' = targets \cup {t}
        /\ merge' = NoMerge
        /\ UNCHANGED <<lock, pc, at, removed>>

\* UPDATE of the target's count, DELETE of the source and the commit, each
\* waiting for row locks; an event that reached the source meanwhile makes the
\* foreign key fail, and the transaction roll back.
MergeCommit ==
    LET t == merge.target
        s == merge.source
    IN  /\ merge.phase = "counted"
        /\ lock[t] = None /\ lock[s] = None
        /\ IF EventsOf(s) \subseteq merge.moved
           THEN /\ issue' = [issue EXCEPT
                      ![t] = IF t \in Live THEN [@ EXCEPT !.count = merge.total] ELSE @,
                      ![s] = NoRow("gone")]
                /\ stored' = [r \in Requests |->
                                 IF r \in EventsOf(s) THEN t ELSE stored[r]]
                /\ targets' = targets \cup {t}
           ELSE UNCHANGED <<issue, stored, targets>>
        /\ merge' = NoMerge
        /\ UNCHANGED <<lock, pc, at, removed>>

\* The transaction of DELETE; it waits for the locks of a merge of the issue.
DeleteIssue(i) ==
    /\ i \in Live /\ lock[i] = None
    /\ merge.moved # {} => i \notin {merge.source, merge.target}
    /\ issue' = [issue EXCEPT ![i] = NoRow("gone")]
    /\ stored' = [r \in Requests |-> IF stored[r] = i THEN None ELSE stored[r]]
    /\ removed' = removed \cup EventsOf(i)
    /\ UNCHANGED <<lock, pc, at, merge, targets>>

\* The retention worker deletes an old event; a row a merge has moved is locked.
Expire(r) ==
    /\ stored[r] # None
    /\ r \notin merge.moved
    /\ stored' = [stored EXCEPT ![r] = None]
    /\ removed' = removed \cup {r}
    /\ UNCHANGED <<issue, lock, pc, at, merge, targets>>

Next ==
    \/ \E r \in Requests : Ingest(r) \/ Expire(r)
    \/ \E t, s \in Ids : MergeCheck(t, s)
    \/ MergeMove \/ MergeCount \/ MergeCommit
    \/ \E i \in Ids : DeleteIssue(i)

Spec == Init /\ [][Next]_vars

-----------------------------------------------------------------------------
(* Properties.                                                             *)

\* Every variable has its type; a request between groupEvent's select and its
\* update holds the row it found, and that row is not deleted under it.
TypeOK ==
    /\ issue \in [Ids -> Row]
    /\ lock \in [Ids -> Requests \cup {None}]
    /\ pc \in [Requests -> {"start", "found", "missing", "event", "done", "lost", "failed"}]
    /\ at \in [Requests -> Ids \cup {None}]
    /\ stored \in [Requests -> Ids \cup {None}]
    /\ merge.phase \in {"none", "checked", "moved", "counted"}
    /\ merge.target \in Ids \cup {None} /\ merge.source \in Ids \cup {None}
    /\ merge.moved \subseteq Requests /\ merge.total \in 0..Cardinality(Requests)
    /\ removed \subseteq Requests /\ targets \subseteq Ids
    /\ \A r \in Requests : pc[r] = "found" => at[r] \in Live /\ lock[at[r]] = r

CountedOn(i) == {r \in Requests : at[r] = i /\ pc[r] \in {"event", "done", "lost"}}

\* The count of an issue that no other was merged into is the number of events
\* that groupEvent returned it for: no increment is lost to another request, a
\* rollback, a deletion or a merge elsewhere, and none is counted on two issues.
CountIsExact ==
    \A i \in Live \ targets : issue[i].count = Cardinality(CountedOn(i))

\* An event whose request was accepted is there, on an issue that exists, until
\* its issue is deleted or retention reaches it, whatever issues are merged.
EventsKept ==
    \A r \in Requests :
        pc[r] = "done" /\ r \notin removed => stored[r] \in Live

\* What the comment above groupEvent says of its FOR UPDATE: concurrent inserts
\* do not make two issues of one fingerprint.  Violated: there is no row to lock
\* before the first insert, and no unique index.
OneIssuePerFingerprint ==
    \A i, j \in Live : issue[i].fp = issue[j].fp => i = j
=============================================================================
