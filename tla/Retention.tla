----------------------------- MODULE Retention -----------------------------
\* The daily cleanup (workers/retention.ts): table by table, the rows older than
\* the table's retention are deleted in batches.  The driver answers a DELETE
\* without RETURNING with no rows, so that the loop takes every batch for the
\* last.  POST /api/admin/cleanup runs the same cycle, also beside another.
\*
\* Rows grow old without end, at any pace.  Bounds: MaxExpired rows of a table
\* wait for their deletion at once; two cycles.  The tables in `broken` refuse
\* every deletion.
EXTENDS Naturals

CONSTANTS CleanedTables, BatchSize, MaxExpired, Cycles

ASSUME RetentionAssumption ==
    CleanedTables \in Nat \ {0} /\ BatchSize \in Nat \ {0} /\ MaxExpired \in Nat

VARIABLES
    expired,    \* the rows of each table that are older than its retention
    aged,       \* history: those that grew so since its last batch, counted up to BatchSize
    broken,
    scheduled,  \* the interval: "on", "off" after the shutdown, "new" without a worker
    cycle       \* the table each cycle is at, 0 when there is none

retentionVars == <<expired, aged, broken, scheduled, cycle>>

TableDefs == 1..CleanedTables

RetentionInit ==
    /\ expired = [t \in TableDefs |-> 0] /\ aged = [t \in TableDefs |-> 0]
    /\ broken \in SUBSET TableDefs
    /\ scheduled \in {"new", "on"} /\ (scheduled = "new" => broken = {})
    /\ cycle = [c \in Cycles |-> 0]

RowsAge(t) ==
    /\ scheduled # "new" /\ expired[t] < MaxExpired
    /\ aged' = [aged EXCEPT ![t] = IF @ = BatchSize THEN @ ELSE @ + 1]
    /\ expired' = [expired EXCEPT ![t] = @ + 1]
    /\ UNCHANGED <<broken, scheduled, cycle>>

StopRetentionWorker ==
    /\ scheduled = "on" /\ scheduled' = "off"
    /\ UNCHANGED <<expired, aged, broken, cycle>>

\* The interval, which does not ask whether a cycle is running; and the request.
Cycle(c) ==
    /\ cycle[c] = 0 /\ cycle' = [cycle EXCEPT ![c] = 1]
    /\ UNCHANGED <<expired, aged, broken, scheduled>>
CleanupOldData(c) == scheduled = "on" /\ Cycle(c)
PostCleanup(c) == scheduled # "new" /\ Cycle(c)

NextTable(c) == cycle' = [cycle EXCEPT ![c] = IF @ = CleanedTables THEN 0 ELSE @ + 1]

\* What the driver says of n deleted rows.
ResultLength(n) == 0

\* One DELETE of at most a batch; the loop goes on while a full batch is reported.
BatchDelete(c) ==
    LET t == cycle[c]
        n == IF expired[t] < BatchSize THEN expired[t] ELSE BatchSize
    IN
    /\ t # 0 /\ t \notin broken
    /\ expired' = [expired EXCEPT ![t] = @ - n]
    /\ aged' = [aged EXCEPT ![t] = 0]
    /\ IF ResultLength(n) < BatchSize THEN NextTable(c) ELSE UNCHANGED cycle
    /\ UNCHANGED <<broken, scheduled>>

\* Defect: a table that fails ends the cycle.
TableFailsAll(c) ==
    /\ cycle[c] # 0
    /\ cycle' = [cycle EXCEPT ![c] = 0]
    /\ UNCHANGED <<expired, aged, broken, scheduled>>

\* Reading the days or deleting fails: the table is left to the next cycle.
TableFails(c) ==
    /\ cycle[c] # 0
    /\ NextTable(c)
    /\ UNCHANGED <<expired, aged, broken, scheduled>>

RetentionNext ==
    \/ StopRetentionWorker
    \/ \E t \in TableDefs : RowsAge(t)
    \/ \E c \in Cycles : CleanupOldData(c) \/ PostCleanup(c) \/ BatchDelete(c) \/ TableFails(c)

RetentionSpec == RetentionInit /\ [][RetentionNext]_retentionVars

\* The timer fires again, a statement is answered, and one of a table that is not
\* broken succeeds again and again if it is tried again and again.
RetentionFairness ==
    /\ WF_retentionVars(\E c \in Cycles : CleanupOldData(c))
    /\ WF_retentionVars(\E c \in Cycles : BatchDelete(c) \/ TableFails(c))
    /\ \A t \in TableDefs : SF_retentionVars(\E c \in Cycles : BatchDelete(c) /\ cycle[c] = t)
-----------------------------------------------------------------------------
RetentionTypeOK ==
    /\ expired \in [TableDefs -> 0..MaxExpired] /\ aged \in [TableDefs -> 0..BatchSize]
    /\ broken \subseteq TableDefs /\ scheduled \in {"new", "on", "off"}
    /\ cycle \in [Cycles -> 0..CleanedTables]

\* While the worker is scheduled, rows that grow old are followed by a batch of their
\* table (cleanupOldData), although another table refuses every deletion and cycles
\* overlap.  A batch a day is all there is: the table is rid of its old rows in the end
\* if, from some time on, less than a batch of them comes between two of its batches,
\* and need not be if as many or more do.
ExpiredRowsGo ==
    \A t \in TableDefs :
        LET cleaned == scheduled = "on" /\ t \notin broken IN
        /\ [](cleaned /\ aged[t] > 0 => <>(aged[t] = 0 \/ ~cleaned))
        /\ <>[](aged[t] < BatchSize) => [](cleaned /\ expired[t] > 0 => <>(expired[t] = 0 \/ ~cleaned))
=============================================================================
