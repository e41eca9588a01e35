------------------------------ MODULE LogWorker ------------------------------
(***************************************************************************)
(* The log worker: src/monitoring/log-worker.ts and log-streamer.ts.       *)
(* Streams of Docker containers are read into one batch, which a timer or  *)
(* its size hands to an insert; inserts run behind a semaphore and are     *)
(* retried once.  The worker is started once, when the process starts, and *)
(* stopped when it shuts down.                                             *)
(*                                                                         *)
(* Lines are numbered in the order in which they are accepted; a line that *)
(* sampling or the token bucket drops never gets a number.  Heartbeats are *)
(* not modelled.                                                           *)
(***************************************************************************)
EXTENDS Naturals, Sequences, FiniteSets, SequencesExt

CONSTANTS Containers,
          Lines,        \* bound: lines ever accepted
          Chunk,        \* bound: lines that one read brings
          BatchMax,     \* BATCH_MAX_SIZE
          BufferMax,    \* LOG_MAX_BUFFER_SIZE, 0: no limit
          MaxInserts    \* LOG_MAX_CONCURRENT_INSERTS, 0: no limit

ASSUME LogAssumption ==
    /\ IsFiniteSet(Containers)
    /\ Lines \in Nat /\ Chunk \in Nat /\ BufferMax \in Nat /\ MaxInserts \in Nat
    /\ BatchMax \in Nat \ {0}

VARIABLES
    phase,      \* startLogWorker: off, listing, on; the process: exited
    stopping,   \* stopLogWorker was called
    interval,   \* the flush timer is set
    stream,     \* what the pump of each container does
    aborts,     \* controllers: the containers cleanup can abort
    buffer,     \* the worker's side of a line: see Buffers
    stored,     \* table logs: the rows of each line
    failures,   \* history: failed inserts of each line
    unanswered  \* history: lines whose stored insert was reported as failed

logVars == <<phase, stopping, interval, stream, aborts, buffer, stored,
             failures, unanswered>>

\* batch: the lines not handed over yet; inserts: the calls of
\* insertWithSemaphore that are pending, each waiting for a slot, inserting,
\* pausing before the retry or inserting again; inFlight: inFlightInserts;
\* published: the lines sent to Redis; next: the number of the next line.
Inserts == [lines : Seq(1..Lines) \ {<<>>},
            at : {"waiting", "insert", "pause", "retry"}]
Held == {"insert", "pause", "retry"}
LinesOf(inserts) == UNION {Range(i.lines) : i \in inserts}

LogInit ==
    /\ phase \in {"off", "listing"}    \* off: HIAI_DISABLE_LOG_WORKER
    /\ stopping = FALSE /\ interval = FALSE
    /\ stream = [c \in Containers |-> "none"]
    /\ aborts = {}
    /\ buffer = [batch |-> <<>>, inserts |-> {}, inFlight |-> 0,
                 published |-> {}, next |-> 1]
    /\ stored = [l \in 1..Lines |-> 0]
    /\ failures = [l \in 1..Lines |-> 0]
    /\ unanswered = {}

SlotFree(b) == MaxInserts = 0 \/ b.inFlight < MaxInserts

\* Defect: the entries are copied out of the batch instead of moved.
FlushCopies(b) ==
    IF b.batch = <<>> THEN b
    ELSE [b EXCEPT !.batch = IF Len(@) >= BatchMax THEN <<>> ELSE @,
                   !.inserts = @ \cup {[lines |-> b.batch, at |-> "waiting"]},
                   !.published = @ \cup Range(b.batch)]

\* flush and onBatch: the entries go to insertWithSemaphore, which takes a slot
\* at once when one is free, and to publishLog.
Flush(b) ==
    IF b.batch = <<>> THEN b
    ELSE LET free == SlotFree(b) IN
         [b EXCEPT !.batch = <<>>,
                   !.inserts = @ \cup {[lines |-> b.batch,
                                        at |-> IF free THEN "insert" ELSE "waiting"]},
                   !.inFlight = IF free THEN @ + 1 ELSE @,
                   !.published = @ \cup Range(b.batch)]

\* onFrame for the next line that is kept.
Push(b) ==
    LET pushed == [b EXCEPT !.batch = Append(@, b.next), !.next = @ + 1]
    IN  IF Len(pushed.batch) >= BatchMax THEN Flush(pushed) ELSE pushed

Reading(c, to) == stream' = [stream EXCEPT ![c] = to]

-----------------------------------------------------------------------------
(***************************************************************************)
(* startLogWorker and stopLogWorker.                                       *)
(***************************************************************************)
\* listContainers answers, with no container when Docker fails; every container
\* that passes the filter is attached.
Listed(found) ==
    /\ phase = "listing"
    /\ phase' = "on" /\ interval' = TRUE
    /\ stream' = [c \in Containers |-> IF c \in found THEN "attaching" ELSE "none"]
    /\ UNCHANGED <<stopping, aborts, buffer, stored, failures, unanswered>>

\* The answer to the attach, which registers its controller either way.
Attached(c, ok) ==
    /\ phase = "on" /\ stream[c] = "attaching"
    /\ aborts' = aborts \cup {c}
    /\ Reading(c, IF ok THEN "checking" ELSE "ended")
    /\ UNCHANGED <<phase, stopping, interval, buffer, stored, failures, unanswered>>

\* stopLogWorker does nothing before the list has arrived.
StopLogWorker ==
    /\ phase \in {"listing", "on"} /\ ~stopping
    /\ stopping' = TRUE
    /\ IF phase = "on"
       THEN /\ interval' = FALSE
            /\ buffer' = Flush(buffer)
            /\ stream' = [c \in Containers |-> IF c \in aborts THEN "ended" ELSE stream[c]]
       ELSE UNCHANGED <<interval, buffer, stream>>
    /\ UNCHANGED <<phase, aborts, stored, failures, unanswered>>

\* The end of shutdown: client.end() waits for the queries it has been sent.
Exit ==
    /\ stopping /\ phase # "exited"
    /\ \A i \in buffer.inserts : i.at \notin {"insert", "retry"}
    /\ phase' = "exited"
    /\ UNCHANGED <<stopping, interval, stream, aborts, buffer, stored, failures, unanswered>>

-----------------------------------------------------------------------------
(***************************************************************************)
(* The pump of a container, and the timer.                                 *)
(***************************************************************************)
Live == phase \in {"listing", "on"}

\* canAccept, asked before every read and again every 50 ms until it says yes.
Accept(c) ==
    /\ Live /\ stream[c] = "checking"
    /\ BufferMax = 0 \/ Len(buffer.batch) < BufferMax
    /\ Reading(c, "reading")
    /\ UNCHANGED <<phase, stopping, interval, aborts, buffer, stored, failures, unanswered>>

\* The buffer after the first n lines of a read.
Pushed[n \in 0..Chunk] == IF n = 0 THEN buffer ELSE Push(Pushed[n - 1])

\* A read brings k lines that are kept.
Read(c, k) ==
    /\ Live /\ stream[c] = "reading"
    /\ buffer.next + k <= Lines + 1
    /\ buffer' = Pushed[k]
    /\ Reading(c, "checking")
    /\ UNCHANGED <<phase, stopping, interval, aborts, stored, failures, unanswered>>

\* The container stops or the connection breaks; nothing attaches to it again.
StreamEnds(c) ==
    /\ Live /\ stream[c] = "reading"
    /\ Reading(c, "ended")
    /\ UNCHANGED <<phase, stopping, interval, aborts, buffer, stored, failures, unanswered>>

\* Defect: the timer leaves a batch alone that is not full.
FlushTimerFull ==
    /\ Live /\ interval /\ Len(buffer.batch) >= BatchMax
    /\ buffer' = Flush(buffer)
    /\ UNCHANGED <<phase, stopping, interval, stream, aborts, stored, failures, unanswered>>

FlushTimer ==
    /\ Live /\ interval /\ buffer.batch # <<>>
    /\ buffer' = Flush(buffer)
    /\ UNCHANGED <<phase, stopping, interval, stream, aborts, stored, failures, unanswered>>

-----------------------------------------------------------------------------
(***************************************************************************)
(* insertWithSemaphore.                                                    *)
(***************************************************************************)
Moves(i, to) == (buffer.inserts \ {i}) \cup {[i EXCEPT !.at = to]}

\* Defect: the slot is taken only when the insert has been sent.
TakeSlotLate(i) ==
    /\ Live /\ i.at = "waiting" /\ SlotFree(buffer)
    /\ buffer' = [buffer EXCEPT !.inserts = Moves(i, "insert")]
    /\ UNCHANGED <<phase, stopping, interval, stream, aborts, stored, failures, unanswered>>

\* The poll of a waiting call finds a slot free and takes it in the same step.
TakeSlot(i) ==
    /\ Live /\ i.at = "waiting" /\ SlotFree(buffer)
    /\ buffer' = [buffer EXCEPT !.inserts = Moves(i, "insert"), !.inFlight = @ + 1]
    /\ UNCHANGED <<phase, stopping, interval, stream, aborts, stored, failures, unanswered>>

Rows(i) == [l \in 1..Lines |-> stored[l] + IF l \in Range(i.lines) THEN 1 ELSE 0]
\* finally: the slot is given back.
Over(i) == [buffer EXCEPT !.inserts = @ \ {i}, !.inFlight = @ - 1]

\* A batch is one INSERT: all of its rows are there and the answer arrives.
Inserted(i) ==
    /\ Live /\ i.at \in {"insert", "retry"}
    /\ stored' = Rows(i)
    /\ buffer' = Over(i)
    /\ UNCHANGED <<phase, stopping, interval, stream, aborts, failures, unanswered>>

\* Defect: the retry leaves its slot taken when it fails too.
InsertFailsHolding(i, kept) ==
    /\ Live /\ i.at \in {"insert", "retry"}
    /\ stored' = IF kept THEN Rows(i) ELSE stored
    /\ unanswered' = IF kept THEN unanswered \cup Range(i.lines) ELSE unanswered
    /\ failures' = [l \in 1..Lines |-> failures[l] + IF l \in Range(i.lines) THEN 1 ELSE 0]
    /\ buffer' = IF i.at = "insert" THEN [buffer EXCEPT !.inserts = Moves(i, "pause")]
                 ELSE [buffer EXCEPT !.inserts = @ \ {i}]
    /\ UNCHANGED <<phase, stopping, interval, stream, aborts>>

\* The insert throws, although Postgres may have kept the rows: a first failure
\* waits 100 ms, a second one gives the lines up.
InsertFails(i, kept) ==
    /\ Live /\ i.at \in {"insert", "retry"}
    /\ stored' = IF kept THEN Rows(i) ELSE stored
    /\ unanswered' = IF kept THEN unanswered \cup Range(i.lines) ELSE unanswered
    /\ failures' = [l \in 1..Lines |-> failures[l] + IF l \in Range(i.lines) THEN 1 ELSE 0]
    /\ buffer' = IF i.at = "insert" THEN [buffer EXCEPT !.inserts = Moves(i, "pause")]
                 ELSE Over(i)
    /\ UNCHANGED <<phase, stopping, interval, stream, aborts>>

InsertAgain(i) ==
    /\ Live /\ i.at = "pause"
    /\ buffer' = [buffer EXCEPT !.inserts = Moves(i, "retry")]
    /\ UNCHANGED <<phase, stopping, interval, stream, aborts, stored, failures, unanswered>>

InsertStep(i) ==
    \/ TakeSlot(i) \/ Inserted(i) \/ InsertAgain(i)
    \/ \E kept \in BOOLEAN : InsertFails(i, kept)

LogNext ==
    \/ \E found \in SUBSET Containers : Listed(found)
    \/ StopLogWorker \/ Exit \/ FlushTimer
    \/ \E c \in Containers :
         \/ Accept(c) \/ StreamEnds(c)
         \/ \E ok \in BOOLEAN : Attached(c, ok)
         \/ \E k \in 0..Chunk : Read(c, k)
    \/ \E i \in buffer.inserts : InsertStep(i)

\* Timers fire, and Postgres answers or fails; nothing makes Docker send a line,
\* and nobody has to stop the process.
LogFairness ==
    /\ WF_logVars(FlushTimer)
    /\ \A c \in Containers : WF_logVars(Accept(c))
    /\ WF_logVars(\E i \in buffer.inserts : InsertStep(i))

LogSpec == LogInit /\ [][LogNext]_logVars /\ LogFairness

-----------------------------------------------------------------------------
LogTypeOK ==
    /\ phase \in {"off", "listing", "on", "exited"}
    /\ stopping \in BOOLEAN /\ interval \in BOOLEAN
    /\ stream \in [Containers -> {"none", "attaching", "checking", "reading", "ended"}]
    /\ aborts \subseteq Containers
    /\ buffer.batch \in Seq(1..Lines) /\ buffer.inserts \subseteq Inserts
    /\ buffer.inFlight \in 0..Lines /\ buffer.published \subseteq 1..Lines
    /\ buffer.next \in 1..(Lines + 1)
    /\ stored \in [1..Lines -> 0..2] /\ failures \in [1..Lines -> 0..2]
    /\ unanswered \subseteq 1..Lines

\* The semaphore counts exactly the calls that hold a slot, through pauses and
\* retries, and never more than LOG_MAX_CONCURRENT_INSERTS of them: a slot lost
\* on one path would, in time, end all inserts.
SlotsHeld ==
    /\ buffer.inFlight = Cardinality({i \in buffer.inserts : i.at \in Held})
    /\ MaxInserts > 0 => buffer.inFlight <= MaxInserts

\* A line that was accepted is in the batch, in one pending insert, stored, or
\* given up after two failures, and it is stored a second time only when the
\* answer to an insert that had worked was lost.  The live tail gets it when it
\* leaves the batch, whatever becomes of the insert.
NoLineLost ==
    \A l \in 1..(buffer.next - 1) :
      LET in == {i \in buffer.inserts : l \in Range(i.lines)} IN
      /\ l \in Range(buffer.batch) => in = {} /\ stored[l] = 0
      /\ Cardinality(in) <= 1
      /\ l \notin Range(buffer.batch) /\ in = {} => stored[l] > 0 \/ failures[l] = 2
      /\ stored[l] = 2 => l \in unanswered
      /\ l \in buffer.published <=> l \notin Range(buffer.batch)

\* As long as the worker is not stopped, every line it accepted leaves the batch
\* and its insert ends: no batch waits for a slot for ever.
LinesSettle ==
    \A l \in 1..Lines :
      (l \in Range(buffer.batch) \cup LinesOf(buffer.inserts))
        ~> (stopping \/ l \notin Range(buffer.batch) \cup LinesOf(buffer.inserts))

\* Reading a stream that backpressure holds up goes on once the batch has been
\* handed over, unless the worker was stopped.
BackpressureLifts ==
    \A c \in Containers :
      (stream[c] = "checking") ~> (stopping \/ stream[c] # "checking")
=============================================================================
