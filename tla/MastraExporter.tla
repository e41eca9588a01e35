---------------------------- MODULE MastraExporter ----------------------------
(***************************************************************************)
(* The Mastra exporter of the SDK (packages/hiai-observe/src/mastra/       *)
(* index.ts): spans are buffered and flushed in batches, when the buffer   *)
(* is full, on a timer and at shutdown; a batch is posted with retries and *)
(* put back at the front of the buffer when all attempts failed.           *)
(*                                                                         *)
(* Spans are numbered in the order in which they enter the buffer.  The    *)
(* network and the server are the environment: a request may be refused,   *)
(* or stored although its answer is lost or late.                          *)
(***************************************************************************)
EXTENDS Naturals, Sequences

CONSTANTS MaxSpans,     \* bound: spans exported
          BatchSize,    \* batchSize
          MaxRetries    \* maxRetries

ASSUME ExporterAssumption ==
    /\ MaxSpans \in Nat
    /\ BatchSize \in Nat \ {0}
    /\ MaxRetries \in Nat

VARIABLES
    timer,      \* flushTimer: the flush interval is set
    pushed,     \* the number of spans exported so far
    buffer,     \* buffer
    flushing,   \* flushing
    batch,      \* the batch of the flush in flight
    send,       \* sendWithRetry: idle, awaiting an answer or a backoff delay
    attempt,    \* its loop counter
    closing,    \* shutdown: not called, awaiting its flush, or resolved
    up,         \* the server can be reached and accepts the key
    acked,      \* history: the spans of the batches that were answered with ok
    stored,     \* history: how often the server stored each span, up to 2
    lostAnswer, \* history: a stored batch was not answered with ok
    tried,      \* history: the last span that was part of a batch
    due         \* history: the last span exported before shutdown was called

vars == <<timer, pushed, buffer, flushing, batch, send, attempt, closing, up,
          acked, stored, lostAnswer, tried, due>>
server == <<acked, stored, lostAnswer>>

Spans == 1..MaxSpans
Elements(s) == {s[i] : i \in DOMAIN s}

Init ==
    /\ timer = TRUE
    /\ pushed = 0
    /\ buffer = <<>> /\ batch = <<>>
    /\ flushing = FALSE
    /\ send = "idle" /\ attempt = 0
    /\ closing = "open"
    /\ up \in BOOLEAN
    /\ acked = {} /\ stored = [n \in Spans |-> 0] /\ lostAnswer = FALSE
    /\ tried = 0 /\ due = 0

-----------------------------------------------------------------------------
(***************************************************************************)
(* Buffering and flushing.                                                 *)
(***************************************************************************)
\* Defect: a flush does not look whether another one is in flight.
FlushUnguarded(buf) ==
    IF buf = <<>>
    THEN /\ buffer' = buf
         /\ UNCHANGED <<flushing, batch, send, attempt, tried>>
    ELSE /\ flushing' = TRUE
         /\ batch' = buf
         /\ buffer' = <<>>
         /\ send' = "request" /\ attempt' = 0
         /\ tried' = buf[Len(buf)]

\* flush() up to its first await, called with the given buffer.
Flush(buf) ==
    IF flushing \/ buf = <<>>
    THEN /\ buffer' = buf
         /\ UNCHANGED <<flushing, batch, send, attempt, tried>>
    ELSE /\ flushing' = TRUE
         /\ batch' = buf
         /\ buffer' = <<>>
         /\ send' = "request" /\ attempt' = 0
         /\ tried' = buf[Len(buf)]

\* _exportTracingEvent after the span formatter.
Export ==
    /\ pushed < MaxSpans
    /\ pushed' = pushed + 1
    /\ LET buf == Append(buffer, pushed + 1)
       IN  IF Len(buf) >= BatchSize
           THEN Flush(buf)
           ELSE /\ buffer' = buf
                /\ UNCHANGED <<flushing, batch, send, attempt, tried>>
    /\ UNCHANGED <<timer, closing, up, server, due>>

\* The flush interval fires.
TimerFires ==
    /\ timer
    /\ Flush(buffer)
    /\ UNCHANGED <<timer, pushed, closing, up, server, due>>

\* shutdown(): its flush returns at once when another one is in flight.
Shutdown ==
    /\ closing = "open"
    /\ timer' = FALSE
    /\ Flush(buffer)
    /\ closing' = IF flushing \/ buffer = <<>> THEN "closed" ELSE "flushing"
    /\ due' = pushed
    /\ UNCHANGED <<pushed, up, server>>

-----------------------------------------------------------------------------
(***************************************************************************)
(* sendWithRetry, and the end of the flush that awaits it.                 *)
(***************************************************************************)
\* Defect: the finally block does not lower the flag.
FlushOverKeepsFlag ==
    /\ flushing' = TRUE
    /\ batch' = <<>>
    /\ send' = "idle" /\ attempt' = 0
    /\ closing' = IF closing = "flushing" THEN "closed" ELSE closing

\* The finally block; a shutdown awaiting this flush resolves.
FlushOver ==
    /\ flushing' = FALSE
    /\ batch' = <<>>
    /\ send' = "idle" /\ attempt' = 0
    /\ closing' = IF closing = "flushing" THEN "closed" ELSE closing

\* Defect: the failed batch is put at the end of the buffer.
GiveUpAppends ==
    /\ buffer' = buffer \o batch
    /\ FlushOver

\* The catch block: the batch goes back to the front of the buffer.
GiveUp ==
    /\ buffer' = batch \o buffer
    /\ FlushOver

RetryOrGiveUp ==
    IF attempt < MaxRetries
    THEN send' = "backoff" /\ UNCHANGED <<attempt, buffer, flushing, batch, closing>>
    ELSE GiveUp

Store == stored' = [n \in Spans |-> IF n \in Elements(batch) /\ stored[n] < 2
                                    THEN stored[n] + 1 ELSE stored[n]]

\* Defect: the batch is put back although it was accepted.
AcceptedRequeues ==
    /\ send = "request"
    /\ up
    /\ Store
    /\ acked' = acked \cup Elements(batch)
    /\ GiveUp
    /\ UNCHANGED <<timer, pushed, up, lostAnswer, tried, due>>

\* The server stores the batch and answers with ok in time.
Accepted ==
    /\ send = "request"
    /\ up
    /\ Store
    /\ acked' = acked \cup Elements(batch)
    /\ FlushOver
    /\ UNCHANGED <<timer, pushed, buffer, up, lostAnswer, tried, due>>

\* The server stores the batch; the client times out, or sees an error.
AnswerLost ==
    /\ send = "request"
    /\ ~up
    /\ Store
    /\ lostAnswer' = TRUE
    /\ RetryOrGiveUp
    /\ UNCHANGED <<timer, pushed, up, acked, tried, due>>

\* No connection, or an error status.
Refused ==
    /\ send = "request"
    /\ ~up
    /\ RetryOrGiveUp
    /\ UNCHANGED <<timer, pushed, up, server, tried, due>>

\* 401 or 403: no retry.
Unauthorized ==
    /\ send = "request"
    /\ ~up
    /\ GiveUp
    /\ UNCHANGED <<timer, pushed, up, server, tried, due>>

\* The backoff delay is over.
Retry ==
    /\ send = "backoff"
    /\ attempt' = attempt + 1
    /\ send' = "request"
    /\ UNCHANGED <<timer, pushed, buffer, flushing, batch, closing, up, server,
                   tried, due>>

Sender == Accepted \/ AnswerLost \/ Refused \/ Unauthorized \/ Retry

Network ==
    /\ up' = ~up
    /\ UNCHANGED <<timer, pushed, buffer, flushing, batch, send, attempt,
                   closing, server, tried, due>>

Next == Export \/ TimerFires \/ Shutdown \/ Sender \/ Network

Spec == Init /\ [][Next]_vars

\* The event loop runs the interval; requests end (AbortController), and so do
\* the backoff delays.
FairSpec == Spec /\ WF_vars(TimerFires) /\ WF_vars(Sender)

-----------------------------------------------------------------------------
(***************************************************************************)
(* Properties.                                                             *)
(***************************************************************************)
\* Every variable keeps its shape; a batch exists exactly during a flush.
TypeOK ==
    /\ timer \in BOOLEAN /\ flushing \in BOOLEAN /\ up \in BOOLEAN
    /\ lostAnswer \in BOOLEAN
    /\ pushed \in 0..MaxSpans /\ tried \in 0..pushed /\ due \in 0..pushed
    /\ buffer \in Seq(1..pushed) /\ batch \in Seq(1..pushed)
    /\ send \in {"idle", "request", "backoff"}
    /\ flushing <=> send # "idle"
    /\ flushing <=> batch # <<>>
    /\ attempt \in 0..MaxRetries
    /\ send = "backoff" => attempt < MaxRetries
    /\ closing \in {"open", "flushing", "closed"}
    /\ closing = "flushing" => flushing
    /\ acked \subseteq 1..pushed
    /\ stored \in [Spans -> 0..2]

\* No span is lost inside the process, none twice in it and none overtaken: those
\* acknowledged are the first, the batch in flight and then the buffer hold the others
\* in the order in which they were exported, also after a failed flush put its batch
\* back while new spans had arrived (index.ts:123-139).
NothingForgotten ==
    LET queue == batch \o buffer IN
    \E done \in 0..pushed :
        /\ acked = 1..done /\ Len(queue) = pushed - done
        /\ \A i \in 1..(pushed - done) : queue[i] = done + i

\* The server stores a span twice only if the answer to a stored batch was lost.
StoredOnce == (\E n \in Spans : stored[n] = 2) => lostAnswer

\* What the server and the exporter know of each other's spans is ordered delivery, at
\* least once: a batch that arrives is all that was not acknowledged up to its last
\* span, never less than what arrived before.
Delivery == INSTANCE OrderedDelivery
            WITH Limit <- MaxSpans, accepted <- pushed, arrived <- stored, confirmed <- acked
DeliversInOrder == Delivery!DeliverySpec

\* Once the server can be reached for good, every span exported by an exporter
\* that is not shut down is stored.
DeliveredWhenReachable ==
    \A n \in Spans :
        <>[](up /\ timer) => []((n <= pushed) => <>(stored[n] > 0))

\* "Flush remaining spans" (index.ts:142): when shutdown resolves, every span
\* exported before it was called has been part of a batch.
ShutdownFlushes == closing = "closed" => due <= tried
=============================================================================
