---------------------------- MODULE ClientsProofs ----------------------------
(***************************************************************************)
(* Proofs about what runs at the clients: MastraExporter, for any number   *)
(* of spans, batch size and number of retries, and LogsPage, for any       *)
(* number of lines and requests, page and list size, and any choice of     *)
(* the lines that pass a filter.                                           *)
(***************************************************************************)
EXTENDS MCClients, FiniteSetTheorems, FunctionTheorems, SequenceTheorems, TLAPS

-----------------------------------------------------------------------------
(***************************************************************************)
(* Lemmas on the elements of a sequence.                                   *)
(***************************************************************************)
\* The empty sequence has no elements.
LEMMA EmptyFacts == Elements(<<>>) = {}
  BY EmptySeq DEF Elements

\* The elements of a typed sequence are typed.
LEMMA ElementsTyped ==
    ASSUME NEW S, NEW s \in Seq(S)
    PROVE  Elements(s) \subseteq S
  BY LenProperties, ElementOfSeq DEF Elements

-----------------------------------------------------------------------------
(***************************************************************************)
(* What a step does to the queue.                                          *)
(***************************************************************************)
\* A span enters the buffer, or the whole buffer with it becomes the batch.
Enters ==
    /\ pushed < MaxSpans /\ pushed' = pushed + 1 /\ acked' = acked
    /\ \/ buffer' = Append(buffer, pushed + 1) /\ batch' = batch
       \/ batch = <<>> /\ buffer' = <<>> /\ batch' = Append(buffer, pushed + 1)
\* The buffer becomes the batch, or the batch returns to the front of the buffer.
Moves ==
    /\ pushed' = pushed /\ acked' = acked
    /\ \/ batch = <<>> /\ buffer' = <<>> /\ batch' = buffer
       \/ buffer' = batch \o buffer /\ batch' = <<>>
\* The batch is acknowledged.
Leaves ==
    /\ pushed' = pushed /\ acked' = acked \cup Elements(batch)
    /\ buffer' = buffer /\ batch' = <<>>
Stays == UNCHANGED <<pushed, acked, buffer, batch>>

LEMMA QueueStep ==
    ASSUME TypeOK, [Next]_vars
    PROVE  Enters \/ Moves \/ Leaves \/ Stays
<1>0. ~flushing => batch = <<>>
  BY DEF TypeOK
<1>1. CASE Export
  BY <1>0, <1>1 DEF Export, Flush, Enters, server
<1>2. CASE TimerFires
  BY <1>0, <1>2 DEF TimerFires, Flush, Moves, Stays, server
<1>3. CASE Shutdown
  BY <1>0, <1>3 DEF Shutdown, Flush, Moves, Stays, server
<1>4. CASE Accepted
  BY <1>4 DEF Accepted, FlushOver, Leaves
<1>5. CASE AnswerLost
  BY <1>5 DEF AnswerLost, RetryOrGiveUp, GiveUp, FlushOver, Moves, Stays
<1>6. CASE Refused
  BY <1>6 DEF Refused, RetryOrGiveUp, GiveUp, FlushOver, Moves, Stays, server
<1>7. CASE Unauthorized
  BY <1>7 DEF Unauthorized, GiveUp, FlushOver, Moves, server
<1>8. CASE Retry
  BY <1>8 DEF Retry, Stays, server
<1>9. CASE Network
  BY <1>9 DEF Network, Stays, server
<1>10. CASE UNCHANGED vars
  BY <1>10 DEF vars, Stays
<1> QED
  BY <1>1, <1>2, <1>3, <1>4, <1>5, <1>6, <1>7, <1>8, <1>9, <1>10 DEF Next, Sender

\* The queue keeps its type, whatever happens to the flags.
LEMMA QueueTyped ==
    ASSUME TypeOK, [Next]_vars
    PROVE  /\ pushed' \in 0..MaxSpans /\ pushed <= pushed'
           /\ buffer' \in Seq(1..pushed') /\ batch' \in Seq(1..pushed')
           /\ acked' \subseteq 1..pushed'
<1> USE ExporterAssumption
<1>0. /\ pushed \in 0..MaxSpans /\ acked \subseteq 1..pushed
      /\ buffer \in Seq(1..pushed) /\ batch \in Seq(1..pushed)
  BY DEF TypeOK
<1>1. CASE Enters
  <2>1. pushed' \in 0..MaxSpans /\ 1..pushed \subseteq 1..pushed' /\ pushed + 1 \in 1..pushed'
    BY <1>0, <1>1 DEF Enters
  <2>2. buffer \in Seq(1..pushed') /\ batch \in Seq(1..pushed')
    BY <1>0, <2>1, SeqMonotonic
  <2>3. Append(buffer, pushed + 1) \in Seq(1..pushed')
    BY <2>1, <2>2
  <2>4. <<>> \in Seq(1..pushed')
    BY EmptySeq
  <2>5. pushed <= pushed' /\ acked' \subseteq 1..pushed'
    BY <1>0, <1>1, <2>1 DEF Enters
  <2>6. buffer' \in Seq(1..pushed') /\ batch' \in Seq(1..pushed')
    BY <1>1, <2>2, <2>3, <2>4, Zenon DEF Enters
  <2> QED
    BY <2>1, <2>5, <2>6
<1>2. CASE Moves
  <2>1. batch \o buffer \in Seq(1..pushed)
    BY <1>0, ConcatProperties
  <2>2. <<>> \in Seq(1..pushed)
    BY EmptySeq
  <2>3. buffer' \in Seq(1..pushed) /\ batch' \in Seq(1..pushed)
    BY <1>0, <1>2, <2>1, <2>2, Zenon DEF Moves
  <2>4. pushed' = pushed /\ acked' = acked
    BY <1>2 DEF Moves
  <2> QED
    BY <1>0, <2>3, <2>4
<1>3. CASE Leaves
  <2>1. <<>> \in Seq(1..pushed) /\ Elements(batch) \subseteq 1..pushed
    BY <1>0, ElementsTyped, EmptySeq
  <2>2. /\ pushed' = pushed /\ acked' \subseteq 1..pushed
        /\ buffer' \in Seq(1..pushed) /\ batch' \in Seq(1..pushed)
    BY <1>0, <1>3, <2>1, Zenon DEF Leaves
  <2> QED
    BY <1>0, <2>2
<1>4. CASE Stays
  BY <1>0, <1>4 DEF Stays
<1> QED
  BY <1>1, <1>2, <1>3, <1>4, QueueStep

-----------------------------------------------------------------------------
(***************************************************************************)
(* Type correctness.                                                       *)
(***************************************************************************)
\* What TypeOK says of the flags of the flush and of the history.
FlagsOK ==
    /\ timer \in BOOLEAN /\ flushing \in BOOLEAN /\ up \in BOOLEAN
    /\ lostAnswer \in BOOLEAN
    /\ tried \in 0..pushed /\ due \in 0..pushed
    /\ send \in {"idle", "request", "backoff"}
    /\ flushing <=> send # "idle"
    /\ flushing <=> batch # <<>>
    /\ attempt \in 0..MaxRetries
    /\ send = "backoff" => attempt < MaxRetries
    /\ closing \in {"open", "flushing", "closed"}
    /\ closing = "flushing" => flushing
    /\ stored \in [Spans -> 0..2]

\* A flush sends a non-empty batch, or changes nothing.
LEMMA FlushFlags ==
    ASSUME TypeOK, NEW buf \in Seq(1..pushed'), Flush(buf), pushed <= pushed',
           pushed' \in 0..MaxSpans,
           UNCHANGED <<up, server>>, timer' \in BOOLEAN, due' \in 0..pushed',
           \/ closing' = closing
           \/ closing' = IF flushing \/ buf = <<>> THEN "closed" ELSE "flushing"
    PROVE  FlagsOK'
<1> USE ExporterAssumption
<1>0. pushed \in Nat /\ pushed' \in Nat
  BY DEF TypeOK
<1>1. CASE flushing \/ buf = <<>>
  <2>1. tried' \in 0..pushed'
    BY <1>0, <1>1 DEF TypeOK, Flush
  <2> QED
    BY <1>1, <2>1 DEF TypeOK, Flush, FlagsOK, server
<1>2. CASE ~flushing /\ buf # <<>>
  <2>1. Len(buf) \in 1..Len(buf)
    BY <1>2, EmptySeq
  <2>2. buf[Len(buf)] \in 1..pushed'
    BY <2>1, ElementOfSeq
  <2>3. tried' \in 0..pushed'
    BY <1>0, <1>2, <2>2 DEF Flush
  <2>4. /\ flushing' = TRUE /\ batch' = buf /\ send' = "request" /\ attempt' = 0
        /\ ~(flushing \/ buf = <<>>)
    BY <1>2 DEF Flush
  <2>5. (flushing' <=> send' # "idle") /\ (flushing' <=> batch' # <<>>)
    BY <2>4
  <2>6. /\ attempt' \in 0..MaxRetries /\ send' # "backoff"
        /\ stored' \in [Spans -> 0..2] /\ lostAnswer' \in BOOLEAN
        /\ up' \in BOOLEAN /\ closing' \in {"open", "flushing", "closed"}
    BY <2>4 DEF TypeOK, server
  <2> QED
    BY <2>3, <2>4, <2>5, <2>6, Zenon DEF FlagsOK
<1> QED
  BY <1>1, <1>2 DEF TypeOK

\* Storing a batch counts up to two.
LEMMA StoreTyped ==
    ASSUME TypeOK, Store
    PROVE  stored' \in [Spans -> 0..2]
  BY DEF TypeOK, Store

\* Ending or retrying a request keeps the flags consistent.
LEMMA SenderFlags ==
    ASSUME TypeOK, send # "idle", UNCHANGED <<timer, pushed, tried, due>>,
           up' \in BOOLEAN, lostAnswer' \in BOOLEAN, stored' \in [Spans -> 0..2],
           GiveUp \/ RetryOrGiveUp \/ FlushOver
    PROVE  FlagsOK'
<1> USE ExporterAssumption
<1>1. CASE FlushOver
  <2>1. /\ flushing' = FALSE /\ batch' = <<>> /\ send' = "idle" /\ attempt' = 0
    BY <1>1 DEF FlushOver
  <2>2. closing' \in {"open", "closed"}
    BY <1>1 DEF FlushOver, TypeOK
  <2>3. (flushing' <=> send' # "idle") /\ (flushing' <=> batch' # <<>>)
    BY <2>1
  <2>4. attempt' \in 0..MaxRetries /\ send' # "backoff"
    BY <2>1
  <2>5. timer' \in BOOLEAN /\ tried' \in 0..pushed' /\ due' \in 0..pushed'
    BY Zenon DEF TypeOK
  <2> QED
    BY <2>1, <2>2, <2>3, <2>4, <2>5 DEF FlagsOK
<1>2. CASE GiveUp
  BY <1>1, <1>2 DEF GiveUp
<1>3. CASE RetryOrGiveUp
  <2>1. CASE attempt < MaxRetries
    BY <1>3, <2>1 DEF TypeOK, FlagsOK, RetryOrGiveUp
  <2>2. CASE ~(attempt < MaxRetries)
    BY <1>2, <1>3, <2>2 DEF RetryOrGiveUp
  <2> QED
    BY <2>1, <2>2
<1> QED
  BY <1>1, <1>2, <1>3

\* Every variable keeps its shape, and a batch exists exactly during a flush.
THEOREM TypeCorrect == Spec => []TypeOK
<1> USE ExporterAssumption
<1>1. Init => TypeOK
  <2> SUFFICES ASSUME Init PROVE TypeOK
    OBVIOUS
  <2>1. buffer \in Seq(1..pushed) /\ batch \in Seq(1..pushed)
    BY EmptySeq DEF Init
  <2>2. pushed \in 0..MaxSpans /\ tried \in 0..pushed /\ due \in 0..pushed
    BY DEF Init
  <2>3. acked \subseteq 1..pushed /\ stored \in [Spans -> 0..2]
    BY DEF Init
  <2>4. (flushing <=> send # "idle") /\ (flushing <=> batch # <<>>)
    BY Zenon DEF Init
  <2>5. attempt \in 0..MaxRetries /\ send # "backoff" /\ closing # "flushing"
    BY DEF Init
  <2> QED
    BY <2>1, <2>2, <2>3, <2>4, <2>5, Zenon DEF Init, TypeOK
<1>2. TypeOK /\ [Next]_vars => TypeOK'
  <2> SUFFICES ASSUME TypeOK, [Next]_vars PROVE TypeOK'
    OBVIOUS
  <2>0. /\ pushed \in 0..MaxSpans /\ tried \in 0..pushed /\ due \in 0..pushed
        /\ timer \in BOOLEAN /\ up \in BOOLEAN /\ lostAnswer \in BOOLEAN
        /\ stored \in [Spans -> 0..2] /\ buffer \in Seq(1..pushed)
    BY DEF TypeOK
  <2>q. /\ pushed' \in 0..MaxSpans /\ pushed <= pushed'
        /\ buffer' \in Seq(1..pushed') /\ batch' \in Seq(1..pushed')
        /\ acked' \subseteq 1..pushed'
    BY QueueTyped
  <2>1. CASE Export
    <3>1. pushed' = pushed + 1 /\ due' \in 0..pushed'
      BY <2>0, <2>1 DEF Export
    <3>2. Append(buffer, pushed + 1) \in Seq(1..pushed')
      <4>1. buffer \in Seq(1..pushed')
        BY <2>0, <3>1, SeqMonotonic
      <4> QED
        BY <2>0, <3>1, <4>1
    <3>3. CASE Flush(Append(buffer, pushed + 1))
      <4>1. /\ UNCHANGED <<up, server>> /\ timer' \in BOOLEAN /\ closing' = closing
        BY <2>0, <2>1 DEF Export
      <4>2. FlagsOK'
        BY <2>q, <3>1, <3>2, <3>3, <4>1, FlushFlags
      <4> QED
        BY <2>q, <4>2 DEF FlagsOK, TypeOK
    <3>4. CASE UNCHANGED <<flushing, batch, send, attempt, tried>>
      BY <2>0, <2>1, <2>q, <3>1, <3>4 DEF Export, FlagsOK, TypeOK, server
    <3> QED
      BY <2>1, <2>q, <3>3, <3>4 DEF Export, FlagsOK, TypeOK
  <2>2. CASE TimerFires
    <3>1. FlagsOK'
      BY <2>0, <2>2, <2>q, FlushFlags DEF TimerFires
    <3> QED
      BY <2>q, <3>1 DEF FlagsOK, TypeOK
  <2>3. CASE Shutdown
    <3>1. /\ UNCHANGED <<up, server, pushed>> /\ timer' = FALSE /\ due' = pushed
          /\ closing' = IF flushing \/ buffer = <<>> THEN "closed" ELSE "flushing"
          /\ Flush(buffer)
      BY <2>3, Zenon DEF Shutdown
    <3>2. due' \in 0..pushed' /\ timer' \in BOOLEAN
      <4>1. pushed' = pushed /\ pushed \in 0..pushed
        BY <2>0, <3>1
      <4> QED
        BY <3>1, <4>1, Zenon
    <3>3. buffer \in Seq(1..pushed')
      BY <2>0, <3>1
    <3>4. FlagsOK'
      BY <2>q, <3>1, <3>2, <3>3, FlushFlags
    <3> QED
      BY <2>q, <3>4 DEF FlagsOK, TypeOK
  <2>4. CASE Accepted
    <3>1. FlagsOK'
      BY <2>0, <2>4, StoreTyped, SenderFlags DEF Accepted
    <3> QED
      BY <2>q, <3>1 DEF FlagsOK, TypeOK
  <2>5. CASE AnswerLost
    <3>1. FlagsOK'
      BY <2>0, <2>5, StoreTyped, SenderFlags DEF AnswerLost
    <3> QED
      BY <2>q, <3>1 DEF FlagsOK, TypeOK
  <2>6. CASE Refused
    <3>1. FlagsOK'
      BY <2>0, <2>6, SenderFlags DEF Refused, server
    <3> QED
      BY <2>q, <3>1 DEF FlagsOK, TypeOK
  <2>7. CASE Unauthorized
    <3>1. FlagsOK'
      BY <2>0, <2>7, SenderFlags DEF Unauthorized, server
    <3> QED
      BY <2>q, <3>1 DEF FlagsOK, TypeOK
  <2>8. CASE Retry
    BY <2>0, <2>8, <2>q DEF Retry, TypeOK, server
  <2>9. CASE Network
    BY <2>0, <2>9, <2>q DEF Network, TypeOK, server
  <2>10. CASE UNCHANGED vars
    BY <2>10 DEF vars, TypeOK
  <2> QED
    BY <2>1, <2>2, <2>3, <2>4, <2>5, <2>6, <2>7, <2>8, <2>9, <2>10
       DEF Next, Sender
<1> QED
  BY <1>1, <1>2, PTL DEF Spec

-----------------------------------------------------------------------------
(***************************************************************************)
(* No span is lost and none overtakes another.                             *)
(***************************************************************************)
\* The spans to k are acknowledged, the next are the batch, the rest the buffer.
Split(k) ==
    /\ acked = 1..k /\ k + Len(batch) + Len(buffer) = pushed
    /\ \A i \in 1..Len(batch) : batch[i] = k + i
    /\ \A i \in 1..Len(buffer) : buffer[i] = k + Len(batch) + i
WellSplit == \E k \in Nat : Split(k)

\* The queue of NothingForgotten, cut where the batch ends.
LEMMA SplitIs == TypeOK => (NothingForgotten <=> WellSplit)
<1> SUFFICES ASSUME TypeOK PROVE NothingForgotten <=> WellSplit
  OBVIOUS
<1> DEFINE queue == batch \o buffer
<1>1. pushed \in Nat /\ buffer \in Seq(1..pushed) /\ batch \in Seq(1..pushed)
  BY ExporterAssumption DEF TypeOK
<1>2. /\ Len(batch) \in Nat /\ Len(buffer) \in Nat
      /\ Len(queue) = Len(batch) + Len(buffer)
      /\ \A i \in 1..Len(batch) : queue[i] = batch[i]
      /\ \A i \in 1..Len(buffer) : queue[Len(batch) + i] = buffer[i]
  BY <1>1, ConcatProperties, LenProperties
<1> HIDE DEF queue
<1>3. ASSUME NEW k \in 0..pushed, acked = 1..k, Len(queue) = pushed - k,
             \A i \in 1..(pushed - k) : queue[i] = k + i
      PROVE  Split(k)
  <2>1. \A i \in 1..Len(batch) : i \in 1..(pushed - k)
    BY <1>1, <1>2, <1>3
  <2>2. \A i \in 1..Len(buffer) : Len(batch) + i \in 1..(pushed - k)
    BY <1>1, <1>2, <1>3
  <2>3. \A i \in 1..Len(buffer) : buffer[i] = k + (Len(batch) + i)
    BY <1>2, <1>3, <2>2
  <2>4. \A i \in 1..Len(batch) : batch[i] = k + i
    BY <1>2, <1>3, <2>1
  <2>5. k + Len(batch) + Len(buffer) = pushed
    BY <1>1, <1>2, <1>3
  <2>6. \A i \in 1..Len(buffer) : k + (Len(batch) + i) = k + Len(batch) + i
    BY <1>2
  <2>7. \A i \in 1..Len(buffer) : buffer[i] = k + Len(batch) + i
    BY <2>3, <2>6
  <2> QED
    BY <1>3, <2>4, <2>5, <2>7 DEF Split
<1>4. ASSUME NEW k \in Nat, Split(k)
      PROVE  /\ k \in 0..pushed /\ acked = 1..k /\ Len(queue) = pushed - k
             /\ \A i \in 1..(pushed - k) : queue[i] = k + i
  <2>1. ASSUME NEW i \in 1..(pushed - k) PROVE queue[i] = k + i
    <3>1. CASE i <= Len(batch)
      BY <1>1, <1>2, <1>4, <2>1, <3>1 DEF Split
    <3>2. CASE i > Len(batch)
      <4>1. i - Len(batch) \in 1..Len(buffer) /\ Len(batch) + (i - Len(batch)) = i
        BY <1>1, <1>2, <1>4, <2>1, <3>2 DEF Split
      <4>2. queue[i] = buffer[i - Len(batch)]
        BY <1>2, <4>1
      <4>3. buffer[i - Len(batch)] = k + Len(batch) + (i - Len(batch))
        BY <1>4, <4>1 DEF Split
      <4> QED
        BY <1>2, <1>4, <2>1, <4>2, <4>3
    <3> QED
      BY <1>2, <2>1, <3>1, <3>2
  <2> QED
    BY <1>1, <1>2, <1>4, <2>1 DEF Split
<1>5. NothingForgotten <=>
        \E k \in 0..pushed : /\ acked = 1..k /\ Len(queue) = pushed - k
                              /\ \A i \in 1..(pushed - k) : queue[i] = k + i
  BY DEF NothingForgotten, queue
<1>6. \A k \in 0..pushed : k \in Nat
  BY <1>1
<1> QED
  BY <1>3, <1>4, <1>5, <1>6 DEF WellSplit

\* What a split says of the elements.
LEMMA SplitElements ==
    ASSUME TypeOK, NEW k \in Nat, Split(k)
    PROVE  /\ Len(batch) \in Nat /\ Len(buffer) \in Nat
           /\ Elements(batch) = (k + 1)..(k + Len(batch))
           /\ acked \cup Elements(batch) = 1..(k + Len(batch))
<1>1. batch \in Seq(1..pushed) /\ buffer \in Seq(1..pushed)
  BY DEF TypeOK
<1>2. /\ Len(batch) \in Nat /\ Len(buffer) \in Nat /\ DOMAIN batch = 1..Len(batch)
  BY <1>1, LenProperties
<1>3. \A n \in (k + 1)..(k + Len(batch)) : n - k \in 1..Len(batch) /\ k + (n - k) = n
  BY <1>2
<1>4. Elements(batch) = (k + 1)..(k + Len(batch))
  <2>1. \A i \in 1..Len(batch) : batch[i] \in (k + 1)..(k + Len(batch))
    BY <1>2 DEF Split
  <2>2. \A n \in (k + 1)..(k + Len(batch)) : batch[n - k] = n
    BY <1>3 DEF Split
  <2> QED
    BY <1>2, <1>3, <2>1, <2>2 DEF Elements
<1>5. 1..k \cup (k + 1)..(k + Len(batch)) = 1..(k + Len(batch))
  BY <1>2
<1> QED
  BY <1>2, <1>4, <1>5 DEF Split

\* Each step keeps the queue or takes the batch off it.
LEMMA SplitStep == ASSUME TypeOK, WellSplit, [Next]_vars PROVE WellSplit'
<1>0. PICK k \in Nat : Split(k)
  BY DEF WellSplit
<1>1. /\ pushed \in Nat /\ buffer \in Seq(1..pushed) /\ batch \in Seq(1..pushed)
      /\ Len(batch) \in Nat /\ Len(buffer) \in Nat
  BY ExporterAssumption, LenProperties DEF TypeOK
<1>2. Len(<<>>) = 0
  OBVIOUS
<1>3. CASE Enters
  <2>1. /\ Len(Append(buffer, pushed + 1)) = Len(buffer) + 1
        /\ \A i \in 1..Len(buffer) : Append(buffer, pushed + 1)[i] = buffer[i]
        /\ Append(buffer, pushed + 1)[Len(buffer) + 1] = pushed + 1
    BY <1>1
  <2>2. \A i \in 1..(Len(buffer) + 1) :
           Append(buffer, pushed + 1)[i] = k + Len(batch) + i
    <3> TAKE i \in 1..(Len(buffer) + 1)
    <3>1. i \in 1..Len(buffer) \/ i = Len(buffer) + 1
      BY <1>1
    <3>2. CASE i \in 1..Len(buffer)
      BY <1>0, <2>1, <3>2 DEF Split
    <3>3. CASE i = Len(buffer) + 1
      <4>1. pushed + 1 = k + Len(batch) + i
        BY <1>0, <1>1, <3>3 DEF Split
      <4> QED
        BY <2>1, <3>3, <4>1
    <3> QED
      BY <3>1, <3>2, <3>3
  <2>4. k + Len(batch) + (Len(buffer) + 1) = pushed + 1 /\ pushed' = pushed + 1 /\ acked' = 1..k
    <3>1. k + Len(batch) + Len(buffer) = pushed /\ acked = 1..k
      BY <1>0 DEF Split
    <3>2. pushed' = pushed + 1 /\ acked' = acked
      BY <1>3 DEF Enters
    <3> QED
      BY <1>1, <3>1, <3>2
  <2>5. ASSUME buffer' = Append(buffer, pushed + 1), batch' = batch PROVE Split(k)'
    <3>1. \A i \in 1..Len(batch') : batch'[i] = k + i
      BY <1>0, <2>5 DEF Split
    <3>2. Len(buffer') = Len(buffer) + 1 /\ Len(batch') = Len(batch)
      BY <2>1, <2>5
    <3>3. \A i \in 1..Len(buffer') : buffer'[i] = k + Len(batch') + i
      BY <2>2, <2>5, <3>2
    <3>4. k + Len(batch') + Len(buffer') = pushed'
      BY <2>4, <3>2
    <3> QED
      BY <2>4, <3>1, <3>3, <3>4 DEF Split
  <2>6. ASSUME batch = <<>>, buffer' = <<>>, batch' = Append(buffer, pushed + 1)
        PROVE  Split(k)'
    <3>1. k + 0 = k /\ \A i \in 1..(Len(buffer) + 1) : Append(buffer, pushed + 1)[i] = k + i
      BY <1>2, <2>2, <2>6
    <3>2. Len(batch') = Len(buffer) + 1 /\ Len(buffer') = 0
      BY <1>2, <2>1, <2>6
    <3>3. k + Len(batch') + Len(buffer') = pushed'
      BY <1>1, <1>2, <2>4, <2>6, <3>2
    <3>4. \A i \in 1..Len(batch') : batch'[i] = k + i
      BY <2>6, <3>1, <3>2
    <3>5. \A i \in 1..Len(buffer') : FALSE
      BY <3>2
    <3> QED
      BY <2>4, <3>3, <3>4, <3>5 DEF Split
  <2>3. Split(k)'
    BY <1>3, <2>5, <2>6 DEF Enters
  <2> QED
    BY <2>3 DEF WellSplit
<1>4. CASE Moves
  <2>1. /\ Len(batch \o buffer) = Len(batch) + Len(buffer)
        /\ \A i \in 1..Len(batch) : (batch \o buffer)[i] = batch[i]
        /\ \A i \in 1..Len(buffer) : (batch \o buffer)[Len(batch) + i] = buffer[i]
    BY <1>1, ConcatProperties
  <2>2. \A i \in 1..(Len(batch) + Len(buffer)) : (batch \o buffer)[i] = k + i
    <3> TAKE i \in 1..(Len(batch) + Len(buffer))
    <3>1. CASE i <= Len(batch)
      BY <1>0, <1>1, <2>1, <3>1 DEF Split
    <3>2. CASE i > Len(batch)
      <4>1. i - Len(batch) \in 1..Len(buffer) /\ Len(batch) + (i - Len(batch)) = i
        BY <1>1, <3>2
      <4>2. (batch \o buffer)[i] = buffer[i - Len(batch)]
        BY <2>1, <4>1
      <4>3. buffer[i - Len(batch)] = k + Len(batch) + (i - Len(batch))
        BY <1>0, <4>1 DEF Split
      <4> QED
        BY <1>1, <4>1, <4>2, <4>3
    <3> QED
      BY <1>1, <3>1, <3>2
  <2>3. Split(k)'
    <3>1. CASE batch = <<>> /\ buffer' = <<>> /\ batch' = buffer
      BY <1>0, <1>1, <1>2, <1>4, <3>1 DEF Split, Moves
    <3>2. CASE buffer' = batch \o buffer /\ batch' = <<>>
      BY <1>0, <1>1, <1>2, <1>4, <2>1, <2>2, <3>2 DEF Split, Moves
    <3> QED
      BY <1>4, <3>1, <3>2 DEF Moves
  <2> QED
    BY <2>3 DEF WellSplit
<1>5. CASE Leaves
  <2>1. acked \cup Elements(batch) = 1..(k + Len(batch))
    BY <1>0, SplitElements
  <2>3. /\ acked' = 1..(k + Len(batch)) /\ pushed' = pushed
        /\ buffer' = buffer /\ Len(batch') = 0
    BY <1>2, <1>5, <2>1 DEF Leaves
  <2>4. k + Len(batch) + 0 + Len(buffer) = pushed
    BY <1>0, <1>1 DEF Split
  <2>5. \A i \in 1..Len(buffer) : buffer[i] = k + Len(batch) + 0 + i
    BY <1>0, <1>1 DEF Split
  <2>6. /\ (k + Len(batch)) + Len(batch') + Len(buffer') = pushed'
        /\ \A i \in 1..Len(buffer') : buffer'[i] = (k + Len(batch)) + Len(batch') + i
        /\ \A i \in 1..Len(batch') : FALSE
    BY <2>3, <2>4, <2>5
  <2> DEFINE m == k + Len(batch)
  <2>7. \E j \in Nat : j = m
    BY <1>1
  <2>8. PICK j \in Nat : j = m
    BY <2>7
  <2>2. Split(j)'
    BY <2>3, <2>6, <2>8 DEF Split
  <2> QED
    BY <2>2 DEF WellSplit
<1>6. CASE Stays
  BY <1>6 DEF Stays, WellSplit, Split
<1> QED
  BY <1>3, <1>4, <1>5, <1>6, QueueStep

LEMMA SplitKeeps == Spec => []WellSplit
<1>1. Init => WellSplit
  <2> SUFFICES ASSUME Init PROVE Split(0)
    BY DEF WellSplit
  <2>1. Len(<<>>) = 0 /\ 1..0 = {}
    OBVIOUS
  <2> QED
    BY <2>1 DEF Init, Split
<1> QED
  BY <1>1, SplitStep, TypeCorrect, PTL DEF Spec

\* A span exported is acknowledged, in the batch in flight or in the buffer, in one of
\* them only and in its turn, whatever the network does.
THEOREM NoSpanForgotten == Spec => []NothingForgotten
  BY SplitIs, SplitKeeps, TypeCorrect, PTL

-----------------------------------------------------------------------------
(***************************************************************************)
(* Only a lost answer lets the server store a span twice.                  *)
(***************************************************************************)
\* Until an answer is lost, the server has stored each span as often as the
\* exporter knows: once if it is acknowledged, and else never.
AnswersTell ==
    lostAnswer \/ \A n \in Spans : stored[n] = IF n \in acked THEN 1 ELSE 0

\* A step stores the batch and acknowledges it, loses an answer, or leaves what is
\* stored and acknowledged alone.
LEMMA StoreStep ==
    ASSUME [Next]_vars
    PROVE  \/ Store /\ acked' = acked \cup Elements(batch) /\ lostAnswer' = lostAnswer
           \/ lostAnswer' = TRUE
           \/ UNCHANGED server
<1>1. CASE Export \/ TimerFires \/ Shutdown
  BY <1>1 DEF Export, TimerFires, Shutdown
<1>2. CASE Accepted
  BY <1>2 DEF Accepted
<1>3. CASE AnswerLost
  BY <1>3 DEF AnswerLost
<1>4. CASE Refused \/ Unauthorized \/ Retry \/ Network
  BY <1>4 DEF Refused, Unauthorized, Retry, Network
<1>5. CASE UNCHANGED vars
  BY <1>5 DEF vars, server
<1> QED
  BY <1>1, <1>2, <1>3, <1>4, <1>5 DEF Next, Sender

\* The server stores a span twice only if the answer to a stored batch was lost: a
\* batch in flight holds no acknowledged span, which NoSpanForgotten gives.
THEOREM OnceUnlessAnswerLost == Spec => []StoredOnce
<1> USE ExporterAssumption
<1>1. Init => AnswersTell
  BY DEF Init, AnswersTell
<1>2. TypeOK /\ WellSplit /\ AnswersTell /\ [Next]_vars => AnswersTell'
  <2> SUFFICES ASSUME TypeOK, WellSplit, AnswersTell, [Next]_vars
               PROVE  AnswersTell'
    OBVIOUS
  <2>1. CASE Store /\ acked' = acked \cup Elements(batch) /\ lostAnswer' = lostAnswer
    <3> SUFFICES ASSUME ~lostAnswer, NEW n \in Spans
                 PROVE  stored'[n] = IF n \in acked' THEN 1 ELSE 0
      BY <2>1 DEF AnswersTell
    <3>1. stored[n] = IF n \in acked THEN 1 ELSE 0
      BY DEF AnswersTell
    <3>2. n \in Elements(batch) => n \notin acked
      BY SplitElements DEF WellSplit, Split
    <3>3. stored'[n] = IF n \in Elements(batch) /\ stored[n] < 2
                       THEN stored[n] + 1 ELSE stored[n]
      BY <2>1 DEF Store
    <3> QED
      BY <2>1, <3>1, <3>2, <3>3
  <2>2. CASE lostAnswer' = TRUE
    BY <2>2 DEF AnswersTell
  <2>3. CASE UNCHANGED server
    BY <2>3 DEF AnswersTell, server
  <2> QED
    BY <2>1, <2>2, <2>3, StoreStep
<1>3. AnswersTell => StoredOnce
  BY DEF AnswersTell, StoredOnce
<1> QED
  BY <1>1, <1>2, <1>3, TypeCorrect, SplitKeeps, PTL DEF Spec

-----------------------------------------------------------------------------
(***************************************************************************)
(* What arrives, and what a shutdown leaves behind.                        *)
(***************************************************************************)
\* What was stored or acknowledged has been in a batch; the one in flight is the last.
Sent ==
    /\ \A n \in Spans : stored[n] > 0 => n <= tried
    /\ \A n \in acked : n <= tried
    /\ batch # <<>> => tried = batch[Len(batch)]

\* The last of a buffer that a flush takes is the last span exported.
LEMMA FlushTakesAll ==
    ASSUME TypeOK, WellSplit, [Next]_vars, tried' # tried
    PROVE  /\ tried' = pushed' /\ tried' = batch'[Len(batch')]
           /\ UNCHANGED server
<1>0. PICK k \in Nat : Split(k)
  BY DEF WellSplit
<1>1. /\ pushed \in Nat /\ buffer \in Seq(1..pushed) /\ batch \in Seq(1..pushed)
      /\ Len(batch) \in Nat /\ Len(buffer) \in Nat
  BY ExporterAssumption, LenProperties DEF TypeOK
<1>2. ASSUME NEW buf, Flush(buf) PROVE ~flushing /\ buf # <<>> /\ batch' = buf /\ tried' = buf[Len(buf)]
  BY <1>2 DEF Flush
<1>3. ~flushing => batch = <<>> /\ Len(batch) = 0
  BY DEF TypeOK
<1>4. CASE Export
  <2>1. /\ Flush(Append(buffer, pushed + 1)) /\ pushed' = pushed + 1 /\ UNCHANGED server
    BY <1>4 DEF Export
  <2>2. /\ Len(Append(buffer, pushed + 1)) = Len(buffer) + 1
        /\ Append(buffer, pushed + 1)[Len(buffer) + 1] = pushed + 1
    BY <1>1
  <2> QED
    BY <1>2, <2>1, <2>2
<1>5. CASE TimerFires \/ Shutdown
  <2>1. Flush(buffer) /\ pushed' = pushed /\ UNCHANGED server
    BY <1>5 DEF TimerFires, Shutdown
  <2>2. buffer # <<>> /\ batch' = buffer /\ tried' = buffer[Len(buffer)] /\ Len(batch) = 0
    BY <1>2, <1>3, <2>1
  <2>3. Len(buffer) \in 1..Len(buffer)
    BY <1>1, <2>2, EmptySeq
  <2>4. buffer[Len(buffer)] = k + Len(batch) + Len(buffer)
    BY <1>0, <2>3 DEF Split
  <2>5. k + Len(batch) + Len(buffer) = pushed
    BY <1>0 DEF Split
  <2> QED
    BY <2>1, <2>2, <2>4, <2>5
<1>6. CASE Sender \/ Network \/ UNCHANGED vars
  BY <1>6 DEF Sender, Accepted, AnswerLost, Refused, Unauthorized, Retry, Network, vars
<1> QED
  BY <1>4, <1>5, <1>6 DEF Next

\* What an answer changes: the batch is stored, and acknowledged or not.
LEMMA Arrival ==
    ASSUME TypeOK, [Next]_vars, ~UNCHANGED server
    PROVE  /\ batch # <<>> /\ Store /\ UNCHANGED <<pushed, tried>>
           /\ acked' \in {acked, acked \cup Elements(batch)}
<1>1. CASE Export \/ TimerFires \/ Shutdown
  BY <1>1 DEF Export, TimerFires, Shutdown
<1>2. CASE Accepted \/ AnswerLost
  BY <1>2 DEF Accepted, AnswerLost, TypeOK
<1>3. CASE Refused \/ Unauthorized \/ Retry \/ Network
  BY <1>3 DEF Refused, Unauthorized, Retry, Network
<1>4. CASE UNCHANGED vars
  BY <1>4 DEF vars, server
<1> QED
  BY <1>1, <1>2, <1>3, <1>4 DEF Next, Sender

\* The spans of the batch lie between those acknowledged and the last one tried.
LEMMA BatchIs ==
    ASSUME TypeOK, WellSplit, Sent, batch # <<>>
    PROVE  /\ tried \in 1..pushed /\ tried \notin acked
           /\ \A n \in Nat : n \in Elements(batch) <=> n \in 1..tried /\ n \notin acked
           /\ acked \cup Elements(batch) = 1..tried
<1>0. PICK k \in Nat : Split(k)
  BY DEF WellSplit
<1>1. /\ pushed \in Nat /\ batch \in Seq(1..pushed) /\ buffer \in Seq(1..pushed)
  BY ExporterAssumption DEF TypeOK
<1>2. /\ Len(batch) \in Nat /\ Len(buffer) \in Nat
      /\ Elements(batch) = (k + 1)..(k + Len(batch))
      /\ acked \cup Elements(batch) = 1..(k + Len(batch))
  BY <1>0, SplitElements
<1>3. Len(batch) \in 1..Len(batch)
  BY <1>1, <1>2, EmptySeq
<1>4. batch[Len(batch)] = k + Len(batch) /\ acked = 1..k /\ k + Len(batch) + Len(buffer) = pushed
  BY <1>0, <1>3 DEF Split
<1>5. tried = k + Len(batch)
  BY <1>4 DEF Sent
<1> QED
  BY <1>1, <1>2, <1>3, <1>4, <1>5

LEMMA SentStep == ASSUME TypeOK, WellSplit, Sent, [Next]_vars PROVE Sent'
<1>0. /\ pushed \in Nat /\ pushed' \in Nat /\ pushed <= pushed' /\ tried \in 0..pushed
      /\ stored \in [Spans -> 0..2]
  <2>1. pushed' \in 0..MaxSpans /\ pushed <= pushed'
    BY QueueTyped
  <2> QED
    BY <2>1, ExporterAssumption DEF TypeOK
<1>1. CASE tried' # tried
  <2>1. /\ tried' = pushed' /\ tried' = batch'[Len(batch')] /\ UNCHANGED server
    BY <1>1, FlushTakesAll
  <2>2. tried <= tried' /\ tried' \in Nat
    BY <1>0, <2>1
  <2>3. stored' = stored /\ acked' = acked
    BY <2>1 DEF server
  <2>4. \A n \in acked : n \in Nat
    BY DEF TypeOK
  <2> QED
    BY <1>0, <2>1, <2>2, <2>3, <2>4 DEF Sent, Spans
<1>2. CASE tried' = tried
  <2>1. \A n \in Elements(batch) : n <= tried
    <3>1. CASE batch = <<>>
      BY <3>1, EmptyFacts
    <3>2. CASE batch # <<>>
      BY <3>2, BatchIs
    <3> QED
      BY <3>1, <3>2
  <2>2. (\A n \in Spans : stored'[n] > 0 => n <= tried') /\ (\A n \in acked' : n <= tried')
    <3>1. CASE UNCHANGED server
      BY <1>2, <3>1 DEF Sent, server
    <3>2. CASE ~UNCHANGED server
      <4>1. Store /\ acked' \in {acked, acked \cup Elements(batch)}
        BY <3>2, Arrival
      <4>2. \A n \in Spans : stored'[n] > 0 => stored[n] > 0 \/ n \in Elements(batch)
        BY <1>0, <4>1 DEF Store
      <4> QED
        BY <1>2, <2>1, <4>1, <4>2 DEF Sent
    <3> QED
      BY <3>1, <3>2
  <2>3. batch' # <<>> => tried' = batch'[Len(batch')]
    <3>1. batch' = batch \/ batch' = <<>> \/ tried' = batch'[Len(batch')]
      <4>1. ASSUME NEW buf, Flush(buf) PROVE batch' = batch \/ tried' = batch'[Len(batch')]
        BY <4>1 DEF Flush
      <4>2. CASE Export \/ TimerFires \/ Shutdown
        BY <4>1, <4>2 DEF Export, TimerFires, Shutdown
      <4>3. CASE Sender \/ Network \/ UNCHANGED vars
        BY <4>3 DEF Sender, Accepted, AnswerLost, Refused, Unauthorized, Retry, Network, vars,
                    RetryOrGiveUp, GiveUp, FlushOver
      <4> QED
        BY <4>2, <4>3 DEF Next
    <3> QED
      BY <1>2, <3>1 DEF Sent
  <2> QED
    BY <2>2, <2>3 DEF Sent
<1> QED
  BY <1>1, <1>2

LEMMA SentKeeps == Spec => []Sent
<1>1. Init => Sent
  BY DEF Init, Sent
<1> QED
  BY <1>1, SentStep, TypeCorrect, SplitKeeps, PTL DEF Spec

\* The exporter and the server deliver the spans in their order and at least once: what
\* arrives, confirmed or not, is all that was not acknowledged up to some span, and no
\* less than what arrived before (OrderedDelivery, index.ts:106-151 and 222-289).
THEOREM DeliveryInOrder == Spec => DeliversInOrder
<1>1. Init => Delivery!DeliveryInit
  BY DEF Init, Delivery!DeliveryInit, Delivery!Items, Spans
<1>2. TypeOK /\ WellSplit /\ Sent /\ [Next]_vars
        => [Delivery!DeliveryNext]_(Delivery!deliveryVars)
  <2> SUFFICES ASSUME TypeOK, WellSplit, Sent, [Next]_vars
               PROVE  [Delivery!DeliveryNext]_(Delivery!deliveryVars)
    OBVIOUS
  <2>0. pushed \in 0..MaxSpans /\ MaxSpans \in Nat /\ stored \in [Spans -> 0..2]
    BY ExporterAssumption DEF TypeOK
  <2>1. CASE ~UNCHANGED server
    <3>1. /\ batch # <<>> /\ Store /\ pushed' = pushed
          /\ acked' \in {acked, acked \cup Elements(batch)}
      BY <2>1, Arrival
    <3>2. /\ tried \in 1..pushed /\ tried \notin acked
          /\ \A n \in Nat : n \in Elements(batch) <=> n \in 1..tried /\ n \notin acked
          /\ acked \cup Elements(batch) = 1..tried
      BY <3>1, BatchIs
    <3>3. stored' = [n \in Spans |->
             IF n <= tried /\ n \notin acked /\ stored[n] < 2 THEN stored[n] + 1 ELSE stored[n]]
      <4>1. \A n \in Spans : n \in Elements(batch) <=> n <= tried /\ n \notin acked
        BY <2>0, <3>2 DEF Spans
      <4> QED
        BY <3>1, <4>1 DEF Store
    <3>4. tried \in 1..pushed \ acked /\ tried \in Spans
      BY <2>0, <3>2 DEF Spans
    <3>5. \A n \in Spans : stored[n] > 0 => n <= tried
      BY <2>0 DEF Sent
    <3>6. acked' \in {acked, 1..tried}
      BY <3>1, <3>2
    <3>7. Delivery!Arrive(tried)
      BY <3>1, <3>3, <3>4, <3>5, <3>6 DEF Delivery!Arrive, Delivery!Items, Spans
    <3> QED
      BY <3>4, <3>7 DEF Delivery!DeliveryNext, Delivery!Items, Spans
  <2>2. CASE UNCHANGED server
    <3>1. UNCHANGED <<stored, acked>>
      BY <2>2 DEF server
    <3>2. pushed' = pushed \/ (pushed < MaxSpans /\ pushed' = pushed + 1)
      BY DEF Next, Export, TimerFires, Shutdown, Sender, Accepted, AnswerLost, Refused,
             Unauthorized, Retry, Network, vars
    <3> QED
      BY <3>1, <3>2 DEF Delivery!DeliveryNext, Delivery!Accept, Delivery!deliveryVars
  <2> QED
    BY <2>1, <2>2
<1> QED
  BY <1>1, <1>2, TypeCorrect, SplitKeeps, SentKeeps, PTL
     DEF Spec, DeliversInOrder, Delivery!DeliverySpec

\* shutdown() is called while no flush is in flight.
CalledAtRest == closing = "open" /\ closing' # "open" => ~flushing

\* The comment above shutdown is true of one that is called while no flush is in flight:
\* when it resolves, and from its call on, every span exported before has been part of a
\* batch (index.ts:142-151).  The other case is the one it is violated in.
THEOREM ShutdownAtRestFlushes == Spec /\ [][CalledAtRest]_vars => []ShutdownFlushes
<1> DEFINE Flushed == closing # "open" => due <= tried
<1>1. Init => Flushed
  BY DEF Init
<1>2. TypeOK /\ WellSplit /\ Sent /\ Flushed /\ [Next]_vars /\ [CalledAtRest]_vars => Flushed'
  <2> SUFFICES ASSUME TypeOK, WellSplit, Sent, Flushed, [Next]_vars, [CalledAtRest]_vars
               PROVE  Flushed'
    OBVIOUS
  <2>0. /\ pushed \in Nat /\ tried \in 0..pushed /\ due \in 0..pushed /\ pushed <= pushed'
        /\ pushed' \in Nat
    <3>1. pushed' \in 0..MaxSpans /\ pushed <= pushed'
      BY QueueTyped
    <3> QED
      BY <3>1, ExporterAssumption DEF TypeOK
  <2>1. tried' = tried \/ tried' = pushed'
    BY FlushTakesAll
  <2>2. CASE Shutdown
    <3>1. due' = pushed /\ pushed' = pushed /\ closing = "open" /\ closing' # "open" /\ Flush(buffer)
      BY <2>2 DEF Shutdown
    <3>2. ~flushing
      BY <3>1 DEF CalledAtRest, vars
    <3>3. CASE buffer = <<>>
      <4>1. PICK k \in Nat : Split(k)
        BY DEF WellSplit
      <4>2. Len(batch) = 0 /\ Len(buffer) = 0 /\ acked = 1..k /\ k + Len(batch) + Len(buffer) = pushed
        BY <3>2, <3>3, <4>1 DEF Split, TypeOK
      <4>3. pushed = 0 \/ pushed \in acked
        BY <2>0, <4>2
      <4>4. pushed <= tried
        BY <2>0, <4>3 DEF Sent
      <4>5. tried' = tried
        BY <3>1, <3>3 DEF Flush
      <4> QED
        BY <3>1, <4>4, <4>5
    <3>4. CASE buffer # <<>>
      <4>1. tried' = buffer[Len(buffer)]
        BY <3>1, <3>2, <3>4 DEF Flush
      <4>2. tried' = pushed
        <5>1. CASE tried' # tried
          BY <3>1, <5>1, FlushTakesAll
        <5>2. PICK k \in Nat : Split(k)
          BY DEF WellSplit
        <5>3. Len(batch) = 0 /\ Len(buffer) \in Nat /\ buffer \in Seq(1..pushed)
          BY <3>2, LenProperties DEF TypeOK
        <5>4. Len(buffer) \in 1..Len(buffer)
          BY <3>4, <5>3, EmptySeq
        <5>5. buffer[Len(buffer)] = k + Len(batch) + Len(buffer) /\ k + Len(batch) + Len(buffer) = pushed
          BY <5>2, <5>4 DEF Split
        <5> QED
          BY <4>1, <5>5
      <4> QED
        BY <2>0, <3>1, <4>2
    <3> QED
      BY <3>3, <3>4
  <2>3. CASE ~Shutdown
    <3>1. due' = due /\ (closing' # "open" => closing # "open")
      BY <2>3 DEF Next, Export, TimerFires, Sender, Accepted, AnswerLost, Refused, Unauthorized,
                  Retry, Network, vars, RetryOrGiveUp, GiveUp, FlushOver
    <3> QED
      BY <2>0, <2>1, <3>1
  <2> QED
    BY <2>2, <2>3
<1>3. Flushed => ShutdownFlushes
  BY DEF ShutdownFlushes
<1> QED
  BY <1>1, <1>2, <1>3, TypeCorrect, SplitKeeps, SentKeeps, PTL DEF Spec

-----------------------------------------------------------------------------
(***************************************************************************)
(* LogsPage.                                                               *)
(***************************************************************************)
\* The values the variables take.
LineNo == 1..MaxLines
Shown == [line : LineNo, live : BOOLEAN]
Enquiries == [kind : {"load", "older", "jump"}, by : {"none", "search", "filter"}, at : Nat,
              since : Nat, stage : {"asked", "answered", "over"}, rows : Seq(LineNo), count : Nat,
              stored : SUBSET LineNo, live : SUBSET LineNo, spoilt : BOOLEAN]

\* No two of a sequence are the same.
OnceEach(s) == \A i, j \in DOMAIN s : s[i] = s[j] => i = j

\* R is a part of S that lacks nothing of a later time than what it has.
NewestOf(R, S) == R \subseteq S /\ \A n \in S, m \in R : Time(n) > Time(m) => n \in R

IsPending(i) == requests[i].stage # "over"
Overs(rs) == {i \in DOMAIN rs : rs[i].stage = "over"}

\* A list has fewer rows stored than there are now; a list is asked for from its top.
PageTyped ==
    /\ emitted \in 0..MaxLines /\ storedRows \subseteq 1..emitted
    /\ narrowed \in {"none", "search", "filter"} /\ total \in Nat
    /\ {oldestLoaded, loadingOlder, failed, outOfTurn} \subseteq BOOLEAN
    /\ logs \in Seq(Shown) /\ requests \in Seq(Enquiries) /\ Len(requests) <= MaxPages
    /\ storedThen \subseteq storedRows
    /\ \A i \in DOMAIN requests :
         /\ requests[i].stored \subseteq storedRows /\ Len(requests[i].rows) <= PageSize
         /\ requests[i].kind # "older" /\ requests[i].stage = "asked" => requests[i].at = 0

\* A page is added only when a request ends.
LengthBounded == Len(logs) <= MaxShown + PageSize * Cardinality(Overs(requests))

\* Lines come in their order, each once.
FeedInOrder ==
    /\ feed \in Seq(1..emitted) /\ LiveLines \subseteq 1..emitted
    /\ \A i, j \in DOMAIN feed : i < j => feed[i] < feed[j]
    /\ \A i \in DOMAIN feed : \A n \in LiveLines : n < feed[i]

\* One request for older rows at a time.
OneOlder ==
    \A i, j \in DOMAIN requests :
        requests[i].kind = "older" /\ IsPending(i) =>
            loadingOlder /\ (requests[j].kind = "older" /\ IsPending(j) => i = j)

\* A list that is on its way fits what is set, or a load was asked for since.
ListFits(r) ==
    IF r.stage = "asked" THEN r.by = narrowed
    ELSE OnceEach(r.rows) /\ NewestOf(Elements(r.rows), r.stored \cap Passing(narrowed))
LatestFits ==
    \A i \in DOMAIN requests : IsPending(i) /\ requests[i].kind # "older" =>
        ListFits(requests[i]) \/ \E k \in DOMAIN requests : k > i /\ requests[k].kind = "load"

\* The list is the one last asked for.
Settled ==
    /\ ~failed /\ ~outOfTurn
    /\ \A i \in DOMAIN requests : requests[i].kind = "load" => ~IsPending(i)

\* Its rows are the newest of those stored then, and the live lines came later; what
\* is on its way of older rows goes on where they end.
ListSound ==
    /\ \A i, j \in DOMAIN logs : logs[i].line = logs[j].line => i = j
    /\ NewestOf(PageRows, storedThen \cap Passing(narrowed))
    /\ LiveLines \cap storedThen = {}
OlderFits(r) ==
    IF r.stage = "asked"
    THEN /\ r.by = narrowed /\ r.since = 0 /\ r.live \cap storedThen = {}
         /\ r.at = Cardinality(PageRows) + Cardinality(r.live)
    ELSE /\ OnceEach(r.rows) /\ Elements(r.rows) \cap PageRows = {}
         /\ NewestOf(PageRows \cup Elements(r.rows), storedThen \cap Passing(narrowed))
SettledSound ==
    Settled => /\ ListSound
               /\ \A i \in DOMAIN requests :
                    IsPending(i) /\ requests[i].kind = "older" /\ ~requests[i].spoilt =>
                        OlderFits(requests[i])

\* The invariant of the page.
PageInv ==
    /\ PageTyped /\ LengthBounded /\ FeedInOrder /\ OneOlder /\ LatestFits /\ SettledSound

-----------------------------------------------------------------------------
\* Lines have a time.
LEMMA TimeIs == \A n : Time(n) \in Nat \/ n \notin LineNo
<1> SUFFICES ASSUME NEW n \in LineNo PROVE Time(n) \in Nat
  OBVIOUS
<1>1. 1 \in Int /\ n \in Int
  BY PageAssumption DEF PageAssumption, LineNo
<1>2. IsFiniteSet(1..n)
  BY <1>1, FS_Interval
<1>3. (1..n) \ Together \in SUBSET (1..n)
  OBVIOUS
<1>4. IsFiniteSet((1..n) \ Together)
  BY <1>2, <1>3, FS_Subset
<1> QED
  BY <1>4, FS_CardinalityType DEF Time

\* An order of the lines tells each from every other and keeps their times.
LEMMA OrderIs ==
    ASSUME NEW order \in Orders
    PROVE  /\ \A n \in LineNo : order[n] \in Nat
           /\ \A m, n \in LineNo : m # n => order[m] # order[n]
           /\ \A m, n \in LineNo : Time(m) < Time(n) => order[m] < order[n]
  BY PageAssumption DEF Orders, LineNo, PageAssumption

\* The ranks of a set of lines: as many as it has members, each once.
LEMMA RanksAre ==
    ASSUME NEW F, F \subseteq LineNo, IsFiniteSet(F), NEW order \in Orders
    PROVE  /\ Cardinality(F) \in Nat
           /\ \A n \in F : Before(F, n, order) \in 0..(Cardinality(F) - 1)
           /\ \A m, n \in F : order[n] < order[m] => Before(F, m, order) < Before(F, n, order)
           /\ \A m, n \in F : Before(F, m, order) = Before(F, n, order) => m = n
           /\ \A k \in 0..(Cardinality(F) - 1) : \E n \in F : Before(F, n, order) = k
<1> DEFINE A(n) == {m \in F : order[m] > order[n]}
           c == Cardinality(F)
           rank == [n \in F |-> Before(F, n, order)]
<1>1. c \in Nat
  BY FS_CardinalityType
<1>2. \A n \in F : IsFiniteSet(A(n)) /\ Before(F, n, order) \in Nat /\ Before(F, n, order) < c
  <2> TAKE n \in F
  <2>1. A(n) \in SUBSET F /\ n \notin A(n)
    <3>1. ~(order[n] > order[n])
      BY OrderIs
    <3> QED
      BY <3>1
  <2>2. IsFiniteSet(A(n)) /\ Cardinality(A(n)) <= c /\ (c = Cardinality(A(n)) => F = A(n))
    BY <2>1, FS_Subset
  <2>3. Cardinality(A(n)) \in Nat
    BY <2>2, FS_CardinalityType
  <2>4. Cardinality(A(n)) # c
    BY <2>1, <2>2
  <2> HIDE DEF c
  <2>5. Before(F, n, order) = Cardinality(A(n))
    BY DEF Before
  <2> QED
    BY <1>1, <2>2, <2>3, <2>4, <2>5
<1>3. \A m, n \in F : order[n] < order[m] => Before(F, m, order) < Before(F, n, order)
  <2> SUFFICES ASSUME NEW m \in F, NEW n \in F, order[n] < order[m] PROVE Before(F, m, order) < Before(F, n, order)
    OBVIOUS
  <2>1. A(m) \in SUBSET A(n) /\ m \in A(n) /\ m \notin A(m)
    <3>1. order[m] \in Nat /\ order[n] \in Nat /\ \A x \in F : order[x] \in Nat
      BY OrderIs
    <3>2. \A x \in F : order[x] > order[m] => order[x] > order[n]
      BY <3>1
    <3>3. order[m] > order[n] /\ ~(order[m] > order[m])
      BY <3>1
    <3> QED
      BY <3>2, <3>3
  <2>2. Cardinality(A(m)) <= Cardinality(A(n)) /\ (Cardinality(A(n)) = Cardinality(A(m)) => A(n) = A(m))
    BY <1>2, <2>1, FS_Subset
  <2>3. Cardinality(A(m)) # Cardinality(A(n))
    BY <2>1, <2>2
  <2>4. Before(F, n, order) = Cardinality(A(n)) /\ Before(F, m, order) = Cardinality(A(m))
    BY DEF Before
  <2>5. Before(F, n, order) \in Nat /\ Before(F, m, order) \in Nat
    BY <1>2
  <2> QED
    BY <2>2, <2>3, <2>4, <2>5
<1> HIDE DEF A, c
<1>4. \A n \in F : Before(F, n, order) \in 0..(c - 1)
  BY <1>1, <1>2
<1>5. rank \in Injection(F, 0..(c - 1))
  <2>1. rank \in [F -> 0..(c - 1)]
    BY <1>4
  <2>2. ASSUME NEW m \in F, NEW n \in F, rank[m] = rank[n] PROVE m = n
    <3>1. Before(F, m, order) = Before(F, n, order) /\ Before(F, m, order) \in Nat
      BY <1>2, <2>2
    <3>2. ~(order[m] < order[n]) /\ ~(order[n] < order[m])
      BY <1>3, <3>1
    <3>3. order[m] = order[n]
      BY <3>2, OrderIs
    <3> QED
      BY <3>3, OrderIs
  <2> QED
    BY <2>1, <2>2 DEF Injection, IsInjective
<1>6. IsFiniteSet(0..(c - 1)) /\ Cardinality(0..(c - 1)) = c
  <2>1. 0 \in Int /\ c - 1 \in Int /\ (c > 0 => ~(0 > c - 1)) /\ (c = 0 => 0 > c - 1)
    BY <1>1
  <2>2. IsFiniteSet(0..(c - 1)) /\ Cardinality(0..(c - 1)) = IF 0 > c - 1 THEN 0 ELSE (c - 1) - 0 + 1
    BY <2>1, FS_Interval
  <2> QED
    BY <1>1, <2>1, <2>2
<1>7. rank \in Surjection(F, 0..(c - 1))
  BY <1>5, <1>6, FS_Injection DEF c
<1>8. \A k \in 0..(c - 1) : \E n \in F : rank[n] = k
  BY <1>7 DEF Surjection
<1>9. \A m, n \in F : Before(F, m, order) = Before(F, n, order) => m = n
  BY <1>5 DEF Injection, IsInjective
<1> QED
  BY <1>1, <1>3, <1>4, <1>8, <1>9 DEF c

\* The members of a page, and the page in its order.
PageIn(F, at, order) == {n \in F : Before(F, n, order) \in at..(at + PageSize - 1)}
Listed(F, at, order) ==
    [k \in 1..Cardinality(PageIn(F, at, order)) |-> CHOOSE n \in PageIn(F, at, order) : Before(F, n, order) = at + k - 1]

\* A page holds, once each, the members whose ranks are in its range.
LEMMA PageIs ==
    ASSUME NEW F, F \subseteq LineNo, NEW at \in Nat, NEW order \in Orders
    PROVE  /\ Listed(F, at, order) \in Seq(LineNo) /\ OnceEach(Listed(F, at, order))
           /\ Elements(Listed(F, at, order)) = PageIn(F, at, order) /\ Len(Listed(F, at, order)) <= PageSize
<1> DEFINE page == PageIn(F, at, order)
           p == Cardinality(page)
           c == Cardinality(F)
           At(k) == CHOOSE n \in page : Before(F, n, order) = at + k - 1
           rows == [k \in 1..p |-> At(k)]
<1>1. PageSize \in Nat \ {0} /\ MaxLines \in Nat
  BY PageAssumption DEF PageAssumption
<1>2. F \subseteq Nat /\ IsFiniteSet(F)
  <2>1. 1 \in Int /\ MaxLines \in Int
    BY <1>1
  <2>2. IsFiniteSet(1..MaxLines)
    BY <2>1, FS_Interval
  <2>3. F \in SUBSET (1..MaxLines)
    BY DEF LineNo
  <2>4. IsFiniteSet(F)
    BY <2>2, <2>3, FS_Subset
  <2> QED
    BY <2>3, <2>4
<1>3. /\ c \in Nat
      /\ \A n \in F : Before(F, n, order) \in 0..(c - 1)
      /\ \A m, n \in F : Before(F, m, order) = Before(F, n, order) => m = n
      /\ \A k \in 0..(c - 1) : \E n \in F : Before(F, n, order) = k
  BY <1>2, RanksAre
<1>4. IsFiniteSet(page) /\ p \in Nat
  <2>1. page \in SUBSET F
    BY DEF PageIn
  <2> QED
    BY <1>2, <2>1, FS_Subset, FS_CardinalityType
<1> DEFINE q == IF at >= c THEN 0 ELSE IF at + PageSize > c THEN c - at ELSE PageSize
           place == [n \in page |-> Before(F, n, order) - at + 1]
<1>5. q \in Nat /\ q <= PageSize
  BY <1>1, <1>3
<1> HIDE DEF c
<1>6. \A n \in page : n \in F /\ n \in Nat /\ Before(F, n, order) - at + 1 \in 1..q /\ Before(F, n, order) \in Nat
  <2> TAKE n \in page
  <2>1. n \in F /\ Before(F, n, order) \in at..(at + PageSize - 1) /\ Before(F, n, order) \in 0..(c - 1)
    BY <1>3 DEF PageIn
  <2> QED
    BY <1>1, <1>2, <1>3, <2>1
<1>7. \A m, n \in page : Before(F, m, order) = Before(F, n, order) => m = n
  BY <1>3, <1>6
<1>8. \A k \in 1..q : \E n \in page : Before(F, n, order) = at + k - 1
  <2> TAKE k \in 1..q
  <2>1. at + k - 1 \in 0..(c - 1) /\ at + k - 1 \in at..(at + PageSize - 1)
    BY <1>1, <1>3
  <2>2. PICK n \in F : Before(F, n, order) = at + k - 1
    BY <1>3, <2>1
  <2> QED
    BY <2>1, <2>2 DEF PageIn
<1> HIDE DEF q, page
<1>9. place \in Bijection(page, 1..q)
  <2>1. place \in [page -> 1..q]
    BY <1>6
  <2>2. ASSUME NEW m \in page, NEW n \in page, place[m] = place[n] PROVE m = n
    <3>1. Before(F, m, order) = Before(F, n, order)
      BY <1>6, <2>2
    <3> QED
      BY <1>7, <3>1
  <2>3. ASSUME NEW k \in 1..q PROVE \E n \in page : place[n] = k
    <3>1. PICK n \in page : Before(F, n, order) = at + k - 1
      BY <1>8
    <3>2. place[n] = k
      BY <1>5, <3>1
    <3> QED
      BY <3>2
  <2> QED
    BY <2>1, <2>2, <2>3 DEF Bijection, Injection, Surjection, IsInjective
<1>10. p = q
  <2>1. IsFiniteSet(1..q) /\ Cardinality(1..q) = q
    <3>1. 1 \in Int /\ q \in Int /\ (1 > q => q = 0) /\ q - 1 + 1 = q
      BY <1>5
    <3>2. IsFiniteSet(1..q) /\ Cardinality(1..q) = IF 1 > q THEN 0 ELSE q - 1 + 1
      BY <3>1, FS_Interval
    <3> QED
      BY <3>1, <3>2
  <2>2. ExistsBijection(page, 1..q)
    BY <1>9 DEF ExistsBijection
  <2>3. p = Cardinality(1..q)
    BY <1>4, <2>1, <2>2, FS_Bijection
  <2> QED
    BY <2>1, <2>3
<1> HIDE DEF p
<1>11. \A k \in 1..p : At(k) \in page /\ Before(F, At(k), order) = at + k - 1
  BY <1>8, <1>10
<1>12. \A n \in page : \E k \in 1..p : At(k) = n
  <2> TAKE n \in page
  <2> DEFINE k == Before(F, n, order) - at + 1
  <2>1. k \in 1..p /\ Before(F, n, order) = at + k - 1
    BY <1>6, <1>10
  <2> HIDE DEF k
  <2>2. At(k) = n
    BY <1>7, <1>11, <2>1
  <2> QED
    BY <2>1, <2>2
<1> HIDE DEF At
<1>13. \A k, l \in 1..p : At(k) = At(l) => k = l
  <2> SUFFICES ASSUME NEW k \in 1..p, NEW l \in 1..p, At(k) = At(l) PROVE k = l
    OBVIOUS
  <2>1. at + k - 1 = at + l - 1
    BY <1>11
  <2> QED
    BY <2>1, <1>4
<1>14. rows \in Seq(LineNo) /\ Len(rows) = p /\ DOMAIN rows = 1..p
  <2>1. \A k \in 1..p : At(k) \in LineNo
    BY <1>6, <1>11
  <2> QED
    BY <1>4, <2>1
<1>15. OnceEach(rows)
  BY <1>13, <1>14 DEF OnceEach
<1>16. Elements(rows) = page
  BY <1>11, <1>12, <1>14 DEF Elements
<1>17. Len(rows) <= PageSize
  BY <1>5, <1>10, <1>14
<1> QED
  BY <1>14, <1>15, <1>16, <1>17 DEF page, p, At, Listed
-----------------------------------------------------------------------------
\* What a list shows: the live lines and the rows of pages.
LivesOf(l) == {l[i].line : i \in {j \in DOMAIN l : l[j].live}}
PagesOf(l) == {l[i].line : i \in {j \in DOMAIN l : ~l[j].live}}
Distinct(l) == \A i, j \in DOMAIN l : l[i].line = l[j].line => i = j

\* The rows of a list are numbers of lines, live or of a page.
LEMMA ListIs ==
    ASSUME NEW l \in Seq(Shown)
    PROVE  /\ DOMAIN l = 1..Len(l) /\ Len(l) \in Nat
           /\ \A i \in DOMAIN l : l[i] \in Shown /\ l[i].line \in LineNo /\ l[i].live \in BOOLEAN
           /\ LivesOf(l) \subseteq LineNo /\ PagesOf(l) \subseteq LineNo
           /\ \A i \in DOMAIN l : l[i].line \in LivesOf(l) \cup PagesOf(l)
<1>1. DOMAIN l = 1..Len(l) /\ Len(l) \in Nat /\ \A i \in 1..Len(l) : l[i] \in Shown
  OBVIOUS
<1>2. \A i \in DOMAIN l : l[i].line \in LineNo /\ l[i].live \in BOOLEAN
  BY <1>1 DEF Shown
<1> QED
  BY <1>1, <1>2 DEF LivesOf, PagesOf

\* A list has a row of this line.
HasRow(l, x, live) == \E i \in 1..Len(l) : l[i].live = live /\ l[i].line = x

\* The lines of a list are those of its rows.
LEMMA MembersAre ==
    ASSUME NEW l \in Seq(Shown), NEW x
    PROVE  /\ x \in LivesOf(l) <=> HasRow(l, x, TRUE)
           /\ x \in PagesOf(l) <=> HasRow(l, x, FALSE)
<1>1. DOMAIN l = 1..Len(l) /\ \A i \in 1..Len(l) : l[i].live \in BOOLEAN
  BY ListIs
<1>2. x \in LivesOf(l) <=> \E i \in 1..Len(l) : l[i].live /\ l[i].line = x
  BY <1>1 DEF LivesOf
<1>3. x \in PagesOf(l) <=> \E i \in 1..Len(l) : ~l[i].live /\ l[i].line = x
  BY <1>1 DEF PagesOf
<1> QED
  BY <1>1, <1>2, <1>3 DEF HasRow

\* A live line below the list.
LEMMA AppendLive ==
    ASSUME NEW l \in Seq(Shown), NEW n \in LineNo
    PROVE  LET a == Append(l, [line |-> n, live |-> TRUE])
           IN /\ a \in Seq(Shown) /\ Len(a) = Len(l) + 1
              /\ LivesOf(a) = LivesOf(l) \cup {n} /\ PagesOf(a) = PagesOf(l)
              /\ Distinct(l) /\ n \notin LivesOf(l) \cup PagesOf(l) => Distinct(a)
<1> DEFINE e == [line |-> n, live |-> TRUE]
           a == Append(l, e)
           k == Len(l) + 1
<1>1. e \in Shown /\ e.line = n /\ e.live = TRUE
  BY DEF Shown
<1>2. /\ DOMAIN l = 1..Len(l) /\ Len(l) \in Nat
      /\ \A i \in DOMAIN l : l[i].line \in LivesOf(l) \cup PagesOf(l)
  BY ListIs
<1> HIDE DEF e
<1>3. a \in Seq(Shown) /\ Len(a) = k /\ DOMAIN a = 1..k /\ a[k] = e /\ \A i \in 1..Len(l) : a[i] = l[i]
  BY <1>1, <1>2
<1>4. \A i : i \in 1..k <=> i \in 1..Len(l) \/ i = k
  BY <1>2
<1>5. k \notin 1..Len(l) /\ k \in 1..k
  BY <1>2
<1> HIDE DEF a, k
<1>6. ASSUME NEW x PROVE x \in LivesOf(a) <=> x \in LivesOf(l) \/ x = n
  <2>1. x \in LivesOf(a) <=> HasRow(a, x, TRUE)
    BY <1>3, MembersAre
  <2>2. x \in LivesOf(l) <=> HasRow(l, x, TRUE)
    BY MembersAre
  <2> QED
    BY <1>1, <1>3, <1>4, <1>5, <2>1, <2>2 DEF HasRow
<1>7. ASSUME NEW x PROVE x \in PagesOf(a) <=> x \in PagesOf(l)
  <2>1. x \in PagesOf(a) <=> HasRow(a, x, FALSE)
    BY <1>3, MembersAre
  <2>2. x \in PagesOf(l) <=> HasRow(l, x, FALSE)
    BY MembersAre
  <2> QED
    BY <1>1, <1>3, <1>4, <1>5, <2>1, <2>2 DEF HasRow
<1>a. LivesOf(a) = LivesOf(l) \cup {n} /\ PagesOf(a) = PagesOf(l)
  BY <1>6, <1>7
<1>8. ASSUME Distinct(l), n \notin LivesOf(l) \cup PagesOf(l), NEW i \in 1..k, NEW j \in 1..k, a[i].line = a[j].line
      PROVE  i = j
  <2>1. \A m \in 1..Len(l) : l[m].line # n
    BY <1>2, <1>8
  <2>2. CASE i = k
    BY <1>1, <1>3, <1>4, <1>8, <2>1, <2>2
  <2>3. CASE j = k
    BY <1>1, <1>3, <1>4, <1>8, <2>1, <2>3
  <2>4. CASE i # k /\ j # k
    BY <1>2, <1>3, <1>4, <1>8, <2>4 DEF Distinct
  <2> QED
    BY <2>2, <2>3, <2>4
<1>9. Distinct(l) /\ n \notin LivesOf(l) \cup PagesOf(l) => Distinct(a)
  BY <1>3, <1>8 DEF Distinct
<1> QED
  BY <1>3, <1>a, <1>9 DEF a, k, e

\* The rows of a page as the list shows them.
AsRows(rows) == [k \in DOMAIN rows |-> [line |-> rows[k], live |-> FALSE]]

\* A list that is one page.
LEMMA PageAlone ==
    ASSUME NEW rows \in Seq(LineNo)
    PROVE  /\ AsRows(rows) \in Seq(Shown) /\ Len(AsRows(rows)) = Len(rows)
           /\ LivesOf(AsRows(rows)) = {} /\ PagesOf(AsRows(rows)) = Elements(rows)
           /\ OnceEach(rows) => Distinct(AsRows(rows))
<1> DEFINE q == AsRows(rows)
<1>1. DOMAIN rows = 1..Len(rows) /\ Len(rows) \in Nat /\ \A i \in 1..Len(rows) : rows[i] \in LineNo
  OBVIOUS
<1>2. DOMAIN q = 1..Len(rows) /\ \A i \in 1..Len(rows) : q[i] \in Shown /\ q[i].line = rows[i] /\ q[i].live = FALSE
  BY <1>1 DEF AsRows, Shown
<1>3. q \in Seq(Shown) /\ Len(q) = Len(rows)
  <2>1. q = [k \in 1..Len(rows) |-> q[k]]
    BY <1>2 DEF AsRows
  <2> QED
    BY <1>1, <1>2, <2>1
<1> HIDE DEF q
<1>4. LivesOf(q) = {} /\ PagesOf(q) = Elements(rows)
  BY <1>1, <1>2 DEF LivesOf, PagesOf, Elements
<1>5. OnceEach(rows) => Distinct(q)
  BY <1>1, <1>2 DEF OnceEach, Distinct
<1> QED
  BY <1>3, <1>4, <1>5 DEF q

\* A page below a list.
LEMMA PageBelow ==
    ASSUME NEW l \in Seq(Shown), NEW rows \in Seq(LineNo)
    PROVE  LET q == l \o AsRows(rows)
           IN /\ q \in Seq(Shown) /\ Len(q) = Len(l) + Len(rows)
              /\ LivesOf(q) = LivesOf(l) /\ PagesOf(q) = PagesOf(l) \cup Elements(rows)
              /\ Distinct(l) /\ OnceEach(rows) /\ Elements(rows) \cap (LivesOf(l) \cup PagesOf(l)) = {}
                   => Distinct(q)
<1> DEFINE p == AsRows(rows)
           q == l \o p
           n == Len(l)
           k == Len(rows)
<1>1. p \in Seq(Shown) /\ Len(p) = k
  BY PageAlone
<1>2. DOMAIN rows = 1..k /\ k \in Nat /\ \A i \in 1..k : p[i].line = rows[i] /\ p[i].live = FALSE
  BY DEF AsRows
<1>3. /\ DOMAIN l = 1..n /\ n \in Nat
      /\ \A i \in DOMAIN l : l[i].line \in LivesOf(l) \cup PagesOf(l)
  BY ListIs
<1> HIDE DEF p
<1>4. /\ q \in Seq(Shown) /\ Len(q) = n + k /\ DOMAIN q = 1..(n + k)
      /\ \A i \in 1..n : q[i] = l[i]
      /\ \A i \in 1..k : q[n + i] = p[i]
  <2>0. /\ l \o p \in Seq(Shown) /\ Len(l \o p) = Len(l) + Len(p)
        /\ \A i \in 1..(Len(l) + Len(p)) : (l \o p)[i] = IF i <= Len(l) THEN l[i] ELSE p[i - Len(l)]
    BY <1>1, ConcatProperties
  <2>1. /\ q \in Seq(Shown) /\ Len(q) = n + k
        /\ \A i \in 1..(n + k) : q[i] = IF i <= n THEN l[i] ELSE p[i - n]
    BY <1>1, <2>0
  <2>2. DOMAIN q = 1..(n + k)
    BY <2>1
  <2> HIDE DEF q, n, k
  <2>3. \A i \in 1..n : i \in 1..(n + k) /\ i <= n
    BY <1>2, <1>3
  <2>5. \A i \in 1..n : q[i] = l[i]
    BY <2>1, <2>3
  <2>6. ASSUME NEW i \in 1..k PROVE q[n + i] = p[i]
    <3> DEFINE j == n + i
    <3>1. j \in 1..(n + k) /\ ~(j <= n) /\ j - n = i
      BY <1>2, <1>3
    <3> HIDE DEF j
    <3>2. q[j] = p[j - n]
      BY <2>1, <3>1
    <3> QED
      BY <3>1, <3>2 DEF j
  <2> QED
    BY <2>1, <2>2, <2>5, <2>6
<1>5. \A i \in 1..(n + k) : i \in 1..n \/ \E j \in 1..k : i = n + j
  <2> TAKE i \in 1..(n + k)
  <2>1. i \in 1..n \/ (i - n \in 1..k /\ i = n + (i - n))
    BY <1>2, <1>3
  <2> QED
    BY <2>1
<1>6. (\A i \in 1..n : i \in 1..(n + k)) /\ (\A j \in 1..k : n + j \in 1..(n + k))
  BY <1>2, <1>3
<1> HIDE DEF q, n, k
<1>7. ASSUME NEW x PROVE x \in LivesOf(q) <=> x \in LivesOf(l)
  <2>1. x \in LivesOf(q) <=> HasRow(q, x, TRUE)
    BY <1>4, MembersAre
  <2>2. x \in LivesOf(l) <=> HasRow(l, x, TRUE)
    BY MembersAre
  <2>3. ASSUME NEW i \in 1..(n + k), q[i].live = TRUE PROVE i \in 1..n /\ q[i] = l[i]
    BY <1>2, <1>4, <1>5, <2>3
  <2> QED
    BY <1>4, <1>6, <2>1, <2>2, <2>3 DEF HasRow, n
<1>8. ASSUME NEW x PROVE x \in PagesOf(q) <=> x \in PagesOf(l) \/ x \in Elements(rows)
  <2>1. x \in PagesOf(q) <=> HasRow(q, x, FALSE)
    BY <1>4, MembersAre
  <2>2. x \in PagesOf(l) <=> HasRow(l, x, FALSE)
    BY MembersAre
  <2>3. x \in Elements(rows) <=> \E i \in 1..k : rows[i] = x
    BY <1>2 DEF Elements
  <2>4. ASSUME NEW i \in 1..(n + k), q[i].live = FALSE, q[i].line = x
        PROVE  x \in PagesOf(l) \/ x \in Elements(rows)
    <3>1. CASE i \in 1..n
      BY <1>4, <2>2, <2>4, <3>1 DEF HasRow, n
    <3>2. CASE i \notin 1..n
      <4>1. PICK j \in 1..k : i = n + j
        BY <1>5, <3>2
      <4> QED
        BY <1>2, <1>4, <2>3, <2>4, <4>1
    <3> QED
      BY <3>1, <3>2
  <2>5. x \in PagesOf(l) => x \in PagesOf(q)
    BY <1>4, <1>6, <2>1, <2>2 DEF HasRow, n
  <2>6. ASSUME NEW i \in 1..k, rows[i] = x PROVE x \in PagesOf(q)
    <3>1. n + i \in 1..(n + k) /\ q[n + i].live = FALSE /\ q[n + i].line = x
      BY <1>2, <1>4, <1>6, <2>6
    <3> QED
      BY <1>4, <2>1, <3>1 DEF HasRow
  <2> QED
    BY <1>4, <2>1, <2>3, <2>4, <2>5, <2>6 DEF HasRow
<1>a. LivesOf(q) = LivesOf(l) /\ PagesOf(q) = PagesOf(l) \cup Elements(rows)
  BY <1>7, <1>8
<1>9. ASSUME Distinct(l), OnceEach(rows), Elements(rows) \cap (LivesOf(l) \cup PagesOf(l)) = {}
      PROVE  Distinct(q)
  <2>1. \A i \in 1..n, j \in 1..k : l[i].line # rows[j]
    BY <1>2, <1>3, <1>9 DEF Elements
  <2>2. SUFFICES ASSUME NEW i \in 1..(n + k), NEW j \in 1..(n + k), q[i].line = q[j].line PROVE i = j
    BY <1>4 DEF Distinct
  <2>3. CASE i \in 1..n /\ j \in 1..n
    BY <1>3, <1>4, <1>9, <2>2, <2>3 DEF Distinct
  <2>4. CASE i \notin 1..n /\ j \notin 1..n
    <3>1. PICK a \in 1..k : i = n + a
      BY <1>5, <2>4
    <3>2. PICK b \in 1..k : j = n + b
      BY <1>5, <2>4
    <3>3. rows[a] = rows[b]
      BY <1>2, <1>4, <2>2, <3>1, <3>2
    <3>4. a = b
      BY <1>2, <1>9, <3>3 DEF OnceEach
    <3> QED
      BY <3>1, <3>2, <3>4
  <2>5. CASE i \in 1..n /\ j \notin 1..n
    <3>1. PICK b \in 1..k : j = n + b
      BY <1>5, <2>5
    <3> QED
      BY <1>2, <1>4, <2>1, <2>2, <2>5, <3>1
  <2>6. CASE i \notin 1..n /\ j \in 1..n
    <3>1. PICK a \in 1..k : i = n + a
      BY <1>5, <2>6
    <3> QED
      BY <1>2, <1>4, <2>1, <2>2, <2>6, <3>1
  <2> QED
    BY <2>3, <2>4, <2>5, <2>6
<1> QED
  BY <1>4, <1>a, <1>9 DEF q, p, n, k

\* Lines shown once each are as many as the list is long.
LEMMA ListCount ==
    ASSUME NEW l \in Seq(Shown), Distinct(l)
    PROVE  /\ IsFiniteSet(LivesOf(l)) /\ IsFiniteSet(PagesOf(l))
           /\ LivesOf(l) \cap PagesOf(l) = {}
           /\ Len(l) = Cardinality(PagesOf(l)) + Cardinality(LivesOf(l))
<1> DEFINE both == LivesOf(l) \cup PagesOf(l)
           n == Len(l)
           f == [i \in 1..n |-> l[i].line]
<1>1. DOMAIN l = 1..n /\ n \in Nat /\ \A i \in DOMAIN l : l[i].line \in both
  BY ListIs
<1>2. LivesOf(l) \cap PagesOf(l) = {}
  BY DEF LivesOf, PagesOf, Distinct
<1>3. \A x \in both : \E i \in 1..n : l[i].line = x
  BY <1>1 DEF LivesOf, PagesOf
<1>4. IsFiniteSet(1..n) /\ Cardinality(1..n) = n
  <2>1. 1 \in Int /\ n \in Int /\ (1 > n => n = 0) /\ n - 1 + 1 = n
    BY <1>1
  <2>2. IsFiniteSet(1..n) /\ Cardinality(1..n) = IF 1 > n THEN 0 ELSE n - 1 + 1
    BY <2>1, FS_Interval
  <2> QED
    BY <2>1, <2>2
<1>5. \A i, j \in 1..n : l[i].line = l[j].line => i = j
  BY <1>1 DEF Distinct
<1> HIDE DEF both, n
<1>6. f \in Bijection(1..n, both)
  BY <1>1, <1>3, <1>5 DEF Bijection, Injection, Surjection, IsInjective
<1>7. ExistsBijection(1..n, both)
  BY <1>6 DEF ExistsBijection
<1>8. IsFiniteSet(both) /\ Cardinality(both) = n
  BY <1>4, <1>7, FS_Bijection
<1>9. LivesOf(l) \in SUBSET both /\ PagesOf(l) \in SUBSET both
  BY DEF both
<1>10. IsFiniteSet(LivesOf(l)) /\ IsFiniteSet(PagesOf(l))
  BY <1>8, <1>9, FS_Subset
<1>11. Cardinality(both) = Cardinality(LivesOf(l)) + Cardinality(PagesOf(l)) - Cardinality(LivesOf(l) \cap PagesOf(l))
  BY <1>10, FS_Union DEF both
<1>12. Cardinality(LivesOf(l) \cap PagesOf(l)) = 0
  BY <1>2, FS_EmptySet
<1>13. Cardinality(LivesOf(l)) \in Nat /\ Cardinality(PagesOf(l)) \in Nat
  BY <1>10, FS_CardinalityType
<1> QED
  BY <1>2, <1>8, <1>10, <1>11, <1>12, <1>13 DEF n
-----------------------------------------------------------------------------
\* The constants are numbers.
LEMMA NumbersOf ==
    /\ PageSize \in Nat /\ PageSize >= 1 /\ MaxLines \in Nat /\ MaxShown \in Nat /\ MaxPages \in Nat
    /\ MaxPages >= 1 /\ Earlier \in 0..MaxLines
    /\ Matching \subseteq LineNo
  BY PageAssumption DEF PageAssumption, LineNo

\* What passes is a set of lines.
LEMMA PassingIs == \A by : Passing(by) \subseteq LineNo
  BY NumbersOf DEF Passing, LineNo

\* A sequence over a set is one over a larger set.
LEMMA Widened ==
    ASSUME NEW S, NEW T, S \subseteq T, NEW s \in Seq(S)
    PROVE  /\ s \in Seq(T)
           /\ DOMAIN s = 1..Len(s) /\ Len(s) \in Nat /\ \A i \in DOMAIN s : s[i] \in S
<1>1. DOMAIN s = 1..Len(s) /\ Len(s) \in Nat /\ \A i \in 1..Len(s) : s[i] \in S /\ s[i] \in T
  BY LenProperties, ElementOfSeq
<1>2. s = [i \in 1..Len(s) |-> s[i]]
  BY LenProperties
<1>3. [i \in 1..Len(s) |-> s[i]] \in Seq(T)
  BY <1>1
<1> QED
  BY <1>1, <1>2, <1>3

\* The requests by number, and how many are over.
LEMMA RequestsAre ==
    ASSUME NEW rs \in Seq(Enquiries)
    PROVE  /\ DOMAIN rs = 1..Len(rs) /\ Len(rs) \in Nat
           /\ \A i \in DOMAIN rs : rs[i] \in Enquiries
           /\ IsFiniteSet(Overs(rs)) /\ Cardinality(Overs(rs)) \in Nat /\ Cardinality(Overs(rs)) <= Len(rs)
<1>1. DOMAIN rs = 1..Len(rs) /\ Len(rs) \in Nat /\ \A i \in DOMAIN rs : rs[i] \in Enquiries
  OBVIOUS
<1> DEFINE n == Len(rs)
<1>2. IsFiniteSet(1..n) /\ Cardinality(1..n) = n
  <2>1. 1 \in Int /\ n \in Int /\ (1 > n => n = 0) /\ n - 1 + 1 = n
    BY <1>1
  <2>2. IsFiniteSet(1..n) /\ Cardinality(1..n) = IF 1 > n THEN 0 ELSE n - 1 + 1
    BY <2>1, FS_Interval
  <2> QED
    BY <2>1, <2>2
<1>3. Overs(rs) \in SUBSET (1..n)
  BY <1>1 DEF Overs
<1>4. IsFiniteSet(Overs(rs)) /\ Cardinality(Overs(rs)) <= n
  BY <1>2, <1>3, FS_Subset
<1>5. Cardinality(Overs(rs)) \in Nat
  BY <1>4, FS_CardinalityType
<1> QED
  BY <1>1, <1>4, <1>5

\* What has ended stays ended.
LEMMA OversGrow ==
    ASSUME NEW rs \in Seq(Enquiries), NEW ns \in Seq(Enquiries), Overs(rs) \subseteq Overs(ns)
    PROVE  /\ Cardinality(Overs(rs)) <= Cardinality(Overs(ns))
           /\ Overs(rs) # Overs(ns) => Cardinality(Overs(rs)) + 1 <= Cardinality(Overs(ns))
<1>1. IsFiniteSet(Overs(ns)) /\ Cardinality(Overs(ns)) \in Nat /\ Cardinality(Overs(rs)) \in Nat
  BY RequestsAre
<1>2. /\ Cardinality(Overs(rs)) <= Cardinality(Overs(ns))
      /\ Cardinality(Overs(ns)) = Cardinality(Overs(rs)) => Overs(ns) = Overs(rs)
  BY <1>1, FS_Subset
<1> QED
  BY <1>1, <1>2

\* A request is added to those there are.
LEMMA Added ==
    ASSUME NEW rs \in Seq(Enquiries), NEW e \in Enquiries, e.stage # "over"
    PROVE  LET ns == Append(rs, e)
               n == Len(rs) + 1
           IN /\ ns \in Seq(Enquiries) /\ Len(ns) = n /\ DOMAIN ns = 1..n /\ ns[n] = e
              /\ DOMAIN rs = 1..Len(rs) /\ Len(rs) \in Nat
              /\ \A i \in DOMAIN rs : ns[i] = rs[i] /\ n > i /\ i \in 1..n
              /\ \A i \in 1..n : i \in DOMAIN rs \/ i = n
              /\ n \notin DOMAIN rs /\ n \in 1..n
              /\ Overs(ns) = Overs(rs)
<1> DEFINE ns == Append(rs, e)
           n == Len(rs) + 1
<1>1. /\ ns \in Seq(Enquiries) /\ Len(ns) = n /\ DOMAIN ns = 1..n /\ ns[n] = e
      /\ DOMAIN rs = 1..Len(rs) /\ Len(rs) \in Nat
      /\ \A i \in 1..Len(rs) : ns[i] = rs[i]
  OBVIOUS
<1>2. \A i \in 1..Len(rs) : n > i /\ i \in 1..n
  BY <1>1
<1>3. (\A i \in 1..n : i \in 1..Len(rs) \/ i = n) /\ n \notin 1..Len(rs) /\ n \in 1..n
  BY <1>1
<1> HIDE DEF ns, n
<1>4. Overs(ns) = Overs(rs)
  BY <1>1, <1>2, <1>3 DEF Overs
<1> QED
  BY <1>1, <1>2, <1>3, <1>4 DEF ns, n

\* A request goes on to its next stage.
LEMMA Replaced ==
    ASSUME NEW rs \in Seq(Enquiries), NEW i \in DOMAIN rs, NEW e \in Enquiries, rs[i].stage # "over"
    PROVE  LET ns == [rs EXCEPT ![i] = e]
           IN /\ ns \in Seq(Enquiries) /\ Len(ns) = Len(rs) /\ DOMAIN ns = DOMAIN rs
              /\ ns[i] = e /\ \A k \in DOMAIN rs : k # i => ns[k] = rs[k]
              /\ Overs(rs) \subseteq Overs(ns)
              /\ e.stage = "over" => Overs(rs) # Overs(ns)
<1> DEFINE ns == [rs EXCEPT ![i] = e]
<1>1. /\ ns \in Seq(Enquiries) /\ Len(ns) = Len(rs) /\ DOMAIN ns = DOMAIN rs
      /\ ns[i] = e /\ \A k \in DOMAIN rs : k # i => ns[k] = rs[k]
  OBVIOUS
<1> HIDE DEF ns
<1>2. Overs(rs) \subseteq Overs(ns) /\ i \notin Overs(rs) /\ (e.stage = "over" => i \in Overs(ns))
  BY <1>1 DEF Overs
<1> QED
  BY <1>1, <1>2 DEF ns

\* Spoiling marks the pending requests for older rows and changes nothing else.
LEMMA Spoiled ==
    ASSUME NEW rs \in Seq(Enquiries)
    PROVE  /\ Spoil(rs) \in Seq(Enquiries) /\ Len(Spoil(rs)) = Len(rs) /\ DOMAIN Spoil(rs) = DOMAIN rs
           /\ Overs(Spoil(rs)) = Overs(rs)
           /\ \A k \in DOMAIN rs :
                /\ Spoil(rs)[k].kind = rs[k].kind /\ Spoil(rs)[k].stage = rs[k].stage
                /\ Spoil(rs)[k].by = rs[k].by /\ Spoil(rs)[k].rows = rs[k].rows
                /\ Spoil(rs)[k].stored = rs[k].stored /\ Spoil(rs)[k].at = rs[k].at
                /\ rs[k].kind = "older" /\ rs[k].stage # "over" => Spoil(rs)[k].spoilt
<1> DEFINE ns == Spoil(rs)
<1>1. DOMAIN rs = 1..Len(rs) /\ Len(rs) \in Nat /\ \A k \in DOMAIN rs : rs[k] \in Enquiries
  OBVIOUS
<1>2. ASSUME NEW k \in DOMAIN rs
      PROVE  /\ ns[k] \in Enquiries
             /\ ns[k].kind = rs[k].kind /\ ns[k].stage = rs[k].stage
             /\ ns[k].by = rs[k].by /\ ns[k].rows = rs[k].rows
             /\ ns[k].stored = rs[k].stored /\ ns[k].at = rs[k].at
             /\ rs[k].kind = "older" /\ rs[k].stage # "over" => ns[k].spoilt
  <2>1. CASE rs[k].kind = "older" /\ rs[k].stage # "over"
    <3>1. ns[k] = [rs[k] EXCEPT !.spoilt = TRUE]
      BY <2>1 DEF Spoil
    <3> QED
      BY <1>1, <3>1 DEF Enquiries
  <2>2. CASE ~(rs[k].kind = "older" /\ rs[k].stage # "over")
    <3>1. ns[k] = rs[k]
      BY <2>2 DEF Spoil
    <3> QED
      BY <1>1, <2>2, <3>1
  <2> QED
    BY <2>1, <2>2
<1>3. ns \in Seq(Enquiries) /\ Len(ns) = Len(rs) /\ DOMAIN ns = DOMAIN rs
  <2>1. ns = [k \in 1..Len(rs) |-> ns[k]]
    BY <1>1 DEF Spoil
  <2>2. \A k \in 1..Len(rs) : ns[k] \in Enquiries
    BY <1>1, <1>2
  <2> HIDE DEF ns
  <2> QED
    BY <1>1, <2>1, <2>2
<1>4. Overs(ns) = Overs(rs)
  BY <1>2, <1>3 DEF Overs
<1> QED
  BY <1>2, <1>3, <1>4

\* A larger number of pages makes no smaller a bound.
LEMMA Times ==
    ASSUME NEW a \in Nat, NEW b \in Nat
    PROVE  /\ a <= b => PageSize * a <= PageSize * b
           /\ a + 1 <= b => PageSize * a + PageSize <= PageSize * b
           /\ PageSize * a \in Nat
<1>1. PageSize \in Nat
  BY NumbersOf
<1>2. ASSUME NEW c \in Nat, NEW d \in Nat PROVE PageSize * c \in Nat /\ PageSize * (c + d) = PageSize * c + PageSize * d
  BY <1>1
<1>3. ASSUME a <= b PROVE PageSize * a <= PageSize * b
  <2>1. b - a \in Nat /\ b = a + (b - a)
    BY <1>3
  <2>2. PageSize * (a + (b - a)) = PageSize * a + PageSize * (b - a) /\ PageSize * (b - a) \in Nat /\ PageSize * a \in Nat
    BY <1>2, <2>1
  <2> HIDE DEF PageInv
  <2> QED
    BY <2>1, <2>2
<1>4. ASSUME a + 1 <= b PROVE PageSize * a + PageSize <= PageSize * b
  <2>1. b - (a + 1) \in Nat /\ b = a + 1 + (b - (a + 1)) /\ a + 1 \in Nat
    BY <1>4
  <2>2. PageSize * (a + 1 + (b - (a + 1))) = PageSize * (a + 1) + PageSize * (b - (a + 1)) /\ PageSize * (b - (a + 1)) \in Nat
    BY <1>2, <2>1
  <2>3. PageSize * (a + 1) = PageSize * a + PageSize * 1 /\ PageSize * 1 = PageSize /\ PageSize * a \in Nat
    BY <1>1, <1>2
  <2> QED
    BY <1>1, <2>1, <2>2, <2>3
<1> QED
  BY <1>2, <1>3, <1>4

\* The invariant of the page: it holds at first, ...
LEMMA PageInitInv == PageInit => PageInv
<1> SUFFICES ASSUME PageInit PROVE PageInv
  OBVIOUS
<1> DEFINE e == Enquiry("load", "none", 0, 0)
<1> USE DEF PageInit
<1>1. e \in Enquiries /\ e.kind = "load" /\ e.by = "none" /\ e.at = 0 /\ e.stage = "asked" /\ e.rows = <<>> /\ e.stored = {}
  BY DEF Enquiry, Enquiries
<1> HIDE DEF e
<1>2. requests \in Seq(Enquiries) /\ Len(requests) = 1 /\ DOMAIN requests = {1} /\ requests[1] = e
  BY <1>1 DEF e
<1>3. logs \in Seq(Shown) /\ Len(logs) = 0 /\ DOMAIN logs = {} /\ LiveLines = {}
  BY DEF LiveLines
<1>4. PageTyped
  <2>1. emitted \in 0..MaxLines /\ storedRows \subseteq 1..emitted /\ Len(requests) <= MaxPages
    BY <1>2, NumbersOf
  <2>2. \A i \in DOMAIN requests :
         /\ requests[i].stored \subseteq storedRows /\ Len(requests[i].rows) <= PageSize
         /\ requests[i].kind # "older" /\ requests[i].stage = "asked" => requests[i].at = 0
    BY <1>1, <1>2, NumbersOf
  <2> QED
    BY <1>2, <1>3, <2>1, <2>2 DEF PageTyped
<1>5. LengthBounded
  <2>1. Cardinality(Overs(requests)) \in Nat
    BY <1>2, RequestsAre
  <2>2. PageSize * Cardinality(Overs(requests)) \in Nat
    BY <2>1, Times
  <2> QED
    BY <1>3, <2>2, NumbersOf DEF LengthBounded
<1>6. FeedInOrder
  BY <1>3 DEF FeedInOrder
<1>7. OneOlder
  BY <1>1, <1>2 DEF OneOlder
<1>8. LatestFits
  BY <1>1, <1>2 DEF LatestFits, ListFits
<1>9. SettledSound
  BY <1>1, <1>2 DEF SettledSound, Settled, IsPending
<1> QED
  BY <1>4, <1>5, <1>6, <1>7, <1>8, <1>9 DEF PageInv

\* The rows shown, as operators of the list.
LEMMA ShownIs == PageRows = PagesOf(logs) /\ LiveLines = LivesOf(logs)
  BY DEF PageRows, LiveLines, PagesOf, LivesOf

\* The server inserts and publishes, the socket opens or is lost.
LEMMA OutsideStep ==
    ASSUME PageInv, Publish \/ Subscribed \/ SocketLost \/ \E line \in 1..MaxLines : InsertRow(line)
    PROVE  PageInv'
<1>1. UNCHANGED <<narrowed, logs, total, oldestLoaded, loadingOlder, requests, failed, storedThen, outOfTurn>>
  BY DEF Publish, Subscribed, SocketLost, InsertRow
<1>2. PageTyped /\ FeedInOrder
  BY DEF PageInv
<1>3. /\ emitted' \in 0..MaxLines /\ emitted <= emitted' /\ storedRows \subseteq storedRows' /\ storedRows' \subseteq 1..emitted'
      /\ emitted \in Nat
  <2>1. emitted \in 0..MaxLines /\ storedRows \subseteq 1..emitted /\ MaxLines \in Nat
    BY <1>2, NumbersOf DEF PageTyped
  <2>2. CASE Publish
    <3>1. emitted' = emitted + 1 /\ emitted < MaxLines /\ storedRows' = storedRows
      BY <2>2 DEF Publish
    <3> QED
      BY <2>1, <3>1
  <2>3. CASE \E line \in 1..MaxLines : InsertRow(line)
    <3>1. emitted' = emitted /\ \E line \in (1..emitted) \ storedRows : storedRows' = storedRows \cup {line}
      BY <2>3 DEF InsertRow
    <3> QED
      BY <2>1, <3>1
  <2>4. CASE Subscribed \/ SocketLost
    <3>1. emitted' = emitted /\ storedRows' = storedRows
      BY <2>4 DEF Subscribed, SocketLost
    <3> QED
      BY <2>1, <3>1
  <2> QED
    BY <2>2, <2>3, <2>4
<1>4. PageTyped'
  BY <1>1, <1>2, <1>3 DEF PageTyped
<1>5. LengthBounded' /\ OneOlder' /\ LatestFits' /\ SettledSound'
  <2>1. LiveLines' = LiveLines /\ PageRows' = PageRows
    BY <1>1 DEF LiveLines, PageRows
  <2>2. LengthBounded'
    BY <1>1 DEF PageInv, LengthBounded, Overs
  <2>3. OneOlder'
    BY <1>1 DEF PageInv, OneOlder, IsPending
  <2>4. LatestFits'
    BY <1>1 DEF PageInv, LatestFits, ListFits, IsPending
  <2>5. ListSound => ListSound'
    BY <1>1, <2>1 DEF ListSound
  <2>6. \A i \in DOMAIN requests : OlderFits(requests[i]) => OlderFits(requests[i])'
    BY <1>1, <2>1 DEF OlderFits
  <2>7. SettledSound'
    BY <1>1, <2>5, <2>6 DEF PageInv, SettledSound, Settled, IsPending
  <2> QED
    BY <2>2, <2>3, <2>4, <2>7
<1>6. FeedInOrder'
  <2>1. /\ feed \in Seq(1..emitted) /\ \A i, j \in DOMAIN feed : i < j => feed[i] < feed[j]
        /\ \A i \in DOMAIN feed : \A n \in LiveLines : n < feed[i]
    BY <1>2 DEF FeedInOrder
  <2>2. LiveLines' = LiveLines
    BY <1>1 DEF LiveLines
  <2>3. DOMAIN feed = 1..Len(feed) /\ Len(feed) \in Nat /\ \A i \in DOMAIN feed : feed[i] \in 1..emitted
    BY <2>1, Widened
  <2>a. LiveLines \subseteq 1..emitted /\ LiveLines \subseteq 1..emitted'
    BY <1>2, <1>3 DEF FeedInOrder
  <2>4. CASE feed' = feed
    <3>1. feed \in Seq(1..emitted')
      <4>1. 1..emitted \subseteq 1..emitted'
        BY <1>3
      <4> QED
        BY <2>1, <4>1, Widened
    <3> QED
      BY <2>1, <2>2, <2>a, <2>4, <3>1 DEF FeedInOrder
  <2>5. CASE feed' = <<>>
    BY <2>2, <2>a, <2>5 DEF FeedInOrder
  <2>6. CASE feed' = Append(feed, emitted + 1) /\ emitted' = emitted + 1
    <3> DEFINE a == Append(feed, emitted + 1)
               k == Len(feed) + 1
    <3>1. DOMAIN a = 1..k /\ a[k] = emitted + 1 /\ Len(a) = k /\ \A i \in 1..Len(feed) : a[i] = feed[i]
      BY <1>3, <2>3, <2>1
    <3>2. \A i : i \in 1..k <=> i \in 1..Len(feed) \/ i = k
      BY <2>3
    <3>3. \A i \in 1..Len(feed) : i < k /\ ~(k < i) /\ feed[i] \in 1..(emitted + 1) /\ feed[i] < emitted + 1
      BY <1>3, <2>3
    <3>4. a \in Seq(1..(emitted + 1))
      <4>1. feed \in Seq(1..(emitted + 1))
        <5>1. 1..emitted \subseteq 1..(emitted + 1)
          BY <1>3
        <5> QED
          BY <2>1, <5>1, Widened
      <4>2. emitted + 1 \in 1..(emitted + 1)
        BY <1>3
      <4> QED
        BY <4>1, <4>2
    <3>5. \A n \in LiveLines : n < emitted + 1
      BY <1>3, <2>a
    <3> HIDE DEF a, k
    <3>6. \A i, j \in 1..k : i < j => a[i] < a[j]
      BY <2>1, <2>3, <3>1, <3>2, <3>3
    <3>7. \A i \in 1..k : \A n \in LiveLines : n < a[i]
      BY <2>1, <2>3, <3>1, <3>2, <3>5
    <3> QED
      BY <2>2, <2>a, <2>6, <3>1, <3>4, <3>6, <3>7 DEF FeedInOrder, a
  <2> QED
    BY <2>4, <2>5, <2>6 DEF Publish, Subscribed, SocketLost, InsertRow
<1> QED
  BY <1>4, <1>5, <1>6 DEF PageInv

\* A live line comes.
LEMMA MessageStep ==
    ASSUME PageInv, NEW paused \in BOOLEAN, OnWsMessage(paused)
    PROVE  PageInv'
<1> DEFINE n == Head(feed)
           e == [line |-> n, live |-> TRUE]
           longer == Append(logs, e)
           cut == IF Len(longer) > MaxShown THEN Len(longer) - MaxShown ELSE 0
<1>1. PageTyped /\ FeedInOrder /\ LengthBounded
  BY DEF PageInv
<1>2. /\ feed # <<>> /\ feed' = Tail(feed)
      /\ UNCHANGED <<emitted, storedRows, narrowed, oldestLoaded, loadingOlder, requests, failed, storedThen>>
      /\ \/ UNCHANGED <<logs, total, outOfTurn>>
         \/ /\ logs' = SubSeq(longer, 1 + cut, Len(longer)) /\ total' = total + 1
            /\ outOfTurn' = (outOfTurn \/ n \in storedThen \/ cut > 0)
  BY DEF OnWsMessage
<1>3. /\ feed \in Seq(1..emitted) /\ LiveLines \subseteq 1..emitted
      /\ \A i, j \in DOMAIN feed : i < j => feed[i] < feed[j]
      /\ \A i \in DOMAIN feed : \A m \in LiveLines : m < feed[i]
  BY <1>1 DEF FeedInOrder
<1>4. DOMAIN feed = 1..Len(feed) /\ Len(feed) \in Nat /\ (\A i \in DOMAIN feed : feed[i] \in 1..emitted) /\ Len(feed) # 0
  BY <1>2, <1>3, Widened, EmptySeq
<1>5. n = feed[1] /\ 1 \in DOMAIN feed
  BY <1>2, <1>3, <1>4
<1>6. emitted \in Nat /\ emitted <= MaxLines /\ n \in LineNo /\ n \in 1..emitted
  BY <1>1, <1>4, <1>5, NumbersOf DEF PageTyped, LineNo
<1>7. /\ feed' \in Seq(1..emitted) /\ Len(feed') = Len(feed) - 1 /\ DOMAIN feed' = 1..(Len(feed) - 1)
      /\ \A i \in 1..(Len(feed) - 1) : feed'[i] = feed[i + 1]
  BY <1>2, <1>3, <1>4
<1>8. \A i \in DOMAIN feed' : i \in Nat /\ i + 1 \in DOMAIN feed /\ 1 < i + 1 /\ feed'[i] = feed[i + 1]
  BY <1>4, <1>7
<1>9. \A i \in DOMAIN feed' : feed'[i] > n /\ feed'[i] \in Nat
  <2> TAKE i \in DOMAIN feed'
  <2>1. feed[1] < feed[i + 1]
    BY <1>3, <1>5, <1>8
  <2>2. feed[i + 1] \in Nat /\ n \in Nat
    BY <1>4, <1>6, <1>8
  <2> QED
    BY <1>5, <1>8, <2>1, <2>2
<1>10. \A i, j \in DOMAIN feed' : i < j => feed'[i] < feed'[j]
  <2> TAKE i, j \in DOMAIN feed'
  <2>1. i + 1 \in DOMAIN feed /\ j + 1 \in DOMAIN feed /\ (i < j => i + 1 < j + 1)
    BY <1>8
  <2> QED
    BY <1>3, <1>8, <2>1
<1>11. CASE UNCHANGED <<logs, total, outOfTurn>>
  <2>1. LiveLines' = LiveLines /\ PageRows' = PageRows
    BY <1>11 DEF LiveLines, PageRows
  <2>2. FeedInOrder'
    <3>1. \A i \in DOMAIN feed' : \A m \in LiveLines : m < feed'[i]
      BY <1>3, <1>8
    <3> QED
      BY <1>2, <1>3, <1>7, <1>10, <2>1, <3>1 DEF FeedInOrder
  <2>3. PageTyped'
    BY <1>1, <1>2, <1>11 DEF PageTyped
  <2>4. LengthBounded'
    BY <1>1, <1>2, <1>11 DEF LengthBounded, Overs
  <2>5. OneOlder'
    BY <1>2 DEF PageInv, OneOlder, IsPending
  <2>6. LatestFits'
    BY <1>2 DEF PageInv, LatestFits, ListFits, IsPending
  <2>7. ListSound => ListSound'
    BY <1>2, <1>11, <2>1 DEF ListSound
  <2>8. \A i \in DOMAIN requests : OlderFits(requests[i]) => OlderFits(requests[i])'
    BY <1>2, <2>1 DEF OlderFits
  <2>9. SettledSound'
    BY <1>2, <1>11, <2>7, <2>8 DEF PageInv, SettledSound, Settled, IsPending
  <2> QED
    BY <2>2, <2>3, <2>4, <2>5, <2>6, <2>9 DEF PageInv
<1>12. CASE /\ logs' = SubSeq(longer, 1 + cut, Len(longer)) /\ total' = total + 1
            /\ outOfTurn' = (outOfTurn \/ n \in storedThen \/ cut > 0)
  <2>1. logs \in Seq(Shown) /\ Len(logs) \in Nat /\ MaxShown \in Nat
    BY <1>1, NumbersOf, Widened DEF PageTyped
  <2>2. /\ longer \in Seq(Shown) /\ Len(longer) = Len(logs) + 1
        /\ LivesOf(longer) = LivesOf(logs) \cup {n} /\ PagesOf(longer) = PagesOf(logs)
        /\ Distinct(logs) /\ n \notin LivesOf(logs) \cup PagesOf(logs) => Distinct(longer)
    BY <1>6, <2>1, AppendLive
  <2>3. cut \in Nat /\ 1 + cut \in 1..(Len(longer) + 1) /\ Len(longer) \in Nat
        /\ (cut > 0 => Len(longer) - cut = MaxShown) /\ (cut = 0 => Len(longer) <= MaxShown)
    BY <2>1, <2>2
  <2> HIDE DEF longer, cut
  <2>4. /\ logs' \in Seq(Shown) /\ Len(logs') = Len(longer) - cut
        /\ \A i \in 1..Len(logs') : cut + i \in 1..Len(longer) /\ logs'[i] = longer[cut + i]
    <3>1. DOMAIN longer = 1..Len(longer) /\ \A i \in 1..Len(longer) : longer[i] \in Shown
      BY <2>2
    <3> DEFINE s == [i \in 1..(Len(longer) - cut) |-> longer[cut + i]]
    <3>2. \A i \in 1..(Len(longer) - cut) : cut + i \in 1..Len(longer) /\ i + (1 + cut) - 1 = cut + i
      BY <2>3
    <3>3. Len(longer) - cut \in Nat
      BY <2>3
    <3>4. s \in Seq(Shown) /\ Len(s) = Len(longer) - cut
      BY <3>1, <3>2, <3>3
    <3>5. SubSeq(longer, 1 + cut, Len(longer)) = s
      <4>1. Len(longer) + 1 - (1 + cut) = Len(longer) - cut
        BY <2>3
      <4>2. SubSeq(longer, 1 + cut, Len(longer)) = [i \in 1..(Len(longer) + 1 - (1 + cut)) |-> longer[i + (1 + cut) - 1]]
        BY <2>3
      <4> QED
        BY <3>2, <4>1, <4>2
    <3> QED
      BY <1>12, <3>2, <3>4, <3>5
  <2>5. cut = 0 => logs' = longer
    <3> SUFFICES ASSUME cut = 0 PROVE logs' = longer
      OBVIOUS
    <3>1. \A i \in 1..Len(longer) : cut + i = i
      BY <2>3
    <3>2. Len(logs') = Len(longer)
      BY <2>3, <2>4
    <3>3. \A i \in 1..Len(longer) : logs'[i] = longer[i]
      BY <2>4, <3>1, <3>2
    <3> QED
      BY <2>2, <2>4, <3>2, <3>3, SeqEqual
  <2>6. LiveLines' = LivesOf(logs') /\ PageRows' = PagesOf(logs') /\ LiveLines = LivesOf(logs) /\ PageRows = PagesOf(logs)
    BY DEF LiveLines, PageRows, LivesOf, PagesOf
  <2>7. LiveLines' \subseteq LiveLines \cup {n}
    <3> SUFFICES ASSUME NEW x \in LivesOf(logs') PROVE x \in LivesOf(longer)
      BY <2>2, <2>6
    <3>a. HasRow(logs', x, TRUE)
      BY <2>4, MembersAre
    <3>1. PICK i \in 1..Len(logs') : logs'[i].live = TRUE /\ logs'[i].line = x
      BY <3>a DEF HasRow
    <3>2. cut + i \in 1..Len(longer) /\ longer[cut + i] = logs'[i]
      BY <2>4
    <3>3. HasRow(longer, x, TRUE)
      BY <3>1, <3>2 DEF HasRow
    <3> QED
      BY <2>2, <3>3, MembersAre
  <2>8. PageTyped'
    BY <1>1, <1>2, <1>12, <2>4 DEF PageTyped
  <2>9. LengthBounded'
    <3>1. Cardinality(Overs(requests)) \in Nat
      BY <1>1, RequestsAre DEF PageTyped
    <3>2. PageSize * Cardinality(Overs(requests)) \in Nat
      BY <3>1, Times
    <3>3. Len(logs') <= MaxShown
      BY <2>1, <2>3, <2>4
    <3>4. Overs(requests)' = Overs(requests)
      BY <1>2 DEF Overs
    <3> QED
      BY <2>1, <2>3, <2>4, <3>2, <3>3, <3>4 DEF LengthBounded
  <2>10. FeedInOrder'
    <3>1. LiveLines' \subseteq 1..emitted
      BY <1>3, <1>6, <2>7
    <3>2. ASSUME NEW i \in DOMAIN feed', NEW m \in LiveLines' PROVE m < feed'[i]
      <4>1. m \in LiveLines \/ m = n
        BY <2>7
      <4> QED
        BY <1>3, <1>8, <1>9, <1>6, <4>1
    <3> QED
      BY <1>2, <1>7, <1>10, <3>1, <3>2 DEF FeedInOrder
  <2>11. OneOlder'
    BY <1>2 DEF PageInv, OneOlder, IsPending
  <2>12. LatestFits'
    BY <1>2 DEF PageInv, LatestFits, ListFits, IsPending
  <2>13. SettledSound'
    <3> SUFFICES ASSUME Settled'
                 PROVE  /\ ListSound'
                        /\ (\A i \in DOMAIN requests :
                             IsPending(i) /\ requests[i].kind = "older" /\ ~requests[i].spoilt =>
                                 OlderFits(requests[i]))'
      BY DEF SettledSound
    <3>1. Settled /\ n \notin storedThen /\ ~(cut > 0)
      BY <1>2, <1>12 DEF Settled, IsPending
    <3>2. cut = 0
      BY <2>3, <3>1
    <3>3. ListSound /\ \A i \in DOMAIN requests :
                    IsPending(i) /\ requests[i].kind = "older" /\ ~requests[i].spoilt => OlderFits(requests[i])
      BY <3>1 DEF PageInv, SettledSound
    <3>4. PageRows' = PageRows /\ LiveLines' = LiveLines \cup {n} /\ logs' = longer
      BY <2>2, <2>5, <2>6, <3>2
    <3>5. ListSound'
      <4>1. n \notin LiveLines
        BY <1>3, <1>5, <1>6
      <4>2. n \notin PageRows
        BY <3>1, <3>3 DEF ListSound, NewestOf
      <4>3. Distinct(longer)
        BY <2>2, <2>6, <3>3, <4>1, <4>2 DEF ListSound, Distinct
      <4> QED
        BY <1>2, <3>1, <3>3, <3>4, <4>3 DEF ListSound, Distinct
    <3>6. \A i \in DOMAIN requests : OlderFits(requests[i]) => OlderFits(requests[i])'
      BY <1>2, <3>4 DEF OlderFits
    <3> QED
      BY <1>2, <3>3, <3>5, <3>6 DEF IsPending
  <2> QED
    BY <2>8, <2>9, <2>10, <2>11, <2>12, <2>13 DEF PageInv
<1> QED
  BY <1>2, <1>11, <1>12

\* The page asks: for the list, for older rows, or for the rows since a time.
LEMMA AskedStep ==
    ASSUME PageInv, NEW e \in Enquiries, e.stage = "asked", e.rows = <<>>, e.stored = {},
           e.kind # "older" => e.at = 0,
           Len(requests) < MaxPages, requests' = Append(requests, e),
           UNCHANGED <<emitted, storedRows, logs, total, storedThen, outOfTurn>>,
           feed' \in {feed, <<>>}, oldestLoaded' \in BOOLEAN,
           narrowed' \in {"none", "search", "filter"}, e.by = narrowed',
           \/ e.kind = "load" /\ failed' = FALSE /\ loadingOlder' = loadingOlder
           \/ /\ e.kind = "older" /\ ~loadingOlder /\ loadingOlder' = TRUE
              /\ narrowed' = narrowed /\ failed' = failed
              /\ e.since = 0 /\ e.at = Len(logs) /\ e.live = LiveLines
           \/ e.kind = "jump" /\ loadingOlder' = loadingOlder /\ narrowed' = narrowed /\ failed' = failed
    PROVE  PageInv'
<1>1. PageTyped /\ FeedInOrder /\ LengthBounded /\ OneOlder /\ LatestFits /\ SettledSound
  BY DEF PageInv
<1>2. requests \in Seq(Enquiries)
  BY <1>1 DEF PageTyped
<1>a. PICK n \in Nat : n = Len(requests) + 1
  BY <1>2, RequestsAre
<1>3. /\ requests' \in Seq(Enquiries) /\ Len(requests') = n /\ DOMAIN requests' = 1..n /\ requests'[n] = e
      /\ DOMAIN requests = 1..Len(requests) /\ Len(requests) \in Nat
      /\ \A i \in DOMAIN requests : requests'[i] = requests[i] /\ n > i /\ i \in 1..n
      /\ \A i \in 1..n : i \in DOMAIN requests \/ i = n
      /\ n \notin DOMAIN requests /\ n \in 1..n
      /\ Overs(requests') = Overs(requests)
  BY <1>2, <1>a, Added
<1>4. n <= MaxPages
  BY <1>3, <1>a, NumbersOf
<1>5. LiveLines' = LiveLines /\ PageRows' = PageRows
  BY DEF LiveLines, PageRows
<1>6. PageTyped'
  <2>1. \A i \in 1..n :
         /\ requests'[i].stored \subseteq storedRows /\ Len(requests'[i].rows) <= PageSize
         /\ requests'[i].kind # "older" /\ requests'[i].stage = "asked" => requests'[i].at = 0
    <3>1. Len(e.rows) <= PageSize /\ e.stored \subseteq storedRows
      BY NumbersOf
    <3>2. ASSUME NEW i \in DOMAIN requests
          PROVE  /\ requests'[i].stored \subseteq storedRows /\ Len(requests'[i].rows) <= PageSize
                 /\ requests'[i].kind # "older" /\ requests'[i].stage = "asked"
                      => requests'[i].at = 0
      <4>1. requests'[i] = requests[i]
        BY <1>3
      <4> QED
        BY <1>1, <4>1 DEF PageTyped
    <3>3. /\ requests'[n].stored \subseteq storedRows /\ Len(requests'[n].rows) <= PageSize
          /\ requests'[n].kind # "older" => requests'[n].at = 0
      <4>1. requests'[n] = e
        BY <1>3
      <4> QED
        BY <3>1, <4>1
    <3>4. \A i \in 1..n : i \in DOMAIN requests \/ i = n
      BY <1>3
    <3> QED
      BY <3>2, <3>3, <3>4
  <2>2. failed' \in BOOLEAN /\ loadingOlder' \in BOOLEAN
    BY <1>1 DEF PageTyped
  <2> QED
    BY <1>1, <1>3, <1>4, <2>1, <2>2 DEF PageTyped
<1>7. LengthBounded'
  BY <1>1, <1>3 DEF LengthBounded
<1>8. FeedInOrder'
  <2>1. feed' = feed \/ feed' = <<>>
    OBVIOUS
  <2>2. CASE feed' = feed
    BY <1>1, <1>5, <2>2 DEF FeedInOrder
  <2>3. CASE feed' = <<>>
    BY <1>1, <1>5, <2>3 DEF FeedInOrder
  <2> QED
    BY <2>1, <2>2, <2>3
<1>9. OneOlder'
  <2>1. \A i \in DOMAIN requests : IsPending(i)' = IsPending(i) /\ requests'[i].kind = requests[i].kind
    BY <1>3 DEF IsPending
  <2>2. CASE e.kind # "older"
    BY <1>1, <1>3, <2>1, <2>2 DEF OneOlder
  <2>3. CASE e.kind = "older"
    <3>1. \A i \in DOMAIN requests : ~(requests[i].kind = "older" /\ IsPending(i))
      BY <1>1, <2>3 DEF OneOlder
    <3> QED
      BY <1>3, <2>1, <2>3, <3>1 DEF OneOlder
  <2> QED
    BY <2>2, <2>3
<1>10. LatestFits'
  <2> SUFFICES ASSUME NEW i \in 1..n, requests'[i].stage # "over", requests'[i].kind # "older"
               PROVE  ListFits(requests[i])' \/ \E k \in 1..n : k > i /\ requests'[k].kind = "load"
    BY <1>3 DEF LatestFits, IsPending
  <2>1. CASE i = n
    BY <1>3, <2>1 DEF ListFits
  <2>2. CASE i # n /\ e.kind = "load"
    BY <1>3, <2>2
  <2>3. CASE i # n /\ e.kind # "load"
    <3>1. i \in DOMAIN requests /\ requests'[i] = requests[i] /\ narrowed' = narrowed
      BY <1>3, <2>3
    <3>2. CASE ListFits(requests[i])
      BY <3>1, <3>2 DEF ListFits
    <3>3. CASE \E k \in DOMAIN requests : k > i /\ requests[k].kind = "load"
      BY <1>3, <3>1, <3>3
    <3> QED
      BY <1>1, <3>1, <3>2, <3>3 DEF LatestFits, IsPending
  <2> QED
    BY <2>1, <2>2, <2>3
<1>11. SettledSound'
  <2> SUFFICES ASSUME Settled'
               PROVE  /\ ListSound'
                      /\ (\A i \in DOMAIN requests :
                           IsPending(i) /\ requests[i].kind = "older" /\ ~requests[i].spoilt =>
                               OlderFits(requests[i]))'
    BY DEF SettledSound
  <2>1. e.kind # "load"
    BY <1>3 DEF Settled, IsPending
  <2>2. narrowed' = narrowed /\ failed' = failed
    BY <2>1
  <2>3. Settled
    BY <1>3, <2>2 DEF Settled, IsPending
  <2>4. ListSound /\ \A i \in DOMAIN requests :
                  IsPending(i) /\ requests[i].kind = "older" /\ ~requests[i].spoilt => OlderFits(requests[i])
    BY <1>1, <2>3 DEF SettledSound
  <2>5. ListSound'
    BY <1>5, <2>2, <2>4 DEF ListSound
  <2>6. ASSUME NEW i \in DOMAIN requests, OlderFits(requests[i]) PROVE OlderFits(requests[i])'
    BY <1>3, <1>5, <2>2, <2>6 DEF OlderFits
  <2>7. ASSUME e.kind = "older" PROVE OlderFits(requests[n])'
    <3>1. logs \in Seq(Shown) /\ Distinct(logs)
      BY <1>1, <2>4 DEF PageTyped, ListSound, Distinct
    <3>2. Len(logs) = Cardinality(PageRows) + Cardinality(LiveLines)
      BY <3>1, ListCount, ShownIs
    <3>3. e.live \cap storedThen = {} /\ e.at = Cardinality(PageRows) + Cardinality(e.live) /\ e.since = 0
      BY <2>4, <2>7, <3>2 DEF ListSound
    <3> QED
      BY <1>3, <1>5, <3>3 DEF OlderFits
  <2>8. ASSUME NEW i \in 1..n, requests'[i].stage # "over", requests'[i].kind = "older", ~requests'[i].spoilt
        PROVE  OlderFits(requests[i])'
    <3>1. CASE i = n
      BY <1>3, <2>7, <2>8, <3>1
    <3>2. CASE i # n
      <4>1. i \in DOMAIN requests /\ requests'[i] = requests[i]
        BY <1>3, <3>2
      <4>2. OlderFits(requests[i])
        BY <2>4, <2>8, <4>1 DEF IsPending
      <4> QED
        BY <2>6, <4>1, <4>2
    <3> QED
      BY <3>1, <3>2
  <2> QED
    BY <1>3, <2>5, <2>8 DEF IsPending
<1> QED
  BY <1>6, <1>7, <1>8, <1>9, <1>10, <1>11 DEF PageInv

\* The page asks.
LEMMA AsksStep ==
    ASSUME PageInv, Reload \/ LoadOlder \/ (\E by \in {"none", "search", "filter"} : ChangeSetting(by))
                        \/ (\E line \in 1..MaxLines : JumpToTime(line))
    PROVE  PageInv'
<1>1. PageTyped
  BY DEF PageInv
<1>2. /\ narrowed \in {"none", "search", "filter"} /\ oldestLoaded \in BOOLEAN /\ logs \in Seq(Shown)
      /\ Len(logs) \in Nat
  BY <1>1, Widened DEF PageTyped
<1>3. LiveLines \subseteq LineNo
  BY <1>2, ListIs, ShownIs
<1>4. ASSUME Reload PROVE PageInv'
  <2> DEFINE e == Enquiry("load", narrowed, 0, 0)
  <2>1. /\ e \in Enquiries /\ e.stage = "asked" /\ e.rows = <<>> /\ e.stored = {} /\ e.at = 0 /\ e.kind = "load"
        /\ e.by = narrowed
    BY <1>2 DEF Enquiry, Enquiries
  <2> HIDE DEF e
  <2>2. /\ Len(requests) < MaxPages /\ requests' = Append(requests, e) /\ failed' = FALSE
        /\ UNCHANGED <<emitted, storedRows, feed, narrowed, logs, total, oldestLoaded, loadingOlder, storedThen, outOfTurn>>
    BY <1>4 DEF Reload, Load, e
  <2> QED
    BY <1>2, <2>1, <2>2, AskedStep
<1>5. ASSUME NEW by \in {"none", "search", "filter"}, ChangeSetting(by) PROVE PageInv'
  <2> DEFINE e == Enquiry("load", by, 0, 0)
  <2>1. /\ e \in Enquiries /\ e.stage = "asked" /\ e.rows = <<>> /\ e.stored = {} /\ e.at = 0 /\ e.kind = "load"
        /\ e.by = by
    BY DEF Enquiry, Enquiries
  <2> HIDE DEF e
  <2>2. /\ Len(requests) < MaxPages /\ requests' = Append(requests, e) /\ failed' = FALSE
        /\ narrowed' = by /\ oldestLoaded' = FALSE /\ feed' = <<>>
        /\ UNCHANGED <<emitted, storedRows, logs, total, loadingOlder, storedThen, outOfTurn>>
    BY <1>5 DEF ChangeSetting, Load, e
  <2> QED
    BY <1>2, <2>1, <2>2, AskedStep
<1>6. ASSUME LoadOlder PROVE PageInv'
  <2> DEFINE e == Enquiry("older", narrowed, Len(logs), 0)
  <2>1. /\ e \in Enquiries /\ e.stage = "asked" /\ e.rows = <<>> /\ e.stored = {} /\ e.kind = "older"
        /\ e.by = narrowed /\ e.at = Len(logs) /\ e.since = 0 /\ e.live = LiveLines
    BY <1>2, <1>3 DEF Enquiry, Enquiries
  <2> HIDE DEF e
  <2>2. /\ Len(requests) < MaxPages /\ requests' = Append(requests, e) /\ ~loadingOlder /\ loadingOlder' = TRUE
        /\ UNCHANGED <<emitted, storedRows, feed, narrowed, logs, total, oldestLoaded, failed, storedThen, outOfTurn>>
    BY <1>6 DEF LoadOlder, AskOlder, e
  <2> QED
    BY <1>2, <2>1, <2>2, AskedStep
<1>7. ASSUME NEW line \in 1..MaxLines, JumpToTime(line) PROVE PageInv'
  <2> DEFINE e == Enquiry("jump", narrowed, 0, Time(line))
  <2>0. Time(line) \in Nat
    BY TimeIs DEF LineNo
  <2>1. /\ e \in Enquiries /\ e.stage = "asked" /\ e.rows = <<>> /\ e.stored = {} /\ e.at = 0 /\ e.kind = "jump"
        /\ e.by = narrowed
    BY <1>2, <2>0 DEF Enquiry, Enquiries
  <2> HIDE DEF e
  <2>2. /\ Len(requests) < MaxPages /\ requests' = Append(requests, e)
        /\ UNCHANGED <<emitted, storedRows, feed, narrowed, logs, total, oldestLoaded, loadingOlder, failed, storedThen, outOfTurn>>
    BY <1>7 DEF JumpToTime, e
  <2> QED
    BY <1>2, <2>1, <2>2, AskedStep
<1> QED
  BY <1>4, <1>5, <1>6, <1>7

-----------------------------------------------------------------------------
\* What the search of an answer finds.
LEMMA FoundIs ==
    ASSUME NEW F, F \subseteq LineNo
    PROVE  F \subseteq Nat /\ IsFiniteSet(F) /\ Cardinality(F) \in Nat
<1>1. 1 \in Int /\ MaxLines \in Int
  BY NumbersOf
<1>2. IsFiniteSet(1..MaxLines)
  BY <1>1, FS_Interval
<1>3. F \in SUBSET (1..MaxLines)
  BY DEF LineNo
<1>4. IsFiniteSet(F)
  BY <1>2, <1>3, FS_Subset
<1> QED
  BY <1>3, <1>4, FS_CardinalityType

\* What is on the page of a request.
OnPage(r, order) == PageIn(Found(r), r.at, order)

\* A part that misses nothing of a later time, as large as the offset, is what the
\* offset skips, unless it parts rows of one time.
LEMMA SkippedIs ==
    ASSUME NEW r, NEW order \in Orders, Found(r) \subseteq LineNo, IsFiniteSet(Found(r)), r.at \in Nat,
           ~PartsATime(r, order), NEW U, U \subseteq Found(r), Cardinality(U) = r.at,
           \A n \in Found(r), m \in U : Time(n) > Time(m) => n \in U
    PROVE  \A n \in Found(r) : n \in U <=> Before(Found(r), n, order) < r.at
<1> DEFINE found == Found(r)
           rank(n) == Before(found, n, order)
           top == {n \in found : rank(n) < r.at}
           place == [n \in top |-> rank(n)]
<1>1. /\ Cardinality(found) \in Nat
      /\ \A n \in found : rank(n) \in 0..(Cardinality(found) - 1)
      /\ \A m, n \in found : order[n] < order[m] => rank(m) < rank(n)
      /\ \A m, n \in found : rank(m) = rank(n) => m = n
      /\ \A k \in 0..(Cardinality(found) - 1) : \E n \in found : rank(n) = k
  BY RanksAre
<1>2. \A m, n \in found : Time(m) = Time(n) /\ rank(m) < r.at => ~(rank(n) >= r.at)
  BY DEF PartsATime
<1>3. r.at <= Cardinality(found) /\ IsFiniteSet(U) /\ IsFiniteSet(found)
  BY FS_Subset
<1> HIDE DEF found, rank
<1>4. top \in SUBSET found /\ IsFiniteSet(top)
  <2>1. top \in SUBSET found
    OBVIOUS
  <2> QED
    BY <1>3, <2>1, FS_Subset
<1>5. place \in Bijection(top, 0..(r.at - 1))
  <2>1. \A n \in top : n \in found /\ rank(n) \in 0..(r.at - 1)
    BY <1>1
  <2>2. \A k \in 0..(r.at - 1) : k \in 0..(Cardinality(found) - 1) /\ k < r.at
    BY <1>1, <1>3
  <2>3. \A k \in 0..(r.at - 1) : \E n \in top : rank(n) = k
    BY <1>1, <2>2
  <2> HIDE DEF top
  <2> QED
    BY <1>1, <2>1, <2>3 DEF Bijection, Injection, Surjection, IsInjective
<1>6. Cardinality(top) = r.at
  <2>1. IsFiniteSet(0..(r.at - 1)) /\ Cardinality(0..(r.at - 1)) = r.at
    <3>1. 0 \in Int /\ r.at - 1 \in Int /\ (0 > r.at - 1 => r.at = 0) /\ (r.at - 1) - 0 + 1 = r.at
      OBVIOUS
    <3>2. IsFiniteSet(0..(r.at - 1)) /\ Cardinality(0..(r.at - 1)) = IF 0 > r.at - 1 THEN 0 ELSE (r.at - 1) - 0 + 1
      BY <3>1, FS_Interval
    <3> QED
      BY <3>1, <3>2
  <2>2. ExistsBijection(top, 0..(r.at - 1))
    BY <1>5 DEF ExistsBijection
  <2> HIDE DEF top
  <2> QED
    BY <1>4, <2>1, <2>2, FS_Bijection
<1>7. U \subseteq top
  <2> SUFFICES ASSUME NEW n \in U, n \notin top PROVE FALSE
    OBVIOUS
  <2>1. n \in found /\ n \in LineNo /\ ~(rank(n) < r.at) /\ rank(n) \in Nat
    BY <1>1 DEF found
  <2>2. ASSUME NEW t \in top PROVE t \in U
    <3>1. t \in found /\ t \in LineNo /\ rank(t) < r.at /\ rank(t) \in Nat
      BY <1>1 DEF found
    <3>2. ~(order[t] < order[n]) /\ order[t] \in Nat /\ order[n] \in Nat
      <4>1. order[t] < order[n] => rank(n) < rank(t)
        BY <1>1, <2>1, <3>1
      <4> QED
        BY <2>1, <3>1, <4>1, OrderIs
    <3>3. ~(Time(t) < Time(n)) /\ Time(t) # Time(n)
      <4>1. ~(Time(t) < Time(n))
        BY <2>1, <3>1, <3>2, OrderIs
      <4>2. rank(n) >= r.at
        BY <2>1
      <4> QED
        BY <1>2, <2>1, <3>1, <4>1, <4>2
    <3>4. Time(t) > Time(n)
      BY <2>1, <3>1, <3>3, TimeIs
    <3> QED
      BY <3>1, <3>4 DEF found
  <2>3. top \subseteq U
    BY <2>2
  <2> HIDE DEF top
  <2>4. U = top
    BY <1>3, <1>6, <2>3, FS_Subset
  <2> QED
    BY <2>4
<1> HIDE DEF top
<1>8. U = top
  BY <1>4, <1>6, <1>7, FS_Subset
<1> QED
  BY <1>8 DEF top, rank, found

\* Older rows that the offset fits go on where the list ends.
LEMMA OlderGoOn ==
    ASSUME PageTyped, ListSound, NEW r, OlderFits(r), r.stage = "asked", OffsetFits(r),
           r.live \subseteq LineNo, r.at \in Nat, NEW order \in Orders, ~PartsATime(r, order)
    PROVE  /\ OnPage(r, order) \cap PageRows = {}
           /\ NewestOf(PageRows \cup OnPage(r, order), storedThen \cap Passing(narrowed))
<1> DEFINE found == Found(r)
           page == OnPage(r, order)
           rank(n) == Before(found, n, order)
           T == storedThen \cap Passing(narrowed)
           P == PageRows
           L == r.live
           U == L \cup P
<1>1. /\ r.by = narrowed /\ r.since = 0 /\ L \cap storedThen = {}
      /\ r.at = Cardinality(P) + Cardinality(L)
  BY DEF OlderFits
<1>2. L = (storedRows \ storedThen) \cap Passing(narrowed) /\ \A n \in L, m \in storedThen : Time(n) >= Time(m)
  BY <1>1 DEF OffsetFits
<1>3. P \subseteq T /\ \A n \in T, m \in P : Time(n) > Time(m) => n \in P
  BY DEF ListSound, NewestOf
<1>4. storedThen \subseteq storedRows /\ storedRows \subseteq LineNo
  <2>1. emitted \in 0..MaxLines /\ storedRows \subseteq 1..emitted /\ MaxLines \in Nat
    BY NumbersOf DEF PageTyped
  <2> QED
    BY <2>1 DEF PageTyped, LineNo
<1>5. \A n \in storedRows : Time(n) \in Nat
  BY <1>4, TimeIs
<1>6. found = L \cup T
  <2>1. found = {n \in storedRows \cap Passing(narrowed) : Time(n) >= 0}
    BY <1>1 DEF Found
  <2>2. \A n \in storedRows : Time(n) >= 0
    BY <1>5
  <2>3. found = storedRows \cap Passing(narrowed)
    BY <2>1, <2>2
  <2> QED
    BY <1>2, <1>4, <2>3
<1>7. found \subseteq LineNo /\ IsFiniteSet(found) /\ found \subseteq storedRows
  <2>1. found \subseteq LineNo /\ found \subseteq storedRows
    BY <1>4 DEF Found
  <2> QED
    BY <2>1, FoundIs
<1>a. \A n : n \in page <=> n \in found /\ rank(n) \in r.at..(r.at + PageSize - 1)
  BY DEF OnPage, PageIn
<1> HIDE DEF found, page
<1>8. /\ \A n \in found : rank(n) \in Nat
      /\ \A m, n \in found : order[n] < order[m] => rank(m) < rank(n)
  <2>1. /\ Cardinality(found) \in Nat
        /\ \A n \in found : rank(n) \in 0..(Cardinality(found) - 1)
        /\ \A m, n \in found : order[n] < order[m] => rank(m) < rank(n)
    BY <1>7, RanksAre
  <2> QED
    BY <2>1
<1>9. U \subseteq found /\ Cardinality(U) = r.at
  <2>1. L \subseteq LineNo /\ P \subseteq LineNo
    BY <1>3, <1>4
  <2>2. IsFiniteSet(L) /\ IsFiniteSet(P) /\ Cardinality(L) \in Nat /\ Cardinality(P) \in Nat
    BY <2>1, FoundIs
  <2>3. IsFiniteSet(L \cup P) /\ Cardinality(L \cup P) = Cardinality(L) + Cardinality(P) - Cardinality(L \cap P)
    BY <2>2, FS_Union
  <2>4. L \cap P = {} /\ Cardinality({}) = 0
    BY <1>1, <1>3, FS_EmptySet
  <2> QED
    <3>1. U \subseteq found
      BY <1>3, <1>6
    <3>2. Cardinality(L \cap P) = 0
      BY <2>4
    <3>3. Cardinality(L \cup P) = r.at
      BY <1>1, <2>2, <2>3, <3>2
    <3> QED
      BY <3>1, <3>3
<1> HIDE DEF T, P, L, U, rank
<1>10. ASSUME NEW n \in found, NEW m \in U, Time(n) > Time(m) PROVE n \in U
  <2>0. Time(n) \in Nat /\ Time(m) \in Nat
    BY <1>5, <1>7, <1>9
  <2>1. CASE n \in L
    BY <2>1 DEF U
  <2>2. CASE n \in T /\ m \in P
    BY <1>3, <1>10, <2>2 DEF U
  <2>3. CASE n \in T /\ m \in L
    <3>1. Time(m) >= Time(n)
      BY <1>2, <2>3 DEF T
    <3> QED
      BY <1>10, <2>0, <3>1
  <2> QED
    BY <1>6, <2>1, <2>2, <2>3 DEF U
<1>11. \A n \in found : n \in U <=> rank(n) < r.at
  BY <1>7, <1>9, <1>10, SkippedIs DEF found, rank
<1>12. PageSize \in Nat
  BY NumbersOf
<1>13. ASSUME NEW n \in page PROVE n \in T /\ n \notin P /\ rank(n) \in r.at..(r.at + PageSize - 1) /\ n \in found
  <2>1. n \in found /\ rank(n) \in r.at..(r.at + PageSize - 1)
    BY <1>a
  <2>2. n \notin U
    BY <1>8, <1>11, <2>1
  <2> QED
    BY <1>6, <2>1, <2>2 DEF U
<1>14. ASSUME NEW n \in T, NEW m \in P \cup page, Time(n) > Time(m) PROVE n \in P \cup page
  <2>1. CASE m \in P
    BY <1>3, <1>14, <2>1
  <2>2. CASE m \in page /\ n \notin P
    <3>1. n \in found /\ m \in found /\ n \in LineNo /\ m \in LineNo
      BY <1>6, <1>7, <1>13, <2>2
    <3>2. order[m] < order[n]
      <4>1. Time(m) < Time(n)
        BY <1>14, <3>1, TimeIs
      <4> QED
        BY <3>1, <4>1, OrderIs
    <3>3. rank(n) < rank(m) /\ rank(n) \in Nat /\ rank(m) \in Nat
      BY <1>8, <3>1, <3>2
    <3>4. ~(rank(n) < r.at)
      <4>1. n \notin U
        BY <1>1, <2>2 DEF U, T
      <4> QED
        BY <1>11, <3>1, <4>1
    <3>5. rank(m) <= r.at + PageSize - 1
      BY <1>12, <1>13, <2>2
    <3>6. rank(n) \in r.at..(r.at + PageSize - 1)
      BY <1>12, <3>3, <3>4, <3>5
    <3> QED
      BY <1>a, <3>1, <3>6
  <2> QED
    BY <2>1, <2>2
<1>15. P \cup page \subseteq T
  BY <1>3, <1>13
<1> QED
  BY <1>13, <1>14, <1>15 DEF NewestOf, T, P, page

\* The server answers.
LEMMA SearchStep ==
    ASSUME PageInv, NEW i \in DOMAIN requests, SearchLogs(i)
    PROVE  PageInv'
<1>0. PICK order \in Orders : requests' = [requests EXCEPT ![i] = Answer(@, order)]
  BY DEF SearchLogs
<1> DEFINE r == requests[i]
           e == Answer(r, order)
           found == Found(r)
           page == OnPage(r, order)
<1>1. PageTyped /\ FeedInOrder /\ LengthBounded /\ OneOlder /\ LatestFits /\ SettledSound
  BY DEF PageInv
<1>2. /\ r.stage = "asked" /\ requests' = [requests EXCEPT ![i] = e]
      /\ UNCHANGED <<emitted, storedRows, socket, feed, narrowed, logs, total, oldestLoaded,
                   loadingOlder, failed, storedThen, outOfTurn>>
  BY <1>0 DEF SearchLogs
<1>3. requests \in Seq(Enquiries) /\ r \in Enquiries
  BY <1>1, RequestsAre DEF PageTyped
<1>4. storedRows \subseteq LineNo /\ storedRows \subseteq Nat
  <2>1. emitted \in 0..MaxLines /\ storedRows \subseteq 1..emitted /\ MaxLines \in Nat
    BY <1>1, NumbersOf DEF PageTyped
  <2> QED
    BY <2>1 DEF LineNo
<1>5. r.at \in Nat /\ r.since \in Nat /\ r.live \subseteq LineNo
  BY <1>3 DEF Enquiries
<1>6. found \subseteq LineNo /\ Cardinality(found) \in Nat /\ found \subseteq Nat /\ IsFiniteSet(found)
  <2>1. found \subseteq LineNo
    BY <1>4 DEF Found
  <2> QED
    BY <2>1, FoundIs
<1>7. PageOf(r, order) \in Seq(LineNo) /\ OnceEach(PageOf(r, order)) /\ Elements(PageOf(r, order)) = page /\ Len(PageOf(r, order)) <= PageSize
  <2>1. PageOf(r, order) = Listed(found, r.at, order) /\ page = PageIn(found, r.at, order)
    BY DEF PageOf, Listed, PageIn, OnPage
  <2> HIDE DEF page, found, r
  <2> QED
    BY <1>5, <1>6, <2>1, PageIs
<1>a. /\ \A n : n \in found <=> n \in storedRows \cap Passing(r.by) /\ Time(n) >= r.since
      /\ \A n : n \in page <=> n \in found /\ Before(found, n, order) \in r.at..(r.at + PageSize - 1)
  BY DEF Found, OnPage, PageIn
<1>b. /\ \A n \in found : Before(found, n, order) \in Nat
      /\ \A m, n \in found : order[n] < order[m] => Before(found, m, order) < Before(found, n, order)
  <2>1. /\ Cardinality(found) \in Nat
        /\ \A n \in found : Before(found, n, order) \in 0..(Cardinality(found) - 1)
        /\ \A m, n \in found : order[n] < order[m] => Before(found, m, order) < Before(found, n, order)
    BY <1>6, RanksAre
  <2> QED
    BY <2>1
<1>8. /\ e \in Enquiries /\ e.stage = "answered" /\ e.kind = r.kind /\ e.rows = PageOf(r, order)
      /\ e.stored \subseteq storedRows /\ (r.kind # "older" => e.stored = storedRows)
      /\ (~e.spoilt => ~r.spoilt /\ (r.kind = "older" => OffsetFits(r) /\ ~PartsATime(r, order)))
  <2>1. e.count \in Nat
    BY <1>3, <1>6 DEF Answer, Enquiries
  <2>2. /\ e.stage = "answered" /\ e.kind = r.kind /\ e.rows = PageOf(r, order) /\ e.by = "none" /\ e.at = 0
        /\ e.since = 0 /\ e.live = {} /\ e.stored = (IF r.kind = "older" THEN {} ELSE storedRows)
        /\ e.spoilt = (r.spoilt \/ (r.kind = "older" /\ (~OffsetFits(r) \/ PartsATime(r, order))))
    BY <1>3 DEF Answer, Enquiries
  <2>3. r.spoilt \in BOOLEAN /\ r.kind \in {"load", "older", "jump"}
    BY <1>3 DEF Enquiries
  <2>4. e.spoilt \in BOOLEAN
    BY <2>2, <2>3
  <2>5. e \in Enquiries
    <3> DEFINE rows == PageOf(r, order)
               count == IF r.kind = "older" THEN 0 ELSE Cardinality(found)
               seen == IF r.kind = "older" THEN {} ELSE storedRows
               spoilt == r.spoilt \/ (r.kind = "older" /\ (~OffsetFits(r) \/ PartsATime(r, order)))
    <3>1. e = [r EXCEPT !.stage = "answered", !.rows = rows, !.by = "none", !.at = 0, !.since = 0, !.live = {},
                        !.count = count, !.stored = seen, !.spoilt = spoilt]
      BY DEF Answer
    <3>2. rows \in Seq(LineNo) /\ count \in Nat /\ seen \in SUBSET LineNo /\ spoilt \in BOOLEAN
      BY <1>4, <1>6, <1>7, <2>3
    <3> HIDE DEF e, rows, count, seen, spoilt, r
    <3> QED
      BY <1>3, <3>1, <3>2 DEF Enquiries
  <2> QED
    BY <2>2, <2>3, <2>5
<1> HIDE DEF e
<1>9. /\ requests' \in Seq(Enquiries) /\ Len(requests') = Len(requests) /\ DOMAIN requests' = DOMAIN requests
      /\ requests'[i] = e /\ \A k \in DOMAIN requests : k # i => requests'[k] = requests[k]
      /\ Overs(requests) \subseteq Overs(requests')
  BY <1>2, <1>3, <1>8, Replaced
<1>10. Cardinality(Overs(requests)) <= Cardinality(Overs(requests'))
  BY <1>3, <1>9, OversGrow
<1>11. LiveLines' = LiveLines /\ PageRows' = PageRows
  BY <1>2 DEF LiveLines, PageRows
<1>12. \A k \in DOMAIN requests : requests'[k].kind = requests[k].kind /\ IsPending(k)' = IsPending(k)
  BY <1>2, <1>8, <1>9 DEF IsPending
<1>13. PageTyped'
  <2>1. ASSUME NEW k \in DOMAIN requests
        PROVE  /\ requests'[k].stored \subseteq storedRows /\ Len(requests'[k].rows) <= PageSize
               /\ requests'[k].kind # "older" /\ requests'[k].stage = "asked" => requests'[k].at = 0
    BY <1>1, <1>7, <1>8, <1>9 DEF PageTyped
  <2> QED
    BY <1>1, <1>2, <1>9, <2>1 DEF PageTyped
<1>14. LengthBounded'
  <2>1. Cardinality(Overs(requests)) \in Nat /\ Cardinality(Overs(requests')) \in Nat
    BY <1>3, <1>9, RequestsAre
  <2>2. /\ PageSize * Cardinality(Overs(requests)) <= PageSize * Cardinality(Overs(requests'))
        /\ PageSize * Cardinality(Overs(requests)) \in Nat /\ PageSize * Cardinality(Overs(requests')) \in Nat
    BY <1>10, <2>1, Times
  <2>3. Len(logs) <= MaxShown + PageSize * Cardinality(Overs(requests)) /\ Len(logs) \in Nat
    BY <1>1, ListIs DEF LengthBounded, PageTyped
  <2>4. Len(logs') <= MaxShown + PageSize * Cardinality(Overs(requests'))
    BY <1>2, <2>2, <2>3, NumbersOf
  <2> QED
    BY <2>4 DEF LengthBounded
<1>15. FeedInOrder'
  BY <1>1, <1>2, <1>11 DEF FeedInOrder
<1>16. OneOlder'
  BY <1>1, <1>2, <1>9, <1>12 DEF OneOlder
<1>17. LatestFits'
  <2> SUFFICES ASSUME NEW k \in DOMAIN requests, IsPending(k), requests[k].kind # "older"
               PROVE  ListFits(requests[k])' \/ \E j \in DOMAIN requests : j > k /\ requests'[j].kind = "load"
    BY <1>9, <1>12 DEF LatestFits
  <2>1. CASE \E j \in DOMAIN requests : j > k /\ requests[j].kind = "load"
    BY <1>12, <2>1
  <2>2. CASE ListFits(requests[k]) /\ k # i
    BY <1>2, <1>9, <2>2 DEF ListFits
  <2>3. CASE ListFits(r) /\ k = i
    <3>1. r.by = narrowed /\ r.at = 0
      BY <1>1, <1>2, <2>3 DEF ListFits, PageTyped
    <3> HIDE DEF found, page
    <3>2. NewestOf(page, storedRows \cap Passing(narrowed))
      <4>1. page \subseteq storedRows \cap Passing(narrowed)
        BY <1>a, <3>1
      <4>2. ASSUME NEW n \in storedRows \cap Passing(narrowed), NEW m \in page, Time(n) > Time(m) PROVE n \in page
        <5>1. /\ m \in found /\ Time(m) >= r.since /\ m \in LineNo /\ n \in LineNo
              /\ Before(found, m, order) \in 0..(0 + PageSize - 1)
          BY <1>4, <1>a, <3>1
        <5>2. Time(n) >= r.since /\ order[m] < order[n]
          BY <1>5, <4>2, <5>1, TimeIs, OrderIs
        <5>3. n \in found
          BY <1>a, <3>1, <5>2
        <5>4. Before(found, n, order) < Before(found, m, order) /\ Before(found, n, order) \in Nat
          BY <1>b, <5>1, <5>2, <5>3
        <5>5. Before(found, n, order) \in 0..(0 + PageSize - 1)
          BY <5>1, <5>4, NumbersOf
        <5> QED
          BY <1>a, <3>1, <5>3, <5>5
      <4> QED
        BY <4>1, <4>2 DEF NewestOf
    <3>3. e.stored = storedRows
      BY <1>8, <2>3
    <3>4. OnceEach(e.rows) /\ NewestOf(Elements(e.rows), e.stored \cap Passing(narrowed))
      BY <1>7, <1>8, <3>2, <3>3
    <3>5. narrowed' = narrowed /\ requests'[k] = e
      BY <1>2, <1>9, <2>3
    <3>6. ListFits(requests[k])'
      <4>1. Passing(narrowed)' = Passing(narrowed)
        BY <3>5 DEF Passing
      <4> QED
        BY <1>8, <3>4, <3>5, <4>1 DEF ListFits
    <3> QED
      BY <3>6
  <2> QED
    BY <1>1, <2>1, <2>2, <2>3 DEF LatestFits
<1>18. SettledSound'
  <2> SUFFICES ASSUME Settled'
               PROVE  /\ ListSound'
                      /\ (\A k \in DOMAIN requests :
                           IsPending(k) /\ requests[k].kind = "older" /\ ~requests[k].spoilt =>
                               OlderFits(requests[k]))'
    BY DEF SettledSound
  <2>1. Settled
    BY <1>2, <1>9, <1>12 DEF Settled
  <2>2. ListSound /\ \A k \in DOMAIN requests :
                  IsPending(k) /\ requests[k].kind = "older" /\ ~requests[k].spoilt => OlderFits(requests[k])
    BY <1>1, <2>1 DEF SettledSound
  <2>3. ListSound'
    BY <1>2, <1>11, <2>2 DEF ListSound
  <2>4. ASSUME NEW k \in DOMAIN requests, IsPending(k), requests[k].kind = "older", ~requests'[k].spoilt
        PROVE  OlderFits(requests[k])'
    <3>1. CASE k # i
      <4>1. requests'[k] = requests[k]
        BY <1>9, <3>1
      <4>2. OlderFits(requests[k])
        BY <2>2, <2>4, <4>1
      <4> QED
        BY <1>2, <1>11, <4>1, <4>2 DEF OlderFits
    <3>2. CASE k = i
      <4>1. ~r.spoilt /\ OffsetFits(r) /\ ~PartsATime(r, order)
        BY <1>8, <1>9, <2>4, <3>2
      <4>2. OlderFits(r)
        BY <2>2, <2>4, <3>2, <4>1
      <4>3. page \cap PageRows = {} /\ NewestOf(PageRows \cup page, storedThen \cap Passing(narrowed))
        BY <1>1, <1>2, <1>5, <2>2, <4>1, <4>2, OlderGoOn
      <4>4. OnceEach(e.rows) /\ Elements(e.rows) = page
        BY <1>7, <1>8
      <4>5. requests'[k] = e /\ e.stage = "answered"
        BY <1>8, <1>9, <3>2
      <4>6. Passing(narrowed)' = Passing(narrowed) /\ storedThen' = storedThen
        BY <1>2 DEF Passing
      <4> HIDE DEF page
      <4> QED
        BY <1>11, <4>3, <4>4, <4>5, <4>6 DEF OlderFits
    <3> QED
      BY <3>1, <3>2
  <2> QED
    BY <1>9, <1>12, <2>3, <2>4
<1> QED
  BY <1>13, <1>14, <1>15, <1>16, <1>17, <1>18 DEF PageInv

\* A request that has ended says no more than that.
LEMMA OverIs ==
    ASSUME NEW r \in Enquiries, LiveLines \subseteq LineNo
    PROVE  /\ Over(r) \in Enquiries /\ Over(r).stage = "over" /\ Over(r).stored = {} /\ Len(Over(r).rows) = 0
           /\ Over(r).kind = IF r.kind = "older" THEN "older" ELSE "load"
<1> DEFINE k == IF r.kind = "older" THEN "older" ELSE "load"
           q == Enquiry(k, "none", 0, 0)
<1>1. k \in {"load", "older"}
  OBVIOUS
<1> HIDE DEF k
<1>2. q \in Enquiries /\ q.stored = {} /\ q.rows = <<>> /\ q.kind = k
  BY <1>1 DEF Enquiry, Enquiries
<1>3. Over(r) = [q EXCEPT !.stage = "over"]
  BY DEF Over, k
<1> HIDE DEF q
<1>4. Over(r) \in Enquiries /\ Over(r).stage = "over" /\ Over(r).stored = {} /\ Over(r).rows = <<>> /\ Over(r).kind = k
  BY <1>2, <1>3 DEF Enquiries
<1> QED
  BY <1>4 DEF k

\* Request i has ended.
LEMMA Ends ==
    ASSUME PageTyped, NEW i \in DOMAIN requests, requests[i].stage # "over",
           NEW rs, rs = [requests EXCEPT ![i] = Over(@)]
    PROVE  /\ requests \in Seq(Enquiries) /\ requests[i] \in Enquiries
           /\ rs \in Seq(Enquiries) /\ Len(rs) = Len(requests) /\ DOMAIN rs = DOMAIN requests
           /\ rs[i].stage = "over" /\ rs[i].stored = {} /\ Len(rs[i].rows) = 0
           /\ rs[i].kind = IF requests[i].kind = "older" THEN "older" ELSE "load"
           /\ \A k \in DOMAIN requests : k # i => rs[k] = requests[k]
           /\ Cardinality(Overs(requests)) + 1 <= Cardinality(Overs(rs))
           /\ LiveLines \subseteq LineNo
<1>1. requests \in Seq(Enquiries) /\ requests[i] \in Enquiries /\ logs \in Seq(Shown)
  BY RequestsAre DEF PageTyped
<1>2. LiveLines \subseteq LineNo
  BY <1>1, ListIs, ShownIs
<1> DEFINE e == Over(requests[i])
<1>3. /\ e \in Enquiries /\ e.stage = "over" /\ e.stored = {} /\ Len(e.rows) = 0
      /\ e.kind = IF requests[i].kind = "older" THEN "older" ELSE "load"
  BY <1>1, <1>2, OverIs
<1>4. rs = [requests EXCEPT ![i] = e]
  OBVIOUS
<1> HIDE DEF e
<1>5. /\ rs \in Seq(Enquiries) /\ Len(rs) = Len(requests) /\ DOMAIN rs = DOMAIN requests
      /\ rs[i] = e /\ \A k \in DOMAIN requests : k # i => rs[k] = requests[k]
      /\ Overs(requests) \subseteq Overs(rs) /\ Overs(requests) # Overs(rs)
  <2>1. /\ rs \in Seq(Enquiries) /\ Len(rs) = Len(requests) /\ DOMAIN rs = DOMAIN requests
        /\ rs[i] = e /\ \A k \in DOMAIN requests : k # i => rs[k] = requests[k]
    BY <1>1, <1>3, <1>4, Replaced
  <2>2. Overs(requests) \subseteq Overs(rs)
    BY <1>3, <2>1 DEF Overs
  <2>3. i \in Overs(rs) /\ i \notin Overs(requests)
    BY <1>3, <2>1 DEF Overs
  <2> QED
    BY <2>1, <2>2, <2>3
<1>6. Cardinality(Overs(requests)) + 1 <= Cardinality(Overs(rs))
  BY <1>1, <1>5, OversGrow
<1> QED
  BY <1>1, <1>2, <1>3, <1>5, <1>6

\* An end leaves room for a page.
LEMMA RoomForPage ==
    ASSUME PageTyped, LengthBounded, NEW rs \in Seq(Enquiries),
           Cardinality(Overs(requests)) + 1 <= Cardinality(Overs(rs))
    PROVE  /\ Len(logs) + PageSize <= MaxShown + PageSize * Cardinality(Overs(rs))
           /\ PageSize <= PageSize * Cardinality(Overs(rs))
<1>1. Cardinality(Overs(requests)) \in Nat /\ Cardinality(Overs(rs)) \in Nat
  BY RequestsAre DEF PageTyped
<1>2. /\ PageSize * Cardinality(Overs(requests)) + PageSize <= PageSize * Cardinality(Overs(rs))
      /\ PageSize * Cardinality(Overs(requests)) \in Nat /\ PageSize * Cardinality(Overs(rs)) \in Nat
  BY <1>1, Times
<1>3. Len(logs) <= MaxShown + PageSize * Cardinality(Overs(requests)) /\ Len(logs) \in Nat
  BY ListIs DEF LengthBounded, PageTyped
<1> QED
  BY <1>2, <1>3, NumbersOf

\* Requests that end, or are spoilt, keep what the list on its way has to fit.
LEMMA LatestStays ==
    ASSUME PageInv, NEW i, DOMAIN requests' = DOMAIN requests, narrowed' = narrowed,
           \A k \in DOMAIN requests :
               /\ k # i => /\ requests'[k].kind = requests[k].kind /\ requests'[k].stage = requests[k].stage
                           /\ requests'[k].by = requests[k].by /\ requests'[k].rows = requests[k].rows
                           /\ requests'[k].stored = requests[k].stored
               /\ k = i => /\ requests'[k].stage = "over"
                           /\ requests'[k].kind = IF requests[k].kind = "older" THEN "older" ELSE "load"
    PROVE  LatestFits'
<1> SUFFICES ASSUME NEW k \in DOMAIN requests, requests'[k].stage # "over", requests'[k].kind # "older"
             PROVE  ListFits(requests[k])' \/ \E j \in DOMAIN requests : j > k /\ requests'[j].kind = "load"
  BY DEF LatestFits, IsPending
<1>1. k # i /\ IsPending(k) /\ requests[k].kind # "older"
  BY DEF IsPending
<1>2. CASE ListFits(requests[k])
  <2>1. Passing(narrowed)' = Passing(narrowed)
    BY DEF Passing
  <2> QED
    BY <1>1, <1>2, <2>1 DEF ListFits
<1>3. CASE \E j \in DOMAIN requests : j > k /\ requests[j].kind = "load"
  <2>1. PICK j \in DOMAIN requests : j > k /\ requests[j].kind = "load"
    BY <1>3
  <2>2. requests'[j].kind = "load"
    BY <2>1
  <2> QED
    BY <2>1, <2>2
<1> QED
  BY <1>1, <1>2, <1>3 DEF PageInv, LatestFits

\* A list is taken in place of the one shown.
LEMMA ListTakenStep ==
    ASSUME PageInv, NEW i \in DOMAIN requests, ListTaken(i)
    PROVE  PageInv'
<1> DEFINE r == requests[i]
           rs == [requests EXCEPT ![i] = Over(@)]
<1>1. PageTyped /\ FeedInOrder /\ LengthBounded /\ OneOlder /\ LatestFits /\ SettledSound
  BY DEF PageInv
<1>2. /\ r.stage = "answered" /\ r.kind # "older" /\ requests' = Spoil(rs)
      /\ logs' = AsRows(r.rows) /\ total' = r.count /\ oldestLoaded' = (Len(r.rows) < PageSize)
      /\ storedThen' = r.stored
      /\ outOfTurn' = \E k \in DOMAIN requests :
                          k > i /\ requests[k].kind # "older" /\ requests[k].stage = "over"
      /\ UNCHANGED <<emitted, storedRows, socket, feed, narrowed, loadingOlder, failed>>
  BY DEF ListTaken, AsRows
<1>3. /\ requests \in Seq(Enquiries) /\ r \in Enquiries
      /\ rs \in Seq(Enquiries) /\ Len(rs) = Len(requests) /\ DOMAIN rs = DOMAIN requests
      /\ rs[i].stage = "over" /\ rs[i].stored = {} /\ Len(rs[i].rows) = 0 /\ rs[i].kind = "load"
      /\ \A k \in DOMAIN requests : k # i => rs[k] = requests[k]
      /\ Cardinality(Overs(requests)) + 1 <= Cardinality(Overs(rs))
  BY <1>1, <1>2, Ends
<1> HIDE DEF rs
<1>4. /\ requests' \in Seq(Enquiries) /\ Len(requests') = Len(requests) /\ DOMAIN requests' = DOMAIN requests
      /\ Overs(requests') = Overs(rs)
      /\ \A k \in DOMAIN requests :
           /\ requests'[k].kind = rs[k].kind /\ requests'[k].stage = rs[k].stage
           /\ requests'[k].by = rs[k].by /\ requests'[k].rows = rs[k].rows
           /\ requests'[k].stored = rs[k].stored /\ requests'[k].at = rs[k].at
           /\ rs[k].kind = "older" /\ rs[k].stage # "over" => requests'[k].spoilt
  BY <1>2, <1>3, Spoiled
<1>5. r.rows \in Seq(LineNo) /\ r.count \in Nat /\ r.stored \subseteq storedRows /\ Len(r.rows) <= PageSize
  BY <1>1, <1>3 DEF PageTyped, Enquiries
<1>6. /\ logs' \in Seq(Shown) /\ Len(logs') = Len(r.rows)
      /\ LiveLines' = {} /\ PageRows' = Elements(r.rows)
      /\ OnceEach(r.rows) => Distinct(logs')
  <2>1. LiveLines' = LivesOf(logs') /\ PageRows' = PagesOf(logs')
    BY DEF LiveLines, PageRows, LivesOf, PagesOf
  <2> QED
    BY <1>2, <1>5, <2>1, PageAlone
<1>7. PageTyped'
  <2>1. ASSUME NEW k \in DOMAIN requests
        PROVE  /\ requests'[k].stored \subseteq storedRows /\ Len(requests'[k].rows) <= PageSize
               /\ requests'[k].kind # "older" /\ requests'[k].stage = "asked" => requests'[k].at = 0
    <3>1. CASE k = i
      BY <1>3, <1>4, <3>1, NumbersOf
    <3>2. CASE k # i
      BY <1>1, <1>3, <1>4, <3>2 DEF PageTyped
    <3> QED
      BY <3>1, <3>2
  <2>2. oldestLoaded' \in BOOLEAN /\ outOfTurn' \in BOOLEAN
    BY <1>2
  <2> QED
    BY <1>1, <1>2, <1>4, <1>5, <1>6, <2>1, <2>2 DEF PageTyped
<1>8. LengthBounded'
  <2>1. PageSize <= PageSize * Cardinality(Overs(rs))
    BY <1>1, <1>3, RoomForPage
  <2>2. Cardinality(Overs(rs)) \in Nat /\ PageSize * Cardinality(Overs(rs)) \in Nat /\ Len(r.rows) \in Nat
    BY <1>3, <1>5, RequestsAre, Times, LenProperties
  <2>3. Len(logs') <= MaxShown + PageSize * Cardinality(Overs(rs))
    BY <1>5, <1>6, <2>1, <2>2, NumbersOf
  <2> QED
    BY <1>4, <2>3 DEF LengthBounded
<1>9. FeedInOrder'
  BY <1>1, <1>2, <1>6 DEF FeedInOrder
<1>10. OneOlder'
  <2>1. \A k \in DOMAIN requests : requests'[k].kind = "older" /\ IsPending(k)' => requests[k].kind = "older" /\ IsPending(k)
    BY <1>3, <1>4 DEF IsPending
  <2> QED
    BY <1>1, <1>2, <1>4, <2>1 DEF OneOlder
<1>11. LatestFits'
  <2>1. \A k \in DOMAIN requests :
               /\ k # i => /\ requests'[k].kind = requests[k].kind /\ requests'[k].stage = requests[k].stage
                           /\ requests'[k].by = requests[k].by /\ requests'[k].rows = requests[k].rows
                           /\ requests'[k].stored = requests[k].stored
               /\ k = i => /\ requests'[k].stage = "over"
                           /\ requests'[k].kind = IF requests[k].kind = "older" THEN "older" ELSE "load"
    BY <1>2, <1>3, <1>4
  <2> QED
    BY <1>2, <1>4, <2>1, LatestStays
<1>12. SettledSound'
  <2> SUFFICES ASSUME Settled'
               PROVE  /\ ListSound'
                      /\ (\A k \in DOMAIN requests :
                           IsPending(k) /\ requests[k].kind = "older" /\ ~requests[k].spoilt =>
                               OlderFits(requests[k]))'
    BY DEF SettledSound
  <2>1. ~(\E k \in DOMAIN requests : k > i /\ requests[k].kind = "load")
    <3> SUFFICES ASSUME NEW k \in DOMAIN requests, k > i, requests[k].kind = "load" PROVE FALSE
      OBVIOUS
    <3>1. k # i
      <4>1. i \in Nat /\ k \in Nat
        BY <1>3, RequestsAre
      <4> QED
        BY <4>1
    <3>2. CASE requests[k].stage = "over"
      BY <1>2, <3>2 DEF Settled
    <3>3. CASE requests[k].stage # "over"
      BY <1>3, <1>4, <3>1, <3>3 DEF Settled, IsPending
    <3> QED
      BY <3>2, <3>3
  <2>2. ListFits(r)
    BY <1>1, <1>2, <2>1 DEF LatestFits, IsPending
  <2>3. OnceEach(r.rows) /\ NewestOf(Elements(r.rows), r.stored \cap Passing(narrowed))
    BY <1>2, <2>2 DEF ListFits
  <2>4. Passing(narrowed)' = Passing(narrowed)
    BY <1>2 DEF Passing
  <2>5. ListSound'
    BY <1>2, <1>6, <2>3, <2>4 DEF ListSound, Distinct
  <2>6. \A k \in DOMAIN requests : ~(IsPending(k)' /\ requests'[k].kind = "older" /\ ~requests'[k].spoilt)
    BY <1>4 DEF IsPending
  <2> QED
    BY <1>4, <2>5, <2>6
<1> QED
  BY <1>7, <1>8, <1>9, <1>10, <1>11, <1>12 DEF PageInv

\* Older rows are taken below the list.
LEMMA OlderTakenStep ==
    ASSUME PageInv, NEW i \in DOMAIN requests, OlderTaken(i)
    PROVE  PageInv'
<1> DEFINE r == requests[i]
<1>1. PageTyped /\ FeedInOrder /\ LengthBounded /\ OneOlder /\ LatestFits /\ SettledSound
  BY DEF PageInv
<1>2. /\ r.stage = "answered" /\ r.kind = "older" /\ requests' = [requests EXCEPT ![i] = Over(@)]
      /\ logs' = logs \o AsRows(r.rows)
      /\ oldestLoaded' = (oldestLoaded \/ Len(r.rows) < PageSize)
      /\ outOfTurn' = (outOfTurn \/ r.spoilt) /\ loadingOlder' = FALSE
      /\ UNCHANGED <<emitted, storedRows, socket, feed, narrowed, total, failed, storedThen>>
  BY DEF OlderTaken, AsRows
<1>3. /\ requests \in Seq(Enquiries) /\ r \in Enquiries
      /\ requests' \in Seq(Enquiries) /\ Len(requests') = Len(requests) /\ DOMAIN requests' = DOMAIN requests
      /\ requests'[i].stage = "over" /\ requests'[i].stored = {} /\ Len(requests'[i].rows) = 0
      /\ requests'[i].kind = "older"
      /\ \A k \in DOMAIN requests : k # i => requests'[k] = requests[k]
      /\ Cardinality(Overs(requests)) + 1 <= Cardinality(Overs(requests'))
  BY <1>1, <1>2, Ends
<1>4. r.rows \in Seq(LineNo) /\ Len(r.rows) <= PageSize /\ r.spoilt \in BOOLEAN /\ logs \in Seq(Shown)
  BY <1>1, <1>3 DEF PageTyped, Enquiries
<1>5. LiveLines = LivesOf(logs) /\ PageRows = PagesOf(logs) /\ LiveLines' = LivesOf(logs') /\ PageRows' = PagesOf(logs')
  BY DEF LiveLines, PageRows, LivesOf, PagesOf
<1>6. /\ logs' \in Seq(Shown) /\ Len(logs') = Len(logs) + Len(r.rows)
      /\ LiveLines' = LiveLines /\ PageRows' = PageRows \cup Elements(r.rows)
      /\ Distinct(logs) /\ OnceEach(r.rows) /\ Elements(r.rows) \cap (LiveLines \cup PageRows) = {} => Distinct(logs')
  BY <1>2, <1>4, <1>5, PageBelow
<1>7. PageTyped'
  <2>1. ASSUME NEW k \in DOMAIN requests
        PROVE  /\ requests'[k].stored \subseteq storedRows /\ Len(requests'[k].rows) <= PageSize
               /\ requests'[k].kind # "older" /\ requests'[k].stage = "asked" => requests'[k].at = 0
    <3>1. CASE k = i
      BY <1>3, <3>1, NumbersOf
    <3>2. CASE k # i
      BY <1>1, <1>2, <1>3, <3>2 DEF PageTyped
    <3> QED
      BY <3>1, <3>2
  <2>2. oldestLoaded' \in BOOLEAN /\ outOfTurn' \in BOOLEAN
    BY <1>1, <1>2, <1>4 DEF PageTyped
  <2> QED
    BY <1>1, <1>2, <1>3, <1>6, <2>1, <2>2 DEF PageTyped
<1>8. LengthBounded'
  <2>1. Len(logs) + PageSize <= MaxShown + PageSize * Cardinality(Overs(requests'))
    BY <1>1, <1>3, RoomForPage
  <2>2. Cardinality(Overs(requests')) \in Nat /\ PageSize * Cardinality(Overs(requests')) \in Nat
        /\ Len(r.rows) \in Nat /\ Len(logs) \in Nat
    BY <1>3, <1>4, RequestsAre, Times, LenProperties
  <2>3. Len(logs') <= MaxShown + PageSize * Cardinality(Overs(requests'))
    BY <1>4, <1>6, <2>1, <2>2, NumbersOf
  <2> QED
    BY <2>3 DEF LengthBounded
<1>9. FeedInOrder'
  BY <1>1, <1>2, <1>6 DEF FeedInOrder
<1>10. \A k \in DOMAIN requests : ~(requests'[k].kind = "older" /\ IsPending(k)')
  BY <1>1, <1>2, <1>3 DEF OneOlder, IsPending
<1>11. OneOlder'
  BY <1>3, <1>10 DEF OneOlder
<1>12. LatestFits'
  <2>1. \A k \in DOMAIN requests :
               /\ k # i => /\ requests'[k].kind = requests[k].kind /\ requests'[k].stage = requests[k].stage
                           /\ requests'[k].by = requests[k].by /\ requests'[k].rows = requests[k].rows
                           /\ requests'[k].stored = requests[k].stored
               /\ k = i => /\ requests'[k].stage = "over"
                           /\ requests'[k].kind = IF requests[k].kind = "older" THEN "older" ELSE "load"
    BY <1>2, <1>3
  <2>2. narrowed' = narrowed /\ DOMAIN requests' = DOMAIN requests
    BY <1>2, <1>3
  <2> QED
    BY <2>1, <2>2, LatestStays
<1>13. SettledSound'
  <2> SUFFICES ASSUME Settled' PROVE ListSound'
    BY <1>3, <1>10 DEF SettledSound
  <2>1. Settled /\ ~r.spoilt
    BY <1>2, <1>3 DEF Settled, IsPending
  <2>2. ListSound /\ OlderFits(r)
    BY <1>1, <1>2, <2>1 DEF SettledSound, IsPending
  <2>3. OnceEach(r.rows) /\ Elements(r.rows) \cap PageRows = {}
        /\ NewestOf(PageRows \cup Elements(r.rows), storedThen \cap Passing(narrowed))
    BY <1>2, <2>2 DEF OlderFits
  <2>4. Elements(r.rows) \cap LiveLines = {}
    BY <2>2, <2>3 DEF ListSound, NewestOf
  <2>5. Distinct(logs)
    BY <2>2 DEF ListSound, Distinct
  <2>6. Distinct(logs')
    BY <1>6, <2>3, <2>4, <2>5
  <2>7. Passing(narrowed)' = Passing(narrowed)
    BY <1>2 DEF Passing
  <2> QED
    BY <1>2, <1>6, <2>2, <2>3, <2>6, <2>7 DEF ListSound, Distinct
<1> QED
  BY <1>7, <1>8, <1>9, <1>11, <1>12, <1>13 DEF PageInv

\* A request fails.
LEMMA FailsStep ==
    ASSUME PageInv, NEW i \in DOMAIN requests, RequestFails(i)
    PROVE  PageInv'
<1> DEFINE r == requests[i]
<1>1. PageTyped /\ FeedInOrder /\ LengthBounded /\ OneOlder /\ LatestFits /\ SettledSound
  BY DEF PageInv
<1>2. /\ r.stage = "asked" /\ requests' = [requests EXCEPT ![i] = Over(@)]
      /\ failed' = (failed \/ r.kind # "jump") /\ loadingOlder' = (loadingOlder /\ r.kind # "older")
      /\ UNCHANGED <<emitted, storedRows, socket, feed, narrowed, logs, total, oldestLoaded, storedThen, outOfTurn>>
  BY DEF RequestFails
<1>3. /\ requests \in Seq(Enquiries) /\ r \in Enquiries
      /\ requests' \in Seq(Enquiries) /\ Len(requests') = Len(requests) /\ DOMAIN requests' = DOMAIN requests
      /\ requests'[i].stage = "over" /\ requests'[i].stored = {} /\ Len(requests'[i].rows) = 0
      /\ requests'[i].kind = IF r.kind = "older" THEN "older" ELSE "load"
      /\ \A k \in DOMAIN requests : k # i => requests'[k] = requests[k]
      /\ Cardinality(Overs(requests)) + 1 <= Cardinality(Overs(requests'))
  BY <1>1, <1>2, Ends
<1>4. LiveLines' = LiveLines /\ PageRows' = PageRows
  BY <1>2 DEF LiveLines, PageRows
<1>5. PageTyped'
  <2>1. ASSUME NEW k \in DOMAIN requests
        PROVE  /\ requests'[k].stored \subseteq storedRows /\ Len(requests'[k].rows) <= PageSize
               /\ requests'[k].kind # "older" /\ requests'[k].stage = "asked" => requests'[k].at = 0
    <3>1. CASE k = i
      BY <1>3, <3>1, NumbersOf
    <3>2. CASE k # i
      BY <1>1, <1>2, <1>3, <3>2 DEF PageTyped
    <3> QED
      BY <3>1, <3>2
  <2>2. failed' \in BOOLEAN /\ loadingOlder' \in BOOLEAN
    BY <1>1, <1>2 DEF PageTyped
  <2> QED
    BY <1>1, <1>2, <1>3, <2>1, <2>2 DEF PageTyped
<1>6. LengthBounded'
  <2>1. Len(logs) + PageSize <= MaxShown + PageSize * Cardinality(Overs(requests'))
    BY <1>1, <1>3, RoomForPage
  <2>2. Cardinality(Overs(requests')) \in Nat /\ PageSize * Cardinality(Overs(requests')) \in Nat /\ Len(logs) \in Nat
    BY <1>1, <1>3, RequestsAre, Times, ListIs DEF PageTyped
  <2>3. Len(logs') <= MaxShown + PageSize * Cardinality(Overs(requests'))
    BY <1>2, <2>1, <2>2, NumbersOf
  <2> QED
    BY <2>3 DEF LengthBounded
<1>7. FeedInOrder'
  BY <1>1, <1>2, <1>4 DEF FeedInOrder
<1>8. OneOlder'
  <2>1. \A k \in DOMAIN requests :
            requests'[k].kind = "older" /\ IsPending(k)' => k # i /\ requests[k].kind = "older" /\ IsPending(k)
    BY <1>3 DEF IsPending
  <2>2. r.kind = "older" => IsPending(i)
    BY <1>2 DEF IsPending
  <2> QED
    BY <1>1, <1>2, <1>3, <2>1, <2>2 DEF OneOlder
<1>9. LatestFits'
  <2>1. \A k \in DOMAIN requests :
               /\ k # i => /\ requests'[k].kind = requests[k].kind /\ requests'[k].stage = requests[k].stage
                           /\ requests'[k].by = requests[k].by /\ requests'[k].rows = requests[k].rows
                           /\ requests'[k].stored = requests[k].stored
               /\ k = i => /\ requests'[k].stage = "over"
                           /\ requests'[k].kind = IF requests[k].kind = "older" THEN "older" ELSE "load"
    BY <1>3
  <2> QED
    BY <1>2, <1>3, <2>1, LatestStays
<1>10. SettledSound'
  <2> SUFFICES ASSUME Settled'
               PROVE  /\ ListSound'
                      /\ (\A k \in DOMAIN requests :
                           IsPending(k) /\ requests[k].kind = "older" /\ ~requests[k].spoilt =>
                               OlderFits(requests[k]))'
    BY DEF SettledSound
  <2>1. r.kind = "jump" /\ ~failed /\ ~outOfTurn
    BY <1>2 DEF Settled
  <2>2. Settled
    BY <1>3, <2>1 DEF Settled, IsPending
  <2>3. ListSound /\ \A k \in DOMAIN requests :
                  IsPending(k) /\ requests[k].kind = "older" /\ ~requests[k].spoilt => OlderFits(requests[k])
    BY <1>1, <2>2 DEF SettledSound
  <2>4. ListSound'
    BY <1>2, <1>4, <2>3 DEF ListSound
  <2>5. ASSUME NEW k \in DOMAIN requests, IsPending(k)', requests'[k].kind = "older", ~requests'[k].spoilt
        PROVE  OlderFits(requests[k])'
    <3>1. requests'[k] = requests[k]
      BY <1>3, <2>5 DEF IsPending
    <3>2. OlderFits(requests[k])
      BY <2>3, <2>5, <3>1 DEF IsPending
    <3> QED
      BY <1>2, <1>4, <3>1, <3>2 DEF OlderFits
  <2> QED
    BY <1>3, <2>4, <2>5
<1> QED
  BY <1>5, <1>6, <1>7, <1>8, <1>9, <1>10 DEF PageInv

\* The list is emptied.
LEMMA ClearStep ==
    ASSUME PageInv, ClearLogList
    PROVE  PageInv'
<1>1. PageTyped /\ FeedInOrder /\ LengthBounded /\ OneOlder /\ LatestFits /\ SettledSound
  BY DEF PageInv
<1>2. /\ logs' = <<>> /\ total' = 0 /\ requests' = Spoil(requests)
      /\ UNCHANGED <<emitted, storedRows, socket, feed, narrowed, oldestLoaded, loadingOlder, failed, storedThen, outOfTurn>>
  BY DEF ClearLogList
<1>3. requests \in Seq(Enquiries)
  BY <1>1 DEF PageTyped
<1>4. /\ requests' \in Seq(Enquiries) /\ Len(requests') = Len(requests) /\ DOMAIN requests' = DOMAIN requests
      /\ Overs(requests') = Overs(requests)
      /\ \A k \in DOMAIN requests :
           /\ requests'[k].kind = requests[k].kind /\ requests'[k].stage = requests[k].stage
           /\ requests'[k].by = requests[k].by /\ requests'[k].rows = requests[k].rows
           /\ requests'[k].stored = requests[k].stored /\ requests'[k].at = requests[k].at
           /\ requests[k].kind = "older" /\ requests[k].stage # "over" => requests'[k].spoilt
  BY <1>2, <1>3, Spoiled
<1>5. logs' \in Seq(Shown) /\ Len(logs') = 0 /\ DOMAIN logs' = {} /\ LiveLines' = {} /\ PageRows' = {}
  BY <1>2 DEF LiveLines, PageRows
<1>6. PageTyped'
  <2>1. ASSUME NEW k \in DOMAIN requests
        PROVE  /\ requests'[k].stored \subseteq storedRows /\ Len(requests'[k].rows) <= PageSize
               /\ requests'[k].kind # "older" /\ requests'[k].stage = "asked" => requests'[k].at = 0
    BY <1>1, <1>4 DEF PageTyped
  <2> QED
    BY <1>1, <1>2, <1>4, <1>5, <2>1 DEF PageTyped
<1>7. LengthBounded'
  <2>1. Cardinality(Overs(requests)) \in Nat /\ PageSize * Cardinality(Overs(requests)) \in Nat
    BY <1>3, RequestsAre, Times
  <2>2. Len(logs') <= MaxShown + PageSize * Cardinality(Overs(requests))
    BY <1>5, <2>1, NumbersOf
  <2> QED
    BY <1>4, <2>2 DEF LengthBounded
<1>8. FeedInOrder'
  BY <1>1, <1>2, <1>5 DEF FeedInOrder
<1>9. OneOlder'
  BY <1>1, <1>2, <1>4 DEF OneOlder, IsPending
<1>10. LatestFits'
  <2>1. \A k \in DOMAIN requests :
               /\ k # 0 => /\ requests'[k].kind = requests[k].kind /\ requests'[k].stage = requests[k].stage
                           /\ requests'[k].by = requests[k].by /\ requests'[k].rows = requests[k].rows
                           /\ requests'[k].stored = requests[k].stored
               /\ k # 0
    BY <1>3, <1>4, RequestsAre
  <2> QED
    BY <1>2, <1>4, <2>1, LatestStays
<1>11. SettledSound'
  <2>1. ListSound'
    BY <1>5 DEF ListSound, NewestOf
  <2>2. \A k \in DOMAIN requests : ~(IsPending(k)' /\ requests'[k].kind = "older" /\ ~requests'[k].spoilt)
    BY <1>4 DEF IsPending
  <2> QED
    BY <1>4, <2>1, <2>2 DEF SettledSound
<1> QED
  BY <1>6, <1>7, <1>8, <1>9, <1>10, <1>11 DEF PageInv

\* ... every step keeps it, ...
LEMMA PageStep == PageInv /\ [PageNext]_pageVars => PageInv'
<1> SUFFICES ASSUME PageInv, [PageNext]_pageVars PROVE PageInv'
  OBVIOUS
<1>1. CASE Publish \/ Subscribed \/ SocketLost
  BY <1>1, OutsideStep
<1>2. CASE \E paused \in BOOLEAN : OnWsMessage(paused)
  BY <1>2, MessageStep
<1>3. CASE \E line \in 1..MaxLines : InsertRow(line)
  BY <1>3, OutsideStep
<1>4. CASE Reload \/ LoadOlder \/ (\E by \in {"none", "search", "filter"} : ChangeSetting(by))
           \/ (\E line \in 1..MaxLines : JumpToTime(line))
  BY <1>4, AsksStep
<1>5. ASSUME NEW i \in DOMAIN requests, SearchLogs(i) \/ ListTaken(i) \/ OlderTaken(i) \/ RequestFails(i)
      PROVE  PageInv'
  BY <1>5, SearchStep, ListTakenStep, OlderTakenStep, FailsStep
<1>6. CASE ClearLogList
  BY <1>6, ClearStep
<1>7. CASE UNCHANGED pageVars
  <2> USE <1>7 DEF pageVars
  <2>1. LiveLines' = LiveLines /\ PageRows' = PageRows
    BY DEF LiveLines, PageRows
  <2>2. PageTyped'
    BY DEF PageInv, PageTyped
  <2>3. LengthBounded'
    BY DEF PageInv, LengthBounded, Overs
  <2>4. FeedInOrder'
    BY <2>1 DEF PageInv, FeedInOrder
  <2>5. OneOlder'
    BY DEF PageInv, OneOlder, IsPending
  <2>6. LatestFits'
    BY DEF PageInv, LatestFits, ListFits, IsPending
  <2>7. ListSound => ListSound'
    BY <2>1 DEF ListSound
  <2>8. \A i \in DOMAIN requests : OlderFits(requests[i]) => OlderFits(requests[i])'
    BY <2>1 DEF OlderFits
  <2>9. SettledSound'
    BY <2>7, <2>8 DEF PageInv, SettledSound, Settled, IsPending
  <2> QED
    BY <2>2, <2>3, <2>4, <2>5, <2>6, <2>9 DEF PageInv
<1> QED
  BY <1>1, <1>2, <1>3, <1>4, <1>5, <1>6, <1>7 DEF PageNext

\* ... and so it always holds.
LEMMA PageKeeps == PageSpec => []PageInv
  BY PageInitInv, PageStep, PTL DEF PageSpec

\* Type correctness of the page (routes/logs/+page.svelte): the list is at most as long
\* as the live lines it may hold and a page for each request.
THEOREM PageTypeCorrect == PageSpec => []PageTypeOK
<1>1. PageInv => PageTypeOK
  <2> SUFFICES ASSUME PageInv PROVE PageTypeOK
    OBVIOUS
  <2>1. PageTyped /\ LengthBounded
    BY DEF PageInv
  <2> DEFINE c == Cardinality(Overs(requests))
  <2>2. c \in Nat /\ c <= Len(requests) /\ Len(requests) \in Nat
    BY <2>1, RequestsAre DEF PageTyped
  <2>3. c <= MaxPages /\ MaxPages \in Nat
    BY <2>1, <2>2, NumbersOf DEF PageTyped
  <2> HIDE DEF c
  <2>4. PageSize * c <= PageSize * MaxPages /\ PageSize * c \in Nat /\ PageSize * MaxPages \in Nat
    BY <2>2, <2>3, Times
  <2>5. MaxPages * PageSize = PageSize * MaxPages
    BY <2>3, NumbersOf
  <2>6. Len(logs) <= MaxShown + PageSize * c /\ Len(logs) \in Nat
    BY <2>1, ListIs DEF LengthBounded, PageTyped, c
  <2>7. Len(logs) <= MaxShown + MaxPages * PageSize
    BY <2>4, <2>5, <2>6, NumbersOf
  <2> QED
    BY <2>1, <2>7 DEF PageTyped, PageTypeOK
<1> QED
  BY <1>1, PageKeeps, PTL

\* Taken in turn, answers and live lines make one list (load, loadOlder, onWsMessage): no
\* row twice, none that does not pass what is set, none missing between the pages.
THEOREM OneListInTurn == PageSpec => []LogsInTurn
<1>1. PageInv => LogsInTurn
  <2> SUFFICES ASSUME PageInv, Pending = {}, ~failed, ~outOfTurn
               PROVE  /\ \A i, j \in DOMAIN logs : logs[i].line = logs[j].line => i = j
                      /\ PageRows \subseteq Passing(narrowed)
                      /\ \A n \in storedThen \cap Passing(narrowed), m \in PageRows :
                            Time(n) > Time(m) => n \in PageRows \cup LiveLines
    BY DEF LogsInTurn
  <2>1. Settled
    BY DEF Pending, Settled, IsPending
  <2>2. ListSound
    BY <2>1 DEF PageInv, SettledSound
  <2> QED
    BY <2>2 DEF ListSound, NewestOf
<1> QED
  BY <1>1, PageKeeps, PTL
-----------------------------------------------------------------------------
\* MCClients runs the exporter or the page as it is: its specification implies that of
\* both, so that what is proved of either holds in the run.
THEOREM RunsEachClient == ClientSpec => Spec /\ PageSpec
<1>1. ClientInit => Init /\ PageInit
  BY DEF ClientInit
<1>2. [ClientNext]_clientVars => [Next]_vars /\ [PageNext]_pageVars
  BY Zenon DEF ClientNext, clientVars
<1> QED
  BY <1>1, <1>2, PTL DEF ClientSpec, Spec, PageSpec

\* Type correctness of both clients.
THEOREM ClientsTypeCorrect == ClientSpec => []ClientTypeOK
<1>1. TypeOK /\ PageTypeOK => ClientTypeOK
  BY DEF ClientTypeOK
<1> QED
  BY <1>1, RunsEachClient, TypeCorrect, PageTypeCorrect, PTL
=============================================================================
