----------------------------- MODULE OtlpIntake -----------------------------
(***************************************************************************)
(* The OTLP endpoints: a batch of spans, metrics or log records is posted  *)
(* as JSON or protobuf, decoded, turned into rows and inserted in chunks   *)
(* of 500, without a transaction around them (api/otlp.ts, ingestion/      *)
(* otlp-*.ts, insertTraces and insertLogs).  The sender posts the whole    *)
(* batch again when it was answered with an error or not at all.           *)
(*                                                                         *)
(* Each column of a row comes from one field of an item.  So a batch here  *)
(* is a number of items that all state one fact: what field it is about,   *)
(* what the sender says in it and in which form.  A row is what its column *)
(* says in the end.                                                        *)
(***************************************************************************)
EXTENDS Naturals, Sequences

CONSTANTS OtlpChunk,  \* chunkSize, 500 in the code
          MaxItems,   \* bound: items of a batch
          MaxSends    \* bound: how often a batch is posted

ASSUME OtlpAssumption == OtlpChunk \in Nat \ {0} /\ MaxItems \in Nat \ {0} /\ MaxSends \in Nat

VARIABLES
    export,    \* the batch: signal, wire, fact, number of items, body and key
    posting,   \* the handler: idle, received, authorized, inserting, answered
    chunk,     \* the chunks inserted by this post
    answer,    \* the status of the answer, or 0
    written,       \* what a row of the batch says
    sends,     \* how often the batch was posted
    copiesOf,  \* the rows of each item
    interrupted \* history: a post ended in a 500 or its answer was lost

otlpVars == <<export, posting, chunk, answer, written, sends, copiesOf, interrupted>>

\* What senders state.  "form" is how JSON spells it; protobuf has one form.
SpanKinds == <<"INTERNAL", "SERVER", "CLIENT", "PRODUCER", "CONSUMER">>
Fact(about, says, forms) == [about : {about}, says : says, form : forms]
TraceFacts ==
    Fact("kind", {SpanKinds[n] : n \in DOMAIN SpanKinds}, {"word", "enum", "number"})
    \cup Fact("status", {"ok", "error", "unset"}, {"Word", "enum", "number", "exporter"})
    \cup Fact("attribute", {"string", "int", "double", "bool", "list"}, {"typed"})
    \cup Fact("attribute", {"int", "nan"}, {"number"})
MetricFacts ==
    Fact("value", {"int", "double"}, {"typed"})
    \cup Fact("points", {"sum", "gauge", "histogram"}, {"typed"})
LogFacts ==
    Fact("time", {"event", "observed"}, {"typed"}) \cup Fact("time", {"event"}, {"date"})
    \cup Fact("level", {"INFO"}, {"word", "enum", "number"})
    \cup Fact("body", {"string", "int", "bool", "list"}, {"typed"})
FactsOf == [traces |-> TraceFacts, metrics |-> MetricFacts, logs |-> LogFacts]
Wires(fact) ==
    IF fact.form = "typed" \/ (fact.form = "number" /\ fact.about # "attribute")
    THEN {"json", "proto"} ELSE {"json"}

OtlpInit ==
    /\ \E signal \in DOMAIN FactsOf, fact \in UNION {FactsOf[s] : s \in DOMAIN FactsOf} :
         /\ fact \in FactsOf[signal]
         /\ \E wire \in Wires(fact), items \in 0..MaxItems,
               body \in {"sound", "large", "broken"}, key \in {"none", "unknown", "good"} :
              export = [signal |-> signal, wire |-> wire, fact |-> fact, items |-> items,
                        body |-> body, key |-> key]
    /\ posting = "idle" /\ chunk = 0 /\ answer = 0 /\ written = "none" /\ sends = 0
    /\ copiesOf = [i \in 1..MaxItems |-> 0] /\ interrupted = FALSE

-----------------------------------------------------------------------------
\* The columns.  "lost" is an empty text, "throws" an exception of the parser,
\* "refused" what the schemas do not let through, "dropped" an item without a row.
\* shown: whether a field that was not on the wire reads as its default, which is
\* up to protobufjs: never, in messages without a oneof, or in all.

\* Numbers are taken from zero, where the protocol has "unspecified".
KindNumber(fact, wire) ==
    IF fact.form = "word" \/ wire = "proto" THEN fact.says
    ELSE IF fact.form = "enum" THEN "SPAN_KIND"
    ELSE LET n == CHOOSE k \in DOMAIN SpanKinds : SpanKinds[k] = fact.says
         IN  IF n + 1 \in DOMAIN SpanKinds THEN SpanKinds[n + 1] ELSE "INTERNAL"

StatusCode(fact) == IF fact.form = "exporter" THEN "unset" ELSE fact.says

\* The schema lets integers through as texts only and no number that JSON does not
\* have, and strips a list.
AnyValueJson(fact) ==
    IF fact.form = "number" THEN "refused" ELSE IF fact.says = "list" THEN "lost" ELSE fact.says
AnyValueToJson(fact, shown) ==
    IF shown # "never" /\ fact.says # "string" THEN "lost" ELSE fact.says
AnyValue(fact, wire, shown) ==
    IF wire = "json" THEN AnyValueJson(fact) ELSE AnyValueToJson(fact, shown)

NormalizeSumOrGauge(fact, wire, shown) ==
    IF wire = "proto" /\ shown = "all" /\ fact.says = "double" THEN "lost" ELSE fact.says
DataPoints(fact) == IF fact.says = "histogram" THEN "dropped" ELSE fact.says

\* decodeLogsRequestProto makes "0" of a time that was not set, and "0" is now.
LongNanosToDate(fact, wire) ==
    IF fact.form = "date" THEN "throws"
    ELSE IF wire = "proto" /\ fact.says = "observed" THEN "now" ELSE fact.says
SeverityToText(fact) == IF fact.form = "enum" THEN "lost" ELSE fact.says

RowSays(fact, wire, shown) ==
    CASE fact.about = "kind" -> KindNumber(fact, wire)
      [] fact.about = "status" -> StatusCode(fact)
      [] fact.about \in {"attribute", "body"} -> AnyValue(fact, wire, shown)
      [] fact.about = "value" -> NormalizeSumOrGauge(fact, wire, shown)
      [] fact.about = "points" -> DataPoints(fact)
      [] fact.about = "time" -> LongNanosToDate(fact, wire)
      [] fact.about = "level" -> SeverityToText(fact)

-----------------------------------------------------------------------------
Answers(code) == posting' = "answered" /\ answer' = code
Stays == UNCHANGED <<export, sends, copiesOf>>
\* What is yet to be inserted when k chunks are.
Items(k) == (k * OtlpChunk + 1)..export.items
NextChunk == {i \in Items(chunk) : i <= (chunk + 1) * OtlpChunk}

\* The batch is posted, for the first time or again.
Post ==
    /\ posting \in {"idle", "answered"} /\ answer \notin {200, 401, 403} /\ sends < MaxSends
    /\ sends' = sends + 1
    /\ posting' = "received" /\ answer' = 0 /\ chunk' = 0
    /\ UNCHANGED <<export, written, copiesOf, interrupted>>

\* The size is looked at before the key.
Received ==
    /\ posting = "received"
    /\ IF export.body = "large" THEN Answers(413)
       ELSE posting' = "authorized" /\ UNCHANGED answer
    /\ Stays /\ UNCHANGED <<chunk, written, interrupted>>

AuthorizeRequest ==
    /\ posting = "authorized"
    /\ \/ export.key = "none" /\ Answers(401)
       \/ export.key = "unknown" /\ Answers(403)
       \/ export.key = "good" /\ posting' = "decoding" /\ UNCHANGED answer
    /\ Stays /\ UNCHANGED <<chunk, written, interrupted>>

\* The key could not be looked up.
LookupFails ==
    /\ posting = "authorized" /\ export.key # "none"
    /\ Answers(500) /\ interrupted' = TRUE
    /\ Stays /\ UNCHANGED <<chunk, written>>

\* The body is decoded and its items made rows, all before the first insert.  A
\* batch may be empty further down, which is answered like any other.
Decode ==
    /\ posting = "decoding" /\ export.body # "broken"
    /\ \E shown \in {"never", "plain", "all"} :
         LET r == RowSays(export.fact, export.wire, shown) IN
         /\ written' = IF r \in {"refused", "throws", "dropped"} THEN written ELSE r
         /\ IF r = "refused" /\ export.items > 0 THEN Answers(400) /\ UNCHANGED interrupted
            ELSE IF r = "throws" /\ export.items > 0 THEN Answers(500) /\ interrupted' = TRUE
            ELSE IF r = "dropped" THEN Answers(200) /\ UNCHANGED interrupted
            ELSE posting' = "inserting" /\ UNCHANGED <<answer, interrupted>>
    /\ Stays /\ UNCHANGED chunk

\* A body that cannot be read as what it claims to be, is empty or has too much.
Malformed ==
    /\ posting = "decoding" /\ export.body = "broken" /\ Answers(400)
    /\ Stays /\ UNCHANGED <<chunk, written, interrupted>>

ChunkStored == copiesOf' = [i \in 1..MaxItems |-> copiesOf[i] + (IF i \in NextChunk THEN 1 ELSE 0)]

InsertChunk ==
    /\ posting = "inserting" /\ NextChunk # {}
    /\ ChunkStored /\ chunk' = chunk + 1
    /\ UNCHANGED <<export, posting, answer, written, sends, interrupted>>

\* Defect: a chunk that fails is passed over.
InsertFailsOn ==
    /\ posting = "inserting" /\ NextChunk # {}
    /\ chunk' = chunk + 1
    /\ UNCHANGED <<export, posting, answer, written, sends, copiesOf, interrupted>>
\* The insert of a chunk throws, whether the database wrote it or not.  What was
\* inserted before stays.
InsertFails ==
    /\ posting = "inserting" /\ NextChunk # {}
    /\ ChunkStored \/ UNCHANGED copiesOf
    /\ Answers(500) /\ interrupted' = TRUE
    /\ UNCHANGED <<export, chunk, written, sends>>

Done ==
    /\ posting = "inserting" /\ NextChunk = {} /\ Answers(200)
    /\ Stays /\ UNCHANGED <<chunk, written, interrupted>>

\* The answer does not reach the sender, who posts the batch again.
AnswerLost ==
    /\ posting = "answered" /\ answer = 200
    /\ answer' = 0 /\ interrupted' = TRUE
    /\ Stays /\ UNCHANGED <<posting, chunk, written>>

OtlpNext ==
    \/ Post \/ Received \/ AuthorizeRequest \/ LookupFails \/ Decode \/ Malformed
    \/ InsertChunk \/ InsertFails \/ Done \/ AnswerLost
-----------------------------------------------------------------------------
OtlpSpec == OtlpInit /\ [][OtlpNext]_otlpVars

OtlpTypeOK ==
    /\ posting \in {"idle", "received", "authorized", "decoding", "inserting", "answered"}
    /\ answer \in {0, 200, 400, 401, 403, 413, 500} /\ sends \in 0..MaxSends
    /\ copiesOf \in [1..MaxItems -> 0..MaxSends] /\ interrupted \in BOOLEAN

\* What an answer tells the sender: with 200 every item that makes a row has one;
\* a refusal leaves nothing of that post; and an item has more than one row only
\* after a post that ended in a 500 or unheard.  A chunk is never written before
\* the ones ahead of it.
AnswerTold ==
    LET rows == {i \in 1..export.items : copiesOf[i] > 0} IN
    /\ answer = 200 => rows \in {{}, 1..export.items}
                       /\ (rows = {} /\ export.items > 0 => export.fact.says = "histogram")
    /\ answer \in {400, 401, 403, 413} /\ rows # {} => interrupted
    /\ \A i \in rows : copiesOf[i] > 1 => interrupted
    /\ \A i, j \in 1..MaxItems : i < j => copiesOf[i] >= copiesOf[j]

\* Where a row says something else than its sender: kinds that JSON gives as the
\* protocol's names or numbers, levels it gives as names, the status words of the
\* project's own exporter, lists in JSON, a protobuf record with an observed time
\* only, and, if defaults show, what is no text or no integer in protobuf.
Misread ==
    LET fact == export.fact IN
    \/ export.wire = "json" /\ \/ fact.about = "kind" /\ fact.form \in {"enum", "number"}
                               \/ fact.about = "level" /\ fact.form = "enum"
                               \/ fact.form = "exporter"
                               \/ fact.says = "list"
    \/ export.wire = "proto" /\ \/ fact.says = "observed"
                                \/ fact.about \in {"attribute", "body", "value"}

\* Decoded from either wire, a row says what its item says, where no known
\* difference applies: the two decoders and the parser agree on every other form.
RowsMean == written # "none" /\ ~Misread => written = export.fact.says

\* What the OTLP endpoints promise their senders.
OtlpKept == AnswerTold /\ RowsMean
=============================================================================
