------------------------------ MODULE Channels ------------------------------
\* A notification channel of a project: its stored configuration, whose secret
\* fields are encrypted with the key the server runs with, and what a test and an
\* alert take from it (api/notifications.ts, alerts/dispatcher.ts, notifiers).
\*
\* A field is told by where its value comes from, never by the value.  The upsert
\* is one step here; ReadThenWrite has its two statements.
EXTENDS FiniteSets

CONSTANTS CipherKeys, NoKey

ASSUME ChannelsAssumption == NoKey \notin CipherKeys

VARIABLES
    channel,    \* the channel looked at
    inEnv,      \* the environment configures the channel as well
    oddValue,   \* its secrets contain two colons, as a URL with a port does
    production, \* NODE_ENV
    key,        \* ENCRYPTION_KEY of the running server, or NoKey
    row,        \* the stored configuration, or NoRow
    sent        \* history: the last delivery, until the next change

channelsVars == <<channel, inEnv, oddValue, production, key, row, sent>>

\* What a notifier reads: the target, the fields it cannot do without, others it
\* uses when they are there, and whether its configuration outranks the target.
Telegram  == [target |-> "chatId", needs |-> {"botToken"}, takes |-> {}, outranks |-> FALSE]
Discord   == [target |-> "webhookUrl", needs |-> {}, takes |-> {}, outranks |-> FALSE]
Email     == [target |-> "to", needs |-> {"host", "user", "pass"}, takes |-> {"from"}, outranks |-> FALSE]
Slack     == [target |-> "webhookUrl", needs |-> {}, takes |-> {}, outranks |-> FALSE]
Webhook   == [target |-> "url", needs |-> {}, takes |-> {"secret"}, outranks |-> TRUE]
Pagerduty == [target |-> "routingKey", needs |-> {}, takes |-> {}, outranks |-> TRUE]
Teams     == [target |-> "webhookUrl", needs |-> {}, takes |-> {}, outranks |-> TRUE]
Ntfy      == [target |-> "topic", needs |-> {}, takes |-> {"server"}, outranks |-> TRUE]
Gotify    == [target |-> "server", needs |-> {"token"}, takes |-> {}, outranks |-> TRUE]
Pushover  == [target |-> "userKey", needs |-> {"token"}, takes |-> {}, outranks |-> TRUE]

Notifiers ==
    {Telegram, Discord, Email, Slack, Webhook, Pagerduty, Teams, Ntfy, Gotify, Pushover}

SensitiveKeys == {"botToken", "webhookUrl", "url", "routingKey", "secret", "token", "pass", "userKey"}

Fields == {channel.target} \cup channel.needs \cup channel.takes
NoRow == [fields |-> {}, under |-> NoKey, enabled |-> FALSE]
Nothing == [by |-> "none", from |-> [f \in {} |-> ""]]

ChannelsInit ==
    /\ channel \in Notifiers /\ inEnv \in BOOLEAN
    /\ oddValue \in BOOLEAN /\ production \in BOOLEAN
    /\ key \in CipherKeys \cup {NoKey} /\ row = NoRow /\ sent = Nothing

\* PUT /api/notifications/:channel replaces the configuration; encryptConfig is
\* the identity without a key, which production refuses.
PutConfig(fields, enabled) ==
    /\ ~(production /\ key = NoKey)
    /\ row' = [fields |-> fields, under |-> key, enabled |-> enabled]
    /\ sent' = Nothing /\ UNCHANGED <<channel, inEnv, oddValue, production, key>>

DeleteConfig ==
    /\ row # NoRow /\ row' = NoRow /\ sent' = Nothing
    /\ UNCHANGED <<channel, inEnv, oddValue, production, key>>

\* A restart with another key, or with the first or none.
Restart(k) ==
    /\ key' = k /\ sent' = Nothing
    /\ UNCHANGED <<channel, inEnv, oddValue, production, row>>

\* The value of a field as it lies in the row.
Stored(f) ==
    IF f \notin row.fields THEN "missing"
    ELSE IF f \in SensitiveKeys /\ row.under # NoKey THEN "cipher" ELSE "saved"

\* Defect: the text is taken for encrypted when a key is set.
DecryptAlways(f) ==
    IF f \notin row.fields \/ f \notin SensitiveKeys \/ key = NoKey THEN Stored(f)
    ELSE IF row.under = key THEN "saved" ELSE "throws"

\* decrypt: text that does not look encrypted is returned as it is, text that was
\* not encrypted with this key is refused.
Decrypt(f) ==
    IF f \notin row.fields \/ f \notin SensitiveKeys \/ key = NoKey THEN Stored(f)
    ELSE IF row.under = key \/ (row.under = NoKey /\ ~oddValue) THEN "saved" ELSE "throws"

\* `value || environment`.
OrEnv(source) == IF source = "missing" /\ inEnv THEN "env" ELSE source

Throws == \E f \in row.fields : Decrypt(f) = "throws"

\* POST /api/notifications/:channel/test, also for a disabled channel.
Test ==
    /\ sent' = IF Throws THEN [Nothing EXCEPT !.by = "throws"]
               ELSE [by |-> "test", from |-> [f \in Fields |-> OrEnv(Decrypt(f))]]
    /\ UNCHANGED <<channel, inEnv, oddValue, production, key, row>>

\* dispatchAlert reads the enabled row as it is stored.  The target is the one
\* the rule names itself or, for a rule without channels, that of the row; then the channel is left
\* out when it has none.
Config(f) == IF row.enabled THEN Stored(f) ELSE "missing"
Target(ownTarget) ==
    LET own == IF ownTarget THEN "rule" ELSE Config(channel.target)
    IN IF channel.outranks /\ Config(channel.target) # "missing"
       THEN Config(channel.target) ELSE own

Dispatch(ownTarget) ==
    /\ sent' = IF Target(ownTarget) = "missing" THEN [Nothing EXCEPT !.by = "nobody"]
               ELSE [by |-> "alert", from |-> [f \in Fields |->
                        IF f = channel.target THEN Target(ownTarget) ELSE OrEnv(Config(f))]]
    /\ UNCHANGED <<channel, inEnv, oddValue, production, key, row>>

ChannelsNext ==
    \/ \E enabled \in BOOLEAN, fields \in SUBSET Fields :
         PutConfig(fields, enabled)
    \/ DeleteConfig
    \/ \E k \in CipherKeys \cup {NoKey} : Restart(k)
    \/ Test
    \/ \E ownTarget \in BOOLEAN : Dispatch(ownTarget)

ChannelsSpec == ChannelsInit /\ [][ChannelsNext]_channelsVars

ChannelsTypeOK ==
    /\ channel \in Notifiers /\ key \in CipherKeys \cup {NoKey}
    /\ row.fields \subseteq Fields /\ row.under \in CipherKeys \cup {NoKey}
    /\ row.under # NoKey => row # NoRow
    /\ sent.by \in {"none", "nobody", "throws", "test", "alert"}
    /\ sent.by \in {"test", "alert"} <=> DOMAIN sent.from = Fields

\* Testing a channel uses what was saved: while the server runs with the key the
\* configuration was saved with, or got its first key since, no stored field is
\* read as ciphertext, replaced by the environment or refused, except a plain
\* secret with two colons once there is a key (api/notifications.ts,
\* encryptConfig and decryptConfig).
TestUsesSaved ==
    /\ sent.by # "none"
    /\ row.under = key \/ (row.under = NoKey /\ ~oddValue)
    => /\ sent.by # "throws"
       /\ sent.by = "test" => \A f \in row.fields : sent.from[f] = "saved"

\* An alert on an enabled channel is sent with what was saved for it
\* (alerts/dispatcher.ts, "Loads channel config from DB first, falls back to
\* .env"); the code never decrypts what it loads.
AlertUsesSaved ==
    sent.by = "alert" /\ row.enabled /\ row.under = key =>
        \A f \in row.fields \ {channel.target} : sent.from[f] = "saved"
=============================================================================
