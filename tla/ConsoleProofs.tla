---------------------------- MODULE ConsoleProofs ----------------------------
(***************************************************************************)
(* Proofs about parts that MCConsole runs, each for every value of its     *)
(* constants: the channels' configurations (Channels), the rates of the    *)
(* infrastructure worker (InfraWorker), the dialogue with a mail server    *)
(* (MailNotifier), the intake of OpenTelemetry (OtlpIntake), the caches    *)
(* and the limits a request passes (ProjectCaches, RateLimits), and the    *)
(* evaluation of an uptime rule (RulesEngine).                             *)
(***************************************************************************)
EXTENDS Channels, InfraWorker, MailNotifier, OtlpIntake, ProjectCaches, RateLimits,
    RulesEngine, FiniteSetTheorems, FunctionTheorems, SequenceTheorems, TLAPS

-----------------------------------------------------------------------------
(***************************************************************************)
(* Channels.                                                               *)
(***************************************************************************)
\* The last delivery is what the stored configuration and the key make of it now:
\* whatever changes one of them forgets it.
ReadAsItIs ==
    /\ sent.by = "throws" => Throws
    /\ sent.by = "test" => sent.from = [f \in Fields |-> OrEnv(Decrypt(f))]

Rows == [fields : SUBSET Fields, under : CipherKeys \cup {NoKey}, enabled : BOOLEAN]

ChannelsInv == ChannelsTypeOK /\ row \in Rows /\ ReadAsItIs

LEMMA SomeFields == Fields # {} /\ Nothing.by = "none" /\ Nothing.from = [f \in {} |-> ""]
                    /\ DOMAIN Nothing.from = {}
  BY DEF Fields, Nothing

LEMMA NoRowIsNone == NoRow \in Rows /\ NoRow.under = NoKey /\ NoRow.fields = {}
  BY DEF NoRow, Rows

\* A change of the configuration or the key.
LEMMA ChangeStep ==
    ASSUME ChannelsInv, sent' = Nothing, UNCHANGED channel,
           key' \in CipherKeys \cup {NoKey}, row' \in Rows,
           row'.under # NoKey => row' # NoRow
    PROVE  ChannelsInv'
<1>1. Fields' = Fields
  BY DEF Fields
<1>2. Rows' = Rows
  BY <1>1 DEF Rows
<1>3. sent'.by = "none" /\ DOMAIN sent'.from # Fields
  BY SomeFields
<1>4. row'.fields \in SUBSET Fields /\ row'.under \in CipherKeys \cup {NoKey}
  BY DEF Rows
<1>5. ChannelsTypeOK'
  BY <1>1, <1>3, <1>4 DEF ChannelsInv, ChannelsTypeOK
<1> QED
  BY <1>2, <1>3, <1>5 DEF ChannelsInv, ReadAsItIs

\* A delivery.
LEMMA DeliveryStep ==
    ASSUME ChannelsInv, UNCHANGED <<channel, inEnv, oddValue, production, key, row>>,
           sent'.by \in {"nobody", "throws", "test", "alert"},
           sent'.by \in {"test", "alert"} <=> DOMAIN sent'.from = Fields,
           sent'.by = "throws" => Throws,
           sent'.by = "test" => sent'.from = [f \in Fields |-> OrEnv(Decrypt(f))]
    PROVE  ChannelsInv'
<1>1. Fields' = Fields /\ Rows' = Rows
  BY DEF Fields, Rows
<1>2. Throws' = Throws
  BY DEF Throws, OrEnv, Decrypt, Stored
<1>3. ChannelsTypeOK'
  BY <1>1 DEF ChannelsInv, ChannelsTypeOK
<1>4. [f \in Fields |-> OrEnv(Decrypt(f))]' = [f \in Fields |-> OrEnv(Decrypt(f))]
  BY <1>1 DEF OrEnv, Decrypt, Stored
<1>5. ReadAsItIs'
  BY <1>2, <1>4 DEF ReadAsItIs
<1> QED
  BY <1>1, <1>3, <1>5 DEF ChannelsInv

LEMMA ChannelsInitInv == ChannelsInit => ChannelsInv
<1> SUFFICES ASSUME ChannelsInit PROVE ChannelsInv
  OBVIOUS
<1>1. sent.by = "none" /\ DOMAIN sent.from # Fields
  BY SomeFields DEF ChannelsInit
<1> QED
  BY <1>1, NoRowIsNone DEF ChannelsInit, ChannelsInv, ChannelsTypeOK, ReadAsItIs

LEMMA ChannelsNextInv == ChannelsInv /\ [ChannelsNext]_channelsVars => ChannelsInv'
<1> SUFFICES ASSUME ChannelsInv, [ChannelsNext]_channelsVars PROVE ChannelsInv'
  OBVIOUS
<1>1. ASSUME NEW enabled \in BOOLEAN, NEW fields \in SUBSET Fields, PutConfig(fields, enabled)
      PROVE  ChannelsInv'
  <2>1. row' = [fields |-> fields, under |-> key, enabled |-> enabled] /\ key' = key
        /\ key \in CipherKeys \cup {NoKey}
    BY <1>1 DEF PutConfig, ChannelsInv, ChannelsTypeOK
  <2>2. row' \in Rows
    BY <2>1 DEF Rows
  <2>3. row'.under # NoKey => row' # NoRow
    BY NoRowIsNone
  <2> QED
    BY <1>1, <2>1, <2>2, <2>3, ChangeStep DEF PutConfig
<1>2. CASE DeleteConfig
  BY <1>2, ChangeStep, NoRowIsNone DEF DeleteConfig, ChannelsInv, ChannelsTypeOK
<1>3. ASSUME NEW k \in CipherKeys \cup {NoKey}, Restart(k) PROVE ChannelsInv'
  BY <1>3, ChangeStep, NoRowIsNone DEF Restart, ChannelsInv
<1>4. CASE Test
  <2>1. CASE Throws
    <3>1. sent'.by = "throws" /\ DOMAIN sent'.from # Fields
      BY <1>4, <2>1, SomeFields DEF Test, Nothing
    <3> QED
      BY <1>4, <2>1, <3>1, DeliveryStep DEF Test
  <2>2. CASE ~Throws
    <3>1. sent'.by = "test" /\ sent'.from = [f \in Fields |-> OrEnv(Decrypt(f))]
      BY <1>4, <2>2 DEF Test
    <3> QED
      BY <1>4, <3>1, DeliveryStep DEF Test
  <2> QED
    BY <2>1, <2>2
<1>5. ASSUME NEW ownTarget \in BOOLEAN, Dispatch(ownTarget) PROVE ChannelsInv'
  <2>1. \/ sent'.by = "nobody" /\ DOMAIN sent'.from # Fields
        \/ sent'.by = "alert" /\ DOMAIN sent'.from = Fields
    BY <1>5, SomeFields DEF Dispatch, Nothing
  <2> QED
    BY <1>5, <2>1, DeliveryStep DEF Dispatch
<1>6. CASE UNCHANGED channelsVars
  <2>1. Fields' = Fields /\ Throws' = Throws /\ Rows' = Rows
        /\ [f \in Fields |-> OrEnv(Decrypt(f))]' = [f \in Fields |-> OrEnv(Decrypt(f))]
    BY <1>6 DEF channelsVars, Fields, Throws, OrEnv, Decrypt, Stored, Rows
  <2> QED
    BY <1>6, <2>1 DEF channelsVars, ChannelsInv, ChannelsTypeOK, ReadAsItIs
<1> QED
  BY <1>1, <1>2, <1>3, <1>4, <1>5, <1>6 DEF ChannelsNext

\* What a test makes of a stored field under the key it was saved with.
LEMMA SavedIsRead ==
    ASSUME ChannelsInv, row.under = key \/ (row.under = NoKey /\ ~oddValue), NEW f \in row.fields
    PROVE  Decrypt(f) = "saved" /\ OrEnv(Decrypt(f)) = "saved"
  BY DEF Decrypt, Stored, OrEnv

LEMMA ChannelsKeep == ChannelsSpec => []ChannelsInv
  BY ChannelsInitInv, ChannelsNextInv, PTL DEF ChannelsSpec

\* Type correctness of the notification channels.
THEOREM ChannelsTypeCorrect == ChannelsSpec => []ChannelsTypeOK
<1>1. ChannelsInv => ChannelsTypeOK
  BY DEF ChannelsInv
<1> QED
  BY <1>1, ChannelsKeep, PTL

\* Testing a channel uses what was saved, whatever the keys the server was restarted
\* with in between (api/notifications.ts, encryptConfig and decryptConfig).
THEOREM TestsRead == ChannelsSpec => []TestUsesSaved
<1>1. ChannelsInv => TestUsesSaved
  <2> SUFFICES ASSUME ChannelsInv, row.under = key \/ (row.under = NoKey /\ ~oddValue)
               PROVE  /\ sent.by # "throws"
                      /\ sent.by = "test" => \A f \in row.fields : sent.from[f] = "saved"
    BY DEF TestUsesSaved
  <2>1. \A f \in row.fields : Decrypt(f) = "saved" /\ OrEnv(Decrypt(f)) = "saved"
    BY SavedIsRead
  <2> QED
    BY <2>1 DEF ChannelsInv, ReadAsItIs, Throws, Rows
<1> QED
  BY <1>1, ChannelsKeep, PTL

\* What an alert was sent with is what lies in the row, as it lies there.
AlertsSendTheRow ==
    sent.by = "alert" /\ row.enabled =>
        \A f \in row.fields \ {channel.target} : sent.from[f] = Stored(f)

LEMMA AlertsStep ==
    ChannelsInv /\ AlertsSendTheRow /\ [ChannelsNext]_channelsVars => AlertsSendTheRow'
<1> SUFFICES ASSUME ChannelsInv, AlertsSendTheRow, [ChannelsNext]_channelsVars
             PROVE  AlertsSendTheRow'
  OBVIOUS
<1>1. CASE sent'.by # "alert"
  BY <1>1 DEF AlertsSendTheRow
<1>2. ASSUME NEW ownTarget \in BOOLEAN, Dispatch(ownTarget), sent'.by = "alert", row.enabled
      PROVE  AlertsSendTheRow'
  <2>1. /\ sent' = [by |-> "alert", from |-> [f \in Fields |->
                      IF f = channel.target THEN Target(ownTarget) ELSE OrEnv(Config(f))]]
        /\ row' = row /\ channel' = channel
    BY <1>2 DEF Dispatch, Nothing
  <2>2. \A f \in row.fields \ {channel.target} :
           f \in Fields /\ sent'.from[f] = OrEnv(Config(f))
    BY <2>1 DEF ChannelsInv, Rows
  <2>3. \A f \in row.fields : OrEnv(Config(f)) = Stored(f)
    BY <1>2 DEF OrEnv, Config, Stored
  <2>4. \A f : Stored(f)' = Stored(f)
    BY <2>1 DEF Stored
  <2> QED
    BY <2>1, <2>2, <2>3, <2>4 DEF AlertsSendTheRow
<1>3. CASE UNCHANGED channelsVars
  BY <1>3 DEF channelsVars, AlertsSendTheRow, Stored
<1>4. CASE \/ \E enabled \in BOOLEAN, fields \in SUBSET Fields : PutConfig(fields, enabled)
           \/ DeleteConfig
           \/ \E k \in CipherKeys \cup {NoKey} : Restart(k)
           \/ Test
  <2>1. sent' = Nothing \/ Test
    BY <1>4 DEF PutConfig, DeleteConfig, Restart
  <2>2. Test => sent'.by \in {"throws", "test"}
    BY DEF Test, Nothing
  <2> QED
    BY <2>1, <2>2, <1>1, SomeFields
<1>5. CASE \E ownTarget \in BOOLEAN : Dispatch(ownTarget)
  <2>1. row' = row
    BY <1>5 DEF Dispatch
  <2> QED
    BY <1>1, <1>2, <1>5, <2>1 DEF AlertsSendTheRow
<1> QED
  BY <1>3, <1>4, <1>5 DEF ChannelsNext

\* The row holds nothing encrypted that a notifier reads besides the target: it was saved
\* by a server without a key, or the channel has no such secret (Discord and Slack).
HoldsNoCipher == row.under = NoKey \/ row.fields \cap SensitiveKeys \subseteq {channel.target}

\* An alert is sent with what was saved wherever the row holds nothing encrypted, whatever
\* restarts and changes came before: reading the row as it lies there is all that is wrong
\* with what dispatchAlert loads (alerts/dispatcher.ts, dispatchAlert).
THEOREM AlertsUsePlainRows == ChannelsSpec => [](HoldsNoCipher => AlertUsesSaved)
<1>1. ChannelsInit => AlertsSendTheRow
  BY SomeFields DEF ChannelsInit, AlertsSendTheRow
<1>2. ChannelsSpec => []AlertsSendTheRow
  BY <1>1, AlertsStep, ChannelsKeep, PTL DEF ChannelsSpec
<1>3. AlertsSendTheRow => (HoldsNoCipher => AlertUsesSaved)
  BY DEF AlertsSendTheRow, HoldsNoCipher, AlertUsesSaved, Stored
<1> QED
  BY <1>2, <1>3, PTL
-----------------------------------------------------------------------------
(***************************************************************************)
(* InfraWorker.                                                            *)
(***************************************************************************)
InfraTyped ==
    /\ instant \in Nat /\ received \in Nat /\ base \in Nat /\ restarts \in Nat
    /\ rated \in Nat /\ newest \in Nat /\ overtaken \in BOOLEAN
    /\ collection \in [Collectors ->
           [who : {"nobody", "cycle", "request"}, at : {"idle", "asking", "answered", "inserting"},
            bytes : Nat, moment : Nat]]
    /\ prevNet # Never => prevNet.bytes \in Nat

\* The moments there have been: each byte and each restart makes one.
Moment == received + restarts

\* What the container had received and what it counted from at every moment there
\* has been: neither ever goes back.
Recalls(total, from) ==
    /\ total \in [Nat -> Nat] /\ from \in [Nat -> Nat]
    /\ total[Moment] = received /\ from[Moment] = base
    /\ \A n \in 0..Moment : from[n] <= total[n]
    /\ \A k, n \in 0..Moment : k <= n => total[k] <= total[n] /\ from[k] <= from[n]

\* Every answer on its way is what the counter read at its moment, and so is the
\* reading before, unless one was overtaken; then the rates have not accounted
\* for more than had been received by then.
Accounts(total, from) ==
    /\ newest <= Moment
    /\ \A c \in Collectors : collection[c].at = "answered" =>
           /\ collection[c].moment <= Moment
           /\ collection[c].bytes = total[collection[c].moment] - from[collection[c].moment]
    /\ ~overtaken => /\ rated <= total[newest]
                     /\ prevNet # Never => prevNet.bytes = total[newest] - from[newest]

InfraInv ==
    /\ InfraTypeOK /\ InfraTyped
    /\ \E total, from \in [Nat -> Nat] : Recalls(total, from) /\ Accounts(total, from)

LEMMA InfraInitInv == InfraInit => InfraInv
<1> SUFFICES ASSUME InfraInit PROVE InfraInv
  OBVIOUS
<1> USE InfraAssumption DEF InfraAssumption, InfraInit, Resting
<1>1. InfraTyped
  BY DEF InfraTyped
<1>2. InfraTypeOK
  BY DEF InfraTypeOK
<1> DEFINE zero == [n \in Nat |-> 0]
<1>3. zero \in [Nat -> Nat] /\ Moment = 0
  BY DEF Moment
<1>4. Recalls(zero, zero) /\ Accounts(zero, zero)
  BY <1>3 DEF Recalls, Accounts
<1> QED
  BY <1>1, <1>2, <1>3, <1>4 DEF InfraInv

\* The container stands still while a collection or the worker takes a step that
\* takes up no answer.
LEMMA StillStep ==
    ASSUME InfraInv, UNCHANGED <<machine, rates>>, InfraTypeOK', InfraTyped',
           \A c \in Collectors : collection'[c].at = "answered" =>
               \/ collection'[c] = collection[c]
               \/ collection'[c].bytes = received - base /\ collection'[c].moment = Moment
    PROVE  InfraInv'
<1>1. PICK total, from \in [Nat -> Nat] : Recalls(total, from) /\ Accounts(total, from)
  BY DEF InfraInv
<1>2. Moment' = Moment
  BY DEF machine, Moment
<1>3. Moment \in Nat
  BY DEF Moment, InfraInv, InfraTyped
<1>4. Recalls(total, from)'
  BY <1>1, <1>2 DEF Recalls, machine
<1>5. \A c \in Collectors : collection'[c].at = "answered" =>
           /\ collection'[c].moment <= Moment
           /\ collection'[c].bytes = total[collection'[c].moment] - from[collection'[c].moment]
  BY <1>1, <1>3 DEF Recalls, Accounts
<1>6. Accounts(total, from)'
  BY <1>1, <1>2, <1>5 DEF Accounts, rates
<1> QED
  BY <1>1, <1>4, <1>6 DEF InfraInv

\* The container makes another moment.
LEMMA MachineStep ==
    ASSUME InfraInv, UNCHANGED <<collection, rates>>, InfraTypeOK', InfraTyped',
           Moment' = Moment + 1, received' >= received, base' >= base, base' <= received'
    PROVE  InfraInv'
<1>1. PICK total, from \in [Nat -> Nat] : Recalls(total, from) /\ Accounts(total, from)
  BY DEF InfraInv
<1>2. Moment \in Nat /\ received \in Nat /\ base \in Nat
      /\ received' \in Nat /\ base' \in Nat /\ newest \in Nat
  BY DEF Moment, InfraInv, InfraTyped
<1>3. PICK T, F \in [Nat -> Nat] : /\ T = [total EXCEPT ![Moment + 1] = received']
                                  /\ F = [from EXCEPT ![Moment + 1] = base']
  <2>1. /\ [total EXCEPT ![Moment + 1] = received'] \in [Nat -> Nat]
        /\ [from EXCEPT ![Moment + 1] = base'] \in [Nat -> Nat]
    BY <1>1, <1>2
  <2> QED
    BY <2>1
<1>4. T[Moment + 1] = received' /\ F[Moment + 1] = base'
  BY <1>1, <1>2, <1>3
<1>5. \A n \in 0..Moment : T[n] = total[n] /\ F[n] = from[n]
  BY <1>1, <1>2, <1>3
<1>6. \A n \in 0..Moment : total[n] <= received /\ from[n] <= base
  BY <1>1, <1>2 DEF Recalls
<1>7. \A n \in 0..(Moment + 1) : n \in 0..Moment \/ n = Moment + 1
  BY <1>2
<1>8. \A n \in Nat : T[n] \in Nat /\ F[n] \in Nat /\ total[n] \in Nat /\ from[n] \in Nat
  BY <1>1, <1>3
<1>9. Recalls(T, F)'
  <2>1. \A n \in 0..(Moment + 1) : F[n] <= T[n]
    BY <1>1, <1>4, <1>5, <1>7 DEF Recalls
  <2>2. \A k, n \in 0..(Moment + 1) : k <= n => T[k] <= T[n] /\ F[k] <= F[n]
    <3> SUFFICES ASSUME NEW k \in 0..(Moment + 1), NEW n \in 0..(Moment + 1), k <= n
                 PROVE  T[k] <= T[n] /\ F[k] <= F[n]
      OBVIOUS
    <3>1. CASE n \in 0..Moment
      <4>1. k \in 0..Moment
        BY <1>2, <3>1
      <4> QED
        BY <1>1, <1>5, <3>1, <4>1 DEF Recalls
    <3>2. CASE n = Moment + 1 /\ k \in 0..Moment
      BY <1>2, <1>4, <1>5, <1>6, <1>8, <3>2
    <3>3. CASE n = Moment + 1 /\ k = Moment + 1
      BY <1>2, <1>4, <3>3
    <3> QED
      BY <1>7, <3>1, <3>2, <3>3
  <2> QED
    BY <1>3, <1>4, <2>1, <2>2 DEF Recalls
<1>10. Accounts(T, F)'
  <2>1. newest \in 0..Moment
    BY <1>1, <1>2 DEF Accounts
  <2>2. \A c \in Collectors : collection[c].at = "answered" => collection[c].moment \in 0..Moment
    BY <1>1, <1>2 DEF Accounts, InfraInv, InfraTyped
  <2> QED
    BY <1>1, <1>2, <1>5, <2>1, <2>2 DEF Accounts, rates
<1> QED
  BY <1>3, <1>9, <1>10 DEF InfraInv

\* An answer is taken up.
LEMMA CollectStep ==
    ASSUME InfraInv, NEW c \in Collectors, CollectDockerStats(c), InfraTypeOK', InfraTyped'
    PROVE  InfraInv'
<1>1. PICK total, from \in [Nat -> Nat] : Recalls(total, from) /\ Accounts(total, from)
  BY DEF InfraInv
<1> DEFINE m == collection[c].moment
<1>2. Moment' = Moment
  BY DEF CollectDockerStats, machine, Moment
<1>3. Moment \in Nat /\ m \in Nat /\ newest \in Nat /\ rated \in Nat /\ m <= Moment /\ newest <= Moment
      /\ collection[c].bytes \in Nat /\ collection[c].bytes = total[m] - from[m]
  BY <1>1 DEF Moment, InfraInv, InfraTyped, CollectDockerStats, Accounts
<1>4. Recalls(total, from)'
  BY <1>1, <1>2 DEF Recalls, CollectDockerStats, machine
<1>5. \A d \in Collectors : collection'[d].at = "answered" => collection'[d] = collection[d]
  BY DEF CollectDockerStats, Becomes, Resting, InfraInv, InfraTyped
<1>6. newest' <= Moment
  BY <1>3 DEF CollectDockerStats
<1>7. ASSUME ~overtaken'
      PROVE  /\ rated' <= total[newest']
             /\ prevNet' # Never => prevNet'.bytes = total[newest'] - from[newest']
  <2> DEFINE overtakes == m < newest
  <2>0. overtaken' = (overtaken \/ overtakes) /\ newest' = IF m > newest THEN m ELSE newest
    BY DEF CollectDockerStats
  <2>a. ~overtaken /\ ~overtakes
    <3> HIDE DEF overtakes
    <3> QED
      BY <1>7, <2>0
  <2>1. ~overtaken /\ newest <= m /\ newest' = m
    BY <1>3, <2>0, <2>a
  <2>2. total[newest] <= total[m] /\ from[newest] <= from[m] /\ total[m] \in Nat /\ from[m] \in Nat
        /\ total[newest] \in Nat /\ from[newest] \in Nat
    BY <1>1, <1>3, <2>1 DEF Recalls
  <2>3. prevNet'.bytes = total[m] - from[m]
    BY <1>3 DEF CollectDockerStats, Remembered
  <2>4. rated + Gained(collection[c].bytes) <= total[m]
    <3>1. rated <= total[newest]
      BY <1>1, <2>1 DEF Accounts
    <3>2. CASE Gained(collection[c].bytes) = 0
      BY <1>3, <2>2, <3>1, <3>2
    <3>3. CASE prevNet # Never /\ Gained(collection[c].bytes) = collection[c].bytes - prevNet.bytes
      <4>1. prevNet.bytes = total[newest] - from[newest]
        BY <1>1, <2>1, <3>3 DEF Accounts
      <4> QED
        BY <1>3, <2>2, <3>1, <3>3, <4>1
    <3> QED
      BY <3>2, <3>3 DEF Gained
  <2> QED
    BY <2>1, <2>3, <2>4 DEF CollectDockerStats
<1>8. Accounts(total, from)'
  BY <1>1, <1>2, <1>5, <1>6, <1>7 DEF Accounts
<1> QED
  BY <1>1, <1>4, <1>8 DEF InfraInv

LEMMA InfraNextInv == InfraInv /\ [InfraNext]_infraVars => InfraInv'
<1> SUFFICES ASSUME InfraInv, [InfraNext]_infraVars PROVE InfraInv'
  OBVIOUS
<1> USE InfraAssumption DEF InfraAssumption
<1>1. ASSUME NEW c \in Collectors, \/ StartInfraWorker(c) \/ InfraTimerFires(c) \/ GetContainers(c)
      PROVE  InfraInv'
  <2>1. InfraTyped'
    <3>1. PICK who \in {"cycle", "request"} : Begins(c, who)
      BY <1>1 DEF StartInfraWorker, InfraTimerFires, GetContainers
    <3>2. [Resting EXCEPT !.who = who, !.at = "asking"] \in
              [who : {"nobody", "cycle", "request"}, at : {"idle", "asking", "answered", "inserting"},
               bytes : Nat, moment : Nat]
      BY DEF Resting
    <3>3. UNCHANGED <<instant, machine, rates>>
      BY <1>1 DEF StartInfraWorker, InfraTimerFires, GetContainers
    <3> QED
      BY <3>1, <3>2, <3>3 DEF Begins, Becomes, machine, rates, InfraInv, InfraTyped
  <2>2. InfraTypeOK'
    BY <1>1, <2>1 DEF StartInfraWorker, InfraTimerFires, GetContainers, machine,
                InfraInv, InfraTyped, InfraTypeOK
  <2>3. UNCHANGED <<machine, rates>>
    BY <1>1 DEF StartInfraWorker, InfraTimerFires, GetContainers
  <2>4. \A d \in Collectors : collection'[d].at = "answered" => collection'[d] = collection[d]
    BY <1>1 DEF StartInfraWorker, InfraTimerFires, GetContainers, Begins, Becomes, Resting,
                InfraInv, InfraTyped
  <2> QED
    BY <2>1, <2>2, <2>3, <2>4, StillStep
<1>2. ASSUME NEW c \in Collectors, CalculateNetworkIo(c) PROVE InfraInv'
  <2>1. InfraTyped'
    <3>1. received - base \in Nat /\ received + restarts \in Nat
      BY DEF InfraInv, InfraTyped, InfraTypeOK
    <3> QED
      BY <1>2, <3>1 DEF CalculateNetworkIo, Becomes, machine, rates, InfraInv, InfraTyped
  <2>2. InfraTypeOK'
    BY <1>2, <2>1 DEF CalculateNetworkIo, machine, InfraInv, InfraTyped, InfraTypeOK
  <2>3. \A d \in Collectors : collection'[d].at = "answered" =>
               \/ collection'[d] = collection[d]
               \/ collection'[d].bytes = received - base /\ collection'[d].moment = Moment
    BY <1>2 DEF CalculateNetworkIo, Becomes, Moment, InfraInv, InfraTyped
  <2> QED
    BY <1>2, <2>1, <2>2, <2>3, StillStep DEF CalculateNetworkIo
<1>3. ASSUME NEW c \in Collectors, DockerFails(c) \/ RecordWorkerRun(c) PROVE InfraInv'
  <2>1. InfraTyped'
    BY <1>3 DEF DockerFails, RecordWorkerRun, Becomes, Resting, machine, rates, InfraInv, InfraTyped
  <2>2. InfraTypeOK'
    BY <1>3, <2>1 DEF DockerFails, RecordWorkerRun, machine, InfraInv, InfraTyped, InfraTypeOK
  <2>3. \A d \in Collectors : collection'[d].at = "answered" => collection'[d] = collection[d]
    BY <1>3 DEF DockerFails, RecordWorkerRun, Becomes, Resting, InfraInv, InfraTyped
  <2>4. UNCHANGED <<machine, rates>>
    BY <1>3 DEF DockerFails, RecordWorkerRun
  <2> QED
    BY <2>1, <2>2, <2>3, <2>4, StillStep
<1>4. ASSUME NEW c \in Collectors, CollectDockerStats(c) PROVE InfraInv'
  <2>1. InfraTyped'
    <3>1. Gained(collection[c].bytes) \in Nat
      BY DEF Gained, InfraInv, InfraTyped
    <3>2. rated' \in Nat /\ newest' \in Nat /\ overtaken' \in BOOLEAN /\ prevNet'.bytes \in Nat
      BY <1>4, <3>1 DEF CollectDockerStats, Remembered, InfraInv, InfraTyped
    <3> QED
      BY <1>4, <3>2 DEF CollectDockerStats, Becomes, Resting, machine, InfraInv, InfraTyped
  <2>2. InfraTypeOK'
    BY <1>4, <2>1 DEF CollectDockerStats, machine, InfraInv, InfraTyped, InfraTypeOK
  <2> QED
    BY <1>4, <2>1, <2>2, CollectStep
<1>5. CASE StopInfraWorker
  <2>1. InfraTyped' /\ InfraTypeOK'
    BY <1>5 DEF StopInfraWorker, machine, rates, InfraInv, InfraTyped, InfraTypeOK
  <2> QED
    BY <1>5, <2>1, StillStep DEF StopInfraWorker
<1>6. CASE ContainerReceives
  <2>1. InfraTyped' /\ InfraTypeOK' /\ Moment' = Moment + 1
    BY <1>6 DEF ContainerReceives, rates, InfraInv, InfraTyped, InfraTypeOK, Moment
  <2>2. received' >= received /\ base' >= base /\ base' <= received'
    BY <1>6 DEF ContainerReceives, InfraInv, InfraTyped, InfraTypeOK
  <2> QED
    BY <1>6, <2>1, <2>2, MachineStep DEF ContainerReceives
<1>7. CASE ContainerRestarts
  <2>1. InfraTyped' /\ InfraTypeOK' /\ Moment' = Moment + 1
    BY <1>7 DEF ContainerRestarts, rates, InfraInv, InfraTyped, InfraTypeOK, Moment
  <2>2. received' >= received /\ base' >= base /\ base' <= received'
    BY <1>7 DEF ContainerRestarts, InfraInv, InfraTyped, InfraTypeOK
  <2> QED
    BY <1>7, <2>1, <2>2, MachineStep DEF ContainerRestarts
<1>8. CASE TimeGoesOn
  <2>1. InfraTyped' /\ InfraTypeOK'
    BY <1>8 DEF TimeGoesOn, machine, rates, InfraInv, InfraTyped, InfraTypeOK
  <2> QED
    BY <1>8, <2>1, StillStep DEF TimeGoesOn
<1>9. CASE UNCHANGED infraVars
  <2>1. InfraTyped' /\ InfraTypeOK' /\ UNCHANGED <<machine, rates, collection>>
    BY <1>9 DEF infraVars, machine, rates, InfraInv, InfraTyped, InfraTypeOK
  <2> QED
    BY <2>1, StillStep
<1> QED
  BY <1>1, <1>2, <1>3, <1>4, <1>5, <1>6, <1>7, <1>8, <1>9 DEF InfraNext

LEMMA InfraKeeps == InfraSpec => []InfraInv
  BY InfraInitInv, InfraNextInv, PTL DEF InfraSpec

\* Type correctness of the infrastructure worker.
THEOREM InfraTypeCorrect == InfraSpec => []InfraTypeOK
<1>1. InfraInv => InfraTypeOK
  BY DEF InfraInv
<1> QED
  BY <1>1, InfraKeeps, PTL

\* The rates account for no byte twice, however many collections overlap and however
\* often the container is restarted (monitoring/docker-collector.ts, prevNetStats).
THEOREM RatesAccount == InfraSpec => []RatesAddUp
<1>1. InfraInv => RatesAddUp
  <2> SUFFICES ASSUME InfraInv, ~overtaken PROVE rated <= received
    BY DEF RatesAddUp, InfraInv, InfraTyped
  <2>1. PICK total, from \in [Nat -> Nat] : Recalls(total, from) /\ Accounts(total, from)
    BY DEF InfraInv
  <2>2. Moment \in Nat /\ newest \in 0..Moment /\ received \in Nat /\ rated \in Nat
    BY <2>1 DEF Accounts, Moment, InfraInv, InfraTyped
  <2>3. rated <= total[newest] /\ total[newest] <= received /\ total[newest] \in Nat
    BY <2>1, <2>2 DEF Recalls, Accounts
  <2> QED
    BY <2>2, <2>3
<1> QED
  BY <1>1, InfraKeeps, PTL
-----------------------------------------------------------------------------
(***************************************************************************)
(* MailNotifier.                                                           *)
(***************************************************************************)
Parts == [code : {"220", "221", "235", "250", "334", "354", "5xx", "text"}, says : BOOLEAN]

Commands == {Steps[k] : k \in 1..11}

\* What the server has said and the client has not read yet.
Stream == queue \o coming

\* The commands that follow DATA.
Late == {"body", "QUIT"}

\* The server has taken the message, or what it said of it contains "250".
Taken == accepted \/ quoting

MailTyped ==
    /\ outbox \in Seq(Commands) /\ coming \in Seq(Parts) /\ queue \in Seq(Parts)
    /\ accepted \in BOOLEAN /\ parted \in BOOLEAN /\ broken \in BOOLEAN
    /\ mail \in {"off", "connecting"} => step = 1 /\ outbox = <<>> /\ coming = <<>> /\ queue = <<>>

\* Commands are sent once and in order, and answered in order: what follows the
\* answer "354" to DATA is about the message, and so is all once that was read.
BodyAfterData ==
    /\ \A i \in 1..Len(outbox) : outbox[i] = "DATA" => \A j \in (i + 1)..Len(outbox) : outbox[j] \in Late
    /\ \A i \in 1..Len(Stream) : Stream[i].code = "354" =>
           /\ step >= 9
           /\ \A j \in 1..Len(outbox) : outbox[j] \in Late
           /\ \A j \in (i + 1)..Len(Stream) : Stream[j].says => Taken
    /\ step >= 10 => /\ \A j \in 1..Len(outbox) : outbox[j] \in Late
                     /\ \A j \in 1..Len(Stream) : Stream[j].says => Taken
    /\ step = 11 => Taken
    /\ accepted => step >= 10

\* While no reply has come in parts, client and server take turns.
InTurns ==
    ~parted =>
        /\ Len(Stream) + Len(outbox) <= 1
        /\ outbox # <<>> => outbox[1] = Steps[step]
        /\ accepted /\ step = 10 => outbox = <<>>
        /\ mail = "open" /\ accepted /\ step = 10 => \A j \in 1..Len(Stream) : Stream[j].says
        /\ mail = "rejected" => ~accepted /\ outbox = <<>>

MailInv == MailTypeOK /\ MailTyped /\ BodyAfterData /\ InTurns

LEMMA StepsAre ==
    /\ Len(Steps) = 11 /\ Steps[1] = "greeting"
    /\ \A k \in 1..11 : /\ Steps[k] \in Commands
                        /\ Steps[k] = "DATA" <=> k = 9
                        /\ Steps[k] = "body" <=> k = 10
                        /\ Steps[k] = "QUIT" <=> k = 11
                        /\ Steps[k] = "EHLO" <=> k = 2
<1>1. Len(Steps) = 11 /\ Steps[1] = "greeting" /\ Steps[2] = "EHLO" /\ Steps[3] = "HELO"
      /\ Steps[4] = "AUTH" /\ Steps[5] = "user" /\ Steps[6] = "pass" /\ Steps[7] = "MAIL"
      /\ Steps[8] = "RCPT" /\ Steps[9] = "DATA" /\ Steps[10] = "body" /\ Steps[11] = "QUIT"
  BY DEF Steps
<1>2. \A k \in 1..11 : k = 1 \/ k = 2 \/ k = 3 \/ k = 4 \/ k = 5 \/ k = 6 \/ k = 7 \/ k = 8
                       \/ k = 9 \/ k = 10 \/ k = 11
  OBVIOUS
<1> SUFFICES ASSUME NEW k \in 1..11
             PROVE  /\ Steps[k] \in Commands
                    /\ Steps[k] = "DATA" <=> k = 9
                    /\ Steps[k] = "body" <=> k = 10
                    /\ Steps[k] = "QUIT" <=> k = 11
                    /\ Steps[k] = "EHLO" <=> k = 2
  BY <1>1
<1>3. Steps[k] \in Commands
  BY DEF Commands
<1>4. Steps[k] = "DATA" <=> k = 9
  BY <1>1, <1>2
<1>5. Steps[k] = "body" <=> k = 10
  BY <1>1, <1>2
<1>6. Steps[k] = "QUIT" <=> k = 11
  BY <1>1, <1>2
<1>7. Steps[k] = "EHLO" <=> k = 2
  BY <1>1, <1>2
<1> QED
  BY <1>3, <1>4, <1>5, <1>6, <1>7

LEMMA StreamTyped == MailTyped => Stream \in Seq(Parts) /\ Len(Stream) = Len(queue) + Len(coming)
  BY DEF MailTyped, Stream

\* The commands waiting for an answer were sent by the step reached.
LEMMA SentBefore ==
    ASSUME MailTypeOK, NEW i \in 1..Len(outbox)
    PROVE  /\ outbox[i] = "DATA" => step >= 9
           /\ outbox[i] = "body" => step >= 10
           /\ outbox[i] = "QUIT" => step = 11
<1>1. PICK k \in 1..step : outbox[i] = Steps[k]
  BY DEF MailTypeOK
<1>2. k \in 1..11 /\ step \in 1..11
  BY StepsAre DEF MailTypeOK
<1> QED
  BY <1>1, <1>2, StepsAre

LEMMA MailInitInv == MailInit => MailInv
<1> SUFFICES ASSUME MailInit PROVE MailInv
  OBVIOUS
<1>1. Stream = <<>>
  BY DEF MailInit, Stream
<1>2. MailTypeOK
  <2>1. declined \in BOOLEAN /\ quoting \in BOOLEAN
    BY DEF MailInit
  <2>2. mail \in {"off", "connecting"} /\ step \in 1..Len(Steps) /\ Len(outbox) = 0
    BY StepsAre DEF MailInit
  <2> QED
    BY <2>1, <2>2 DEF MailTypeOK
<1>3. MailTyped
  <2>1. <<>> \in Seq(Commands) /\ <<>> \in Seq(Parts)
    OBVIOUS
  <2> QED
    BY <2>1 DEF MailInit, MailTyped
<1> QED
  BY <1>1, <1>2, <1>3 DEF MailInit, MailInv, BodyAfterData, InTurns

\* The server answers.
LEMMA RepliesStep ==
    ASSUME MailInv, NEW good \in BOOLEAN, NEW says \in BOOLEAN, NEW cut \in {"whole", "inside", "lines"},
           NEW later \in BOOLEAN, Replies(good, says, cut, later)
    PROVE  MailInv'
<1> DEFINE s == Head(outbox)
           part == IF good THEN Part(Code(s), Code(s) = "250") ELSE Part("5xx", says)
           C == Cut(part, cut, later)
<1>1. /\ outbox # <<>> /\ outbox' = Tail(outbox) /\ coming' = coming \o C
      /\ accepted' = (accepted \/ (good /\ s = "body"))
      /\ quoting' = (quoting \/ ((says \/ later) /\ s \in {"DATA", "body"}))
      /\ parted' = (parted \/ cut # "whole")
      /\ good => ~says
      /\ UNCHANGED <<mail, step, queue, broken>> /\ mail # "off"
  BY DEF Replies
<1>2. /\ part \in Parts /\ (part.code = "354" => good /\ s = "DATA")
      /\ part.says \/ part.code = "250" => (good /\ Code(s) = "250") \/ says
  BY DEF Part, Parts, Code
<1>3. (part.says \/ part.code = "250" \/ later) /\ s \in Late => s = "QUIT" \/ ((good \/ says \/ later) /\ s = "body")
  BY <1>2 DEF Late
<1>4. part.says => part.code # "354"
  BY <1>2 DEF Part, Code
<1>a. good /\ s = "body" => part.says
  BY DEF Part, Code
<1> HIDE DEF part
<1>5. /\ C \in Seq(Parts) /\ Len(C) \in {1, 2} /\ (cut = "whole" => Len(C) = 1)
      /\ \A i \in 1..Len(C) : /\ C[i].code \in {part.code, "text"}
                              /\ C[i].says => part.says \/ part.code = "250" \/ later
      /\ C[1] = part
  <2> DEFINE text == Part("text", later)
             line == Part(part.code, part.code = "250" \/ later)
  <2>1. text \in Parts /\ text.code = "text" /\ (text.says => later)
    BY DEF Part, Parts
  <2>2. part \in Parts /\ line \in Parts /\ line.code = part.code /\ (line.says => part.code = "250" \/ later)
    BY <1>2 DEF Part, Parts
  <2>3. C = <<part>> \/ (cut # "whole" /\ C = <<part, text>>) \/ (cut # "whole" /\ C = <<part, line>>)
    BY DEF Cut
  <2> HIDE DEF text, line, C
  <2>4. CASE C = <<part>>
    BY <2>2, <2>4
  <2>5. CASE cut # "whole" /\ C = <<part, text>>
    BY <2>1, <2>2, <2>5
  <2>6. CASE cut # "whole" /\ C = <<part, line>>
    BY <2>2, <2>6
  <2> QED
    BY <2>3, <2>4, <2>5, <2>6
<1> HIDE DEF C
<1>6. /\ outbox \in Seq(Commands) /\ Len(outbox) \in Nat /\ Len(outbox) >= 1 /\ s = outbox[1]
      /\ Len(outbox') = Len(outbox) - 1
      /\ \A i \in 1..Len(outbox') : i + 1 \in 1..Len(outbox) /\ outbox'[i] = outbox[i + 1]
  BY <1>1 DEF MailInv, MailTyped
<1> HIDE DEF s
<1>7. MailTypeOK'
  <2>1. declined' \in BOOLEAN /\ quoting' \in BOOLEAN
    BY DEF Replies, MailInv, MailTypeOK
  <2>2. \A i \in 1..Len(outbox') : outbox'[i] \in {Steps[k] : k \in 1..step}
    BY <1>6 DEF MailInv, MailTypeOK
  <2> QED
    BY <1>1, <2>1, <2>2 DEF MailInv, MailTypeOK
<1>8. MailTyped'
  <2>1. outbox' \in Seq(Commands) /\ coming' \in Seq(Parts)
    BY <1>1, <1>5, <1>6 DEF MailInv, MailTyped
  <2>2. mail \notin {"off", "connecting"}
    BY <1>1 DEF MailInv, MailTyped
  <2> QED
    BY <1>1, <2>1, <2>2 DEF MailInv, MailTyped
<1>9. /\ Stream \in Seq(Parts) /\ Len(Stream) \in Nat /\ Len(Stream') = Len(Stream) + Len(C)
      /\ \A i \in 1..Len(Stream') : \/ i \in 1..Len(Stream) /\ Stream'[i] = Stream[i]
                                    \/ i - Len(Stream) \in 1..Len(C) /\ Stream'[i] = C[i - Len(Stream)]
  <2>1. Stream \in Seq(Parts) /\ Stream' = Stream \o C
    BY <1>1, <1>5 DEF MailInv, MailTyped, Stream
  <2> QED
    BY <2>1, <1>5
<1>10. Taken => Taken'
  BY <1>1 DEF Taken
<1>11. (good \/ says \/ later) /\ s = "body" => Taken'
  BY <1>1 DEF Taken
<1>12. s = "QUIT" => Taken
  <2>1. s = "QUIT" => step = 11
    <3>1. 1 \in 1..Len(outbox) /\ MailTypeOK
      BY <1>6 DEF MailInv
    <3> QED
      BY <1>6, <3>1, SentBefore
  <2> QED
    BY <2>1 DEF MailInv, BodyAfterData
<1>13. s \in Late /\ (part.says \/ part.code = "250" \/ later) => Taken'
  BY <1>3, <1>10, <1>11, <1>12
<1>14. s \in Late => \A i \in 1..Len(C) : C[i].says => Taken'
  BY <1>5, <1>13
<1>15. BodyAfterData'
  <2>1. \A i \in 1..Len(outbox') : outbox'[i] = "DATA" =>
            \A j \in (i + 1)..Len(outbox') : outbox'[j] \in Late
    <3> SUFFICES ASSUME NEW i \in 1..Len(outbox'), outbox'[i] = "DATA", NEW j \in (i + 1)..Len(outbox')
                 PROVE  outbox'[j] \in Late
      OBVIOUS
    <3>1. i + 1 \in 1..Len(outbox) /\ j + 1 \in ((i + 1) + 1)..Len(outbox) /\ j \in 1..Len(outbox')
      BY <1>6
    <3> QED
      BY <1>6, <3>1 DEF MailInv, BodyAfterData
  <2>2. \A i \in 1..Len(Stream') : Stream'[i].code = "354" =>
           /\ step >= 9
           /\ \A j \in 1..Len(outbox') : outbox'[j] \in Late
           /\ \A j \in (i + 1)..Len(Stream') : Stream'[j].says => Taken'
    <3> SUFFICES ASSUME NEW i \in 1..Len(Stream'), Stream'[i].code = "354"
                 PROVE  /\ step >= 9
                        /\ \A j \in 1..Len(outbox') : outbox'[j] \in Late
                        /\ \A j \in (i + 1)..Len(Stream') : Stream'[j].says => Taken'
      OBVIOUS
    <3>1. CASE i \in 1..Len(Stream) /\ Stream'[i] = Stream[i]
      <4>1. /\ step >= 9
            /\ \A j \in 1..Len(outbox) : outbox[j] \in Late
            /\ \A j \in (i + 1)..Len(Stream) : Stream[j].says => Taken
        BY <3>1 DEF MailInv, BodyAfterData
      <4>2. s \in Late
        BY <1>6, <4>1
      <4>3. \A j \in (i + 1)..Len(Stream') : Stream'[j].says => Taken'
        <5> TAKE j \in (i + 1)..Len(Stream')
        <5>1. j \in 1..Len(Stream') /\ (j \in 1..Len(Stream) => j \in (i + 1)..Len(Stream))
          BY <1>9
        <5> QED
          BY <1>9, <1>10, <1>14, <4>1, <4>2, <5>1
      <4> QED
        BY <1>6, <4>1, <4>3
    <3>2. CASE i - Len(Stream) \in 1..Len(C) /\ Stream'[i] = C[i - Len(Stream)]
      <4>1. part.code = "354" /\ s = "DATA" /\ ~part.says
        BY <1>2, <1>4, <1>5, <3>2
      <4>2. step >= 9
        <5>1. 1 \in 1..Len(outbox) /\ MailTypeOK
          BY <1>6 DEF MailInv
        <5> QED
          BY <1>6, <4>1, <5>1, SentBefore
      <4>3. \A j \in 1..Len(outbox') : outbox'[j] \in Late
        <5> TAKE j \in 1..Len(outbox')
        <5>1. 1 \in 1..Len(outbox) /\ j + 1 \in (1 + 1)..Len(outbox) /\ outbox[1] = "DATA"
          BY <1>6, <4>1
        <5>2. outbox[j + 1] \in Late
          BY <5>1 DEF MailInv, BodyAfterData
        <5> QED
          BY <1>6, <5>2
      <4>4. \A j \in (i + 1)..Len(Stream') : Stream'[j].says => Taken'
        <5> TAKE j \in (i + 1)..Len(Stream')
        <5>1. j \in 1..Len(Stream') /\ j \notin 1..Len(Stream)
          BY <1>9, <3>2
        <5>2. later => Taken'
          BY <1>1, <4>1 DEF Taken
        <5>3. ~part.says /\ part.code # "250"
          BY <4>1
        <5> QED
          BY <1>5, <1>9, <5>1, <5>2, <5>3
      <4> QED
        BY <4>2, <4>3, <4>4
    <3> QED
      BY <1>9, <3>1, <3>2
  <2>3. step >= 10 => /\ \A j \in 1..Len(outbox') : outbox'[j] \in Late
                      /\ \A j \in 1..Len(Stream') : Stream'[j].says => Taken'
    <3> SUFFICES ASSUME step >= 10
                 PROVE  /\ \A j \in 1..Len(outbox') : outbox'[j] \in Late
                        /\ \A j \in 1..Len(Stream') : Stream'[j].says => Taken'
      OBVIOUS
    <3>1. /\ \A j \in 1..Len(outbox) : outbox[j] \in Late
          /\ \A j \in 1..Len(Stream) : Stream[j].says => Taken
      BY DEF MailInv, BodyAfterData
    <3>2. s \in Late
      BY <1>6, <3>1
    <3> QED
      BY <1>6, <1>9, <1>10, <1>14, <3>1, <3>2
  <2>4. accepted' => step >= 10
    BY <1>1, <1>6, SentBefore DEF MailInv, BodyAfterData
  <2>5. step = 11 => Taken'
    BY <1>10 DEF MailInv, BodyAfterData
  <2> QED
    BY <1>1, <2>1, <2>2, <2>3, <2>4, <2>5 DEF BodyAfterData
<1>16. InTurns'
  <2> SUFFICES ASSUME ~parted' PROVE InTurns'
    BY DEF InTurns
  <2>1. ~parted /\ cut = "whole"
    BY <1>1 DEF MailInv, MailTyped
  <2>2. Len(outbox) = 1 /\ Len(Stream) = 0 /\ s = Steps[step] /\ Len(C) = 1
    BY <1>1, <1>5, <1>6, <1>9, <2>1 DEF MailInv, InTurns
  <2>3. Len(Stream') = 1 /\ Len(outbox') = 0 /\ Stream'[1] = part
    BY <1>5, <1>6, <1>9, <2>2
  <2>4. outbox' = <<>>
    BY <1>6, <1>8, <2>3 DEF MailTyped
  <2>5. mail # "rejected"
    BY <1>1, <2>1 DEF MailInv, InTurns
  <2>6. accepted' /\ step = 10 => part.says
    <3> SUFFICES ASSUME accepted', step = 10 PROVE part.says
      OBVIOUS
    <3>1. ~accepted
      BY <1>1, <2>1 DEF MailInv, InTurns
    <3>2. good /\ s = "body"
      BY <1>1, <3>1
    <3> QED
      BY <1>a, <3>2
  <2>7. accepted' /\ step = 10 => \A j \in 1..Len(Stream') : Stream'[j].says
    <3>1. \A j \in 1..Len(Stream') : j = 1
      BY <2>3
    <3> QED
      BY <2>3, <2>6, <3>1
  <2>8. Len(Stream') + Len(outbox') <= 1
    BY <2>3
  <2> QED
    BY <1>1, <2>4, <2>5, <2>7, <2>8 DEF InTurns
<1> QED
  BY <1>7, <1>8, <1>15, <1>16 DEF MailInv

\* The client takes the next part.
LEMMA ReadsStep == ASSUME MailInv, ReadsReply PROVE MailInv'
<1> DEFINE s == Steps[step]
           part == Head(queue)
           passes == ReplyPasses(s, part)
           next == IF s = "EHLO" /\ passes THEN step + 2 ELSE step + 1
<1>1. /\ mail = "open" /\ queue # <<>> /\ queue' = Tail(queue)
      /\ \/ ~passes /\ s # "EHLO" /\ mail' = "rejected" /\ UNCHANGED <<step, outbox>>
         \/ passes /\ s = "QUIT" /\ mail' = "sent" /\ UNCHANGED <<step, outbox>>
         \/ /\ (passes \/ s = "EHLO") /\ s # "QUIT"
            /\ step' = next /\ outbox' = Append(outbox, Steps[next]) /\ UNCHANGED mail
      /\ UNCHANGED <<coming, broken, accepted, declined, quoting, parted>>
  <2>1. passes \in BOOLEAN
    BY DEF ReplyPasses, MailInv, MailTyped, Parts
  <2>2. s = "QUIT" => passes
    BY DEF ReplyPasses
  <2> HIDE DEF s, passes, next
  <2> QED
    BY <2>1, <2>2 DEF ReadsReply, s, passes, next
<1>2. /\ s = "body" => (passes <=> part.says)
      /\ s = "DATA" /\ passes => part.code = "354"
      /\ s = "QUIT" => passes
  BY DEF ReplyPasses, Code
<1>3. /\ step \in 1..11 /\ (s = "DATA" <=> step = 9) /\ (s = "body" <=> step = 10)
      /\ (s = "QUIT" <=> step = 11) /\ (s = "EHLO" <=> step = 2)
  BY StepsAre DEF MailInv, MailTypeOK
<1> HIDE DEF s, passes
<1>4. s # "QUIT" => next \in (step + 1)..11 /\ (step \notin {2} => next = step + 1) /\ next <= step + 2
  BY <1>3
<1> HIDE DEF next
<1>5. /\ Stream \in Seq(Parts) /\ Len(Stream) \in Nat /\ Len(Stream) >= 1 /\ Stream[1] = part
      /\ Len(Stream') = Len(Stream) - 1
      /\ \A i \in 1..Len(Stream') : i + 1 \in 1..Len(Stream) /\ Stream'[i] = Stream[i + 1]
  <2>1. queue \in Seq(Parts) /\ coming \in Seq(Parts) /\ Len(queue) >= 1 /\ queue' \in Seq(Parts)
        /\ Len(queue') = Len(queue) - 1
        /\ \A i \in 1..Len(queue') : queue'[i] = queue[i + 1]
    BY <1>1 DEF MailInv, MailTyped
  <2>2. Stream \in Seq(Parts) /\ Stream' \in Seq(Parts)
        /\ Len(Stream) = Len(queue) + Len(coming) /\ Len(Stream') = Len(queue') + Len(coming)
    BY <1>1, <2>1 DEF Stream
  <2>3. \A i \in 1..Len(Stream) : Stream[i] = IF i <= Len(queue) THEN queue[i] ELSE coming[i - Len(queue)]
    BY <2>1 DEF Stream
  <2>4. \A i \in 1..Len(Stream') : Stream'[i] = IF i <= Len(queue') THEN queue'[i] ELSE coming[i - Len(queue')]
    BY <1>1, <2>1 DEF Stream
  <2>5. \A i \in 1..Len(Stream') : i + 1 \in 1..Len(Stream) /\ Stream'[i] = Stream[i + 1]
    <3> TAKE i \in 1..Len(Stream')
    <3>1. i + 1 \in 1..Len(Stream) /\ (i + 1) - Len(queue) = i - Len(queue')
          /\ (i <= Len(queue') <=> i + 1 <= Len(queue))
      BY <2>1, <2>2
    <3>2. i <= Len(queue') => i \in 1..Len(queue')
      BY <2>1, <2>2
    <3> QED
      BY <2>1, <2>3, <2>4, <3>1, <3>2
  <2>6. Stream[1] = part
    BY <2>1, <2>2, <2>3
  <2> QED
    BY <2>1, <2>2, <2>5, <2>6
<1> HIDE DEF part
<1>6. Taken' = Taken
  BY <1>1 DEF Taken
<1>7. /\ outbox \in Seq(Commands) /\ Len(outbox) \in Nat
      /\ \/ UNCHANGED <<step, outbox>>
         \/ /\ step < 11 /\ step' = next /\ Steps[next] \in Commands
            /\ Len(outbox') = Len(outbox) + 1 /\ outbox' \in Seq(Commands)
            /\ \A i \in 1..Len(outbox) : outbox'[i] = outbox[i]
            /\ outbox'[Len(outbox) + 1] = Steps[next]
  <2>1. outbox \in Seq(Commands) /\ Len(outbox) \in Nat
    BY DEF MailInv, MailTyped
  <2>2. CASE s # "QUIT" /\ step' = next /\ outbox' = Append(outbox, Steps[next])
    <3>1. next \in 1..11 /\ step < 11 /\ Steps[next] \in Commands
      BY <1>3, <1>4, <2>2, StepsAre
    <3> QED
      BY <2>1, <2>2, <3>1
  <2> QED
    BY <1>1, <2>1, <2>2
<1>8. s # "QUIT" => (Steps[next] \in Late <=> next >= 10) /\ (Steps[next] = "DATA" <=> next = 9)
  BY <1>3, <1>4, StepsAre DEF Late
<1>9. MailTypeOK'
  <2>1. step' \in 1..11
    BY <1>1, <1>3, <1>4
  <2>2. \A i \in 1..Len(outbox') : outbox'[i] \in {Steps[k] : k \in 1..step'}
    <3>1. CASE UNCHANGED <<step, outbox>>
      BY <3>1 DEF MailInv, MailTypeOK
    <3>2. CASE s # "QUIT" /\ step' = next /\ ~UNCHANGED <<step, outbox>>
      <4> TAKE i \in 1..Len(outbox')
      <4>1. CASE i \in 1..Len(outbox)
        <5>1. PICK k \in 1..step : outbox[i] = Steps[k]
          BY <4>1 DEF MailInv, MailTypeOK
        <5>2. k \in 1..step'
          BY <1>3, <1>4, <3>2
        <5> QED
          BY <1>7, <3>2, <4>1, <5>1, <5>2
      <4>2. CASE i = Len(outbox) + 1
        BY <1>3, <1>4, <1>7, <3>2, <4>2
      <4> QED
        BY <1>7, <3>2, <4>1, <4>2
    <3> QED
      BY <1>1, <3>1, <3>2
  <2>3. mail' = "sent" => Steps[step'] = "QUIT"
    BY <1>1 DEF s, MailInv, MailTypeOK
  <2>4. mail' \in {"off", "connecting", "open", "sent", "rejected", "failed"}
    BY <1>1
  <2> QED
    BY <1>1, <2>1, <2>2, <2>3, <2>4, StepsAre DEF MailInv, MailTypeOK
<1>10. MailTyped'
  <2>1. outbox' \in Seq(Commands)
    BY <1>7
  <2>2. queue' \in Seq(Parts)
    BY <1>1 DEF MailInv, MailTyped
  <2>3. mail' \notin {"off", "connecting"}
    BY <1>1
  <2> QED
    BY <1>1, <2>1, <2>2, <2>3 DEF MailInv, MailTyped
<1>11. BodyAfterData'
  <2>1. CASE UNCHANGED <<step, outbox>>
    <3>1. \A i \in 1..Len(Stream') : Stream'[i].code = "354" =>
              \A j \in (i + 1)..Len(Stream') : Stream'[j].says => Taken
      <4> SUFFICES ASSUME NEW i \in 1..Len(Stream'), Stream'[i].code = "354",
                          NEW j \in (i + 1)..Len(Stream'), Stream'[j].says
                   PROVE  Taken
        OBVIOUS
      <4>1. /\ i + 1 \in 1..Len(Stream) /\ Stream[i + 1].code = "354"
            /\ j \in 1..Len(Stream') /\ j + 1 \in ((i + 1) + 1)..Len(Stream)
        BY <1>5
      <4>2. Stream[j + 1].says
        BY <1>5, <4>1
      <4> QED
        BY <4>1, <4>2 DEF MailInv, BodyAfterData
    <3>2. \A i \in 1..Len(Stream') : Stream'[i].code = "354" =>
              step >= 9 /\ \A j \in 1..Len(outbox) : outbox[j] \in Late
      BY <1>5 DEF MailInv, BodyAfterData
    <3>3. step >= 10 => /\ \A j \in 1..Len(outbox) : outbox[j] \in Late
                        /\ \A j \in 1..Len(Stream') : Stream'[j].says => Taken
      BY <1>5 DEF MailInv, BodyAfterData
    <3> QED
      BY <1>1, <1>6, <2>1, <3>1, <3>2, <3>3 DEF MailInv, BodyAfterData
  <2>2. CASE s # "QUIT" /\ ~UNCHANGED <<step, outbox>>
    <3>1. /\ step < 11 /\ step' = next /\ Len(outbox') = Len(outbox) + 1 /\ next \in (step + 1)..11
          /\ \A i \in 1..Len(outbox) : outbox'[i] = outbox[i]
          /\ outbox'[Len(outbox) + 1] = Steps[next] /\ (step # 2 => next = step + 1) /\ next <= step + 2
      BY <1>4, <1>7, <2>2
    <3>2. \A i \in 1..Len(outbox') : outbox'[i] = "DATA" =>
              \A j \in (i + 1)..Len(outbox') : outbox'[j] \in Late
      <4> SUFFICES ASSUME NEW i \in 1..Len(outbox'), outbox'[i] = "DATA", NEW j \in (i + 1)..Len(outbox')
                   PROVE  outbox'[j] \in Late
        OBVIOUS
      <4>1. i \in 1..Len(outbox) /\ outbox[i] = "DATA"
        BY <1>7, <3>1
      <4>2. next >= 10
        BY <1>3, <3>1, <4>1, SentBefore DEF MailInv
      <4>3. CASE j \in (i + 1)..Len(outbox)
        <5>1. j \in 1..Len(outbox)
          BY <1>7, <4>3
        <5> QED
          BY <3>1, <4>1, <4>3, <5>1 DEF MailInv, BodyAfterData
      <4>4. CASE j = Len(outbox) + 1
        BY <1>8, <2>2, <3>1, <4>2, <4>4
      <4> QED
        BY <1>7, <3>1, <4>3, <4>4
    <3>3. next >= 10 => /\ \A j \in 1..Len(outbox') : outbox'[j] \in Late
                        /\ \A j \in 1..Len(Stream') : Stream'[j].says => Taken
      <4> SUFFICES ASSUME next >= 10
                   PROVE  /\ \A j \in 1..Len(outbox') : outbox'[j] \in Late
                          /\ \A j \in 1..Len(Stream') : Stream'[j].says => Taken
        OBVIOUS
      <4>1. /\ \A j \in 1..Len(outbox) : outbox[j] \in Late
            /\ \A j \in 2..Len(Stream) : Stream[j].says => Taken
        <5>1. CASE step >= 10
          BY <5>1 DEF MailInv, BodyAfterData
        <5>2. CASE step = 9
          <6>1. Stream[1].code = "354"
            BY <1>1, <1>2, <1>3, <1>5, <2>2, <5>2
          <6>2. 1 \in 1..Len(Stream) /\ 1 + 1 = 2
            BY <1>5
          <6> QED
            BY <6>1, <6>2 DEF MailInv, BodyAfterData
        <5> QED
          BY <1>3, <3>1, <5>1, <5>2
      <4>2. Steps[next] \in Late
        BY <1>8, <2>2
      <4>3. \A j \in 1..Len(outbox') : j \in 1..Len(outbox) \/ j = Len(outbox) + 1
        BY <1>7, <3>1
      <4>4. \A j \in 1..Len(Stream') : j + 1 \in 2..Len(Stream)
        BY <1>5
      <4> QED
        BY <1>5, <3>1, <4>1, <4>2, <4>3, <4>4
    <3>4. \A i \in 1..Len(Stream') : Stream'[i].code = "354" =>
              /\ next >= 10
              /\ \A j \in (i + 1)..Len(Stream') : Stream'[j].says => Taken
      <4> SUFFICES ASSUME NEW i \in 1..Len(Stream'), Stream'[i].code = "354"
                   PROVE  /\ next >= 10
                          /\ \A j \in (i + 1)..Len(Stream') : Stream'[j].says => Taken
        OBVIOUS
      <4>1. i + 1 \in 1..Len(Stream) /\ Stream[i + 1].code = "354"
        BY <1>5
      <4>2. step >= 9 /\ \A j \in ((i + 1) + 1)..Len(Stream) : Stream[j].says => Taken
        BY <4>1 DEF MailInv, BodyAfterData
      <4>3. next >= 10
        BY <1>3, <3>1, <4>2
      <4>4. ASSUME NEW j \in (i + 1)..Len(Stream'), Stream'[j].says PROVE Taken
        BY <3>3, <4>3, <4>4, <1>5
      <4> QED
        BY <4>3, <4>4
    <3>5. next = 11 => Taken
      <4> SUFFICES ASSUME next = 11 PROVE Taken
        OBVIOUS
      <4>1. step = 10 /\ s = "body" /\ part.says
        BY <1>1, <1>2, <1>3, <2>2, <3>1
      <4> QED
        BY <1>5, <4>1 DEF MailInv, BodyAfterData
    <3>6. accepted => next >= 10
      BY <1>3, <3>1 DEF MailInv, BodyAfterData
    <3> QED
      BY <1>1, <1>6, <3>1, <3>2, <3>3, <3>4, <3>5, <3>6 DEF BodyAfterData
  <2> QED
    BY <1>1, <2>1, <2>2
<1>12. InTurns'
  <2> SUFFICES ASSUME ~parted PROVE InTurns'
    BY <1>1 DEF InTurns
  <2>1. Len(Stream) = 1 /\ Len(outbox) = 0 /\ Len(Stream') = 0
    BY <1>5, <1>7 DEF MailInv, InTurns
  <2>2. outbox = <<>>
    BY <1>7, <2>1
  <2>3. accepted => step \in {10, 11} /\ (step = 10 => part.says)
    BY <1>1, <1>3, <1>5, <2>1 DEF MailInv, InTurns, BodyAfterData
  <2>4. mail' = "rejected" => ~accepted /\ outbox' = <<>>
    BY <1>1, <1>2, <1>3, <2>2, <2>3
  <2>5. Len(outbox') <= 1 /\ (outbox' # <<>> => outbox'[1] = Steps[step'])
    <3>1. CASE UNCHANGED <<step, outbox>>
      BY <2>1, <2>2, <3>1
    <3>2. CASE /\ step' = next /\ Len(outbox') = Len(outbox) + 1
               /\ outbox'[Len(outbox) + 1] = Steps[next]
      <4>1. Len(outbox) + 1 = 1
        BY <2>1
      <4> QED
        BY <3>2, <4>1
    <3> QED
      BY <1>7, <3>1, <3>2
  <2>6. accepted /\ step' = 10 => outbox' = <<>>
    BY <1>1, <1>3, <1>4, <2>2, <2>3
  <2> QED
    BY <1>1, <2>1, <2>4, <2>5, <2>6, <1>10 DEF InTurns, MailTyped
<1> QED
  BY <1>9, <1>10, <1>11, <1>12 DEF MailInv

LEMMA MailNextInv == MailInv /\ [MailNext]_mailVars => MailInv'
<1> SUFFICES ASSUME MailInv, [MailNext]_mailVars PROVE MailInv'
  OBVIOUS
<1>1. CASE MailConnects
  <2>1. Stream' = Stream /\ Taken' = Taken /\ outbox' = <<"greeting">> /\ Stream = <<>> /\ outbox = <<>>
    BY <1>1 DEF MailConnects, Stream, Taken, MailInv, MailTyped
  <2>2. MailTypeOK'
    <3>1. step = 1 /\ Steps[1] = "greeting"
      BY <1>1, StepsAre DEF MailConnects, MailInv, MailTyped
    <3>2. \A i \in 1..Len(outbox') : outbox'[i] \in {Steps[k] : k \in 1..step}
      BY <2>1, <3>1
    <3> QED
      BY <1>1, <3>1, <3>2 DEF MailConnects, MailInv, MailTypeOK
  <2>3. MailTyped'
    <3>1. <<Steps[1]>> \in Seq(Commands) /\ Steps[1] = "greeting"
      BY StepsAre
    <3>2. mail' \notin {"off", "connecting"}
      BY <1>1 DEF MailConnects
    <3> QED
      BY <1>1, <3>1, <3>2 DEF MailConnects, MailInv, MailTyped
  <2>4. step = 1 /\ ~accepted /\ Steps[1] = "greeting"
    BY <1>1, StepsAre DEF MailConnects, MailInv, MailTyped, BodyAfterData
  <2>5. BodyAfterData'
    BY <1>1, <2>1, <2>4 DEF MailConnects, BodyAfterData
  <2>6. InTurns'
    BY <1>1, <2>1, <2>4 DEF MailConnects, InTurns
  <2> QED
    BY <2>2, <2>3, <2>5, <2>6 DEF MailInv
<1>2. CASE Hears
  <2>1. Stream' = Stream
    <3>1. queue \in Seq(Parts) /\ coming \in Seq(Parts) /\ coming # <<>>
          /\ Head(coming) \in Parts /\ Tail(coming) \in Seq(Parts)
      BY <1>2 DEF Hears, MailInv, MailTyped
    <3>2. coming = <<Head(coming)>> \o Tail(coming)
      BY <3>1
    <3>3. Append(queue, Head(coming)) = queue \o <<Head(coming)>>
      BY <3>1
    <3> QED
      BY <1>2, <3>1, <3>2, <3>3, ConcatAssociative DEF Hears, Stream
  <2>2. MailTyped'
    BY <1>2 DEF Hears, MailInv, MailTyped
  <2>3. MailTypeOK' /\ Taken' = Taken
    BY <1>2 DEF Hears, MailInv, MailTypeOK, Taken
  <2>4. BodyAfterData'
    BY <1>2, <2>1, <2>3 DEF Hears, MailInv, BodyAfterData
  <2>5. InTurns'
    BY <1>2, <2>1 DEF Hears, MailInv, InTurns
  <2> QED
    BY <2>2, <2>3, <2>4, <2>5 DEF MailInv
<1>3. CASE ReadsReply
  BY <1>3, ReadsStep
<1>4. ASSUME NEW good \in BOOLEAN, NEW says \in BOOLEAN, NEW cut \in {"whole", "inside", "lines"},
             NEW later \in BOOLEAN, Replies(good, says, cut, later)
      PROVE  MailInv'
  BY <1>4, RepliesStep
<1>5. CASE ReadTimesOut \/ (\E error \in BOOLEAN : SocketBreaks(error)) \/ UNCHANGED mailVars
  <2>1. /\ UNCHANGED <<step, outbox, coming, queue, accepted, declined, quoting, parted>>
        /\ mail' = mail \/ mail' = "failed"
        /\ broken' \in BOOLEAN
    BY <1>5 DEF ReadTimesOut, SocketBreaks, mailVars, MailInv, MailTyped
  <2>2. Stream' = Stream /\ Taken' = Taken
    BY <2>1 DEF Stream, Taken
  <2>3. MailTypeOK' /\ MailTyped'
    BY <2>1 DEF MailInv, MailTypeOK, MailTyped
  <2>4. BodyAfterData' /\ InTurns'
    BY <2>1, <2>2 DEF MailInv, BodyAfterData, InTurns
  <2> QED
    BY <2>3, <2>4 DEF MailInv
<1> QED
  BY <1>1, <1>2, <1>3, <1>4, <1>5 DEF MailNext

LEMMA MailKeeps == MailSpec => []MailInv
  BY MailInitInv, MailNextInv, PTL DEF MailSpec

\* Type correctness of the e-mail notifier.
THEOREM MailTypeCorrect == MailSpec => []MailTypeOK
<1>1. MailInv => MailTypeOK
  BY DEF MailInv
<1> QED
  BY <1>1, MailKeeps, PTL

\* However the server's replies are cut and the connection breaks, the e-mail notifier
\* reports "sent" only of a message that the server took, or of one whose answer, or
\* whose answer to DATA, says "250" in its text (alerts/notifiers/email.ts, smtpRead).
THEOREM MailReports == MailSpec => []MailReported
<1>1. MailInv => MailReported
  <2> SUFFICES ASSUME MailInv PROVE MailReported
    OBVIOUS
  <2>1. step \in 1..11
    BY StepsAre DEF MailInv, MailTypeOK
  <2>2. mail = "sent" => accepted \/ quoting
    BY <2>1, StepsAre DEF MailInv, MailTypeOK, BodyAfterData, Taken
  <2>3. accepted => Steps[step] \in {"body", "QUIT"}
    <3>1. accepted => step \in {10, 11}
      BY <2>1 DEF MailInv, BodyAfterData
    <3> QED
      BY <3>1, StepsAre
  <2>4. mail = "rejected" /\ accepted => parted
    BY DEF MailInv, InTurns
  <2> QED
    BY <2>2, <2>3, <2>4 DEF MailReported
<1> QED
  BY <1>1, MailKeeps, PTL
-----------------------------------------------------------------------------
(***************************************************************************)
(* OtlpIntake.                                                             *)
(***************************************************************************)
AllFacts == TraceFacts \cup MetricFacts \cup LogFacts
Subjects == {"kind", "status", "attribute", "value", "points", "time", "level", "body"}

\* The batch is what its sender made it.
ExportOK ==
    /\ export.fact \in AllFacts /\ export.wire \in Wires(export.fact)
    /\ export.items \in 0..MaxItems

OtlpTyped == ExportOK /\ OtlpTypeOK /\ chunk \in Nat

\* The items that this post has dealt with.
Reached == chunk * OtlpChunk

\* No item has more rows than posts had reached it, nor fewer than one behind it.
RowsInOrder ==
    /\ \A i \in 1..MaxItems : copiesOf[i] <= sends
    /\ \A i \in 1..MaxItems : i > export.items => copiesOf[i] = 0
    /\ \A i, j \in 1..MaxItems : i < j => copiesOf[i] >= copiesOf[j]
    /\ posting \in {"received", "authorized", "decoding"} =>
           chunk = 0 /\ \A i \in 1..MaxItems : copiesOf[i] < sends
    /\ posting = "inserting" => \A i \in 1..MaxItems :
           /\ i > Reached => copiesOf[i] < sends
           /\ i <= Reached /\ i <= export.items =>
                  copiesOf[i] >= 1 /\ \A j \in 1..MaxItems : j > Reached => copiesOf[j] < copiesOf[i]

\* Without a post that was interrupted only this one has made rows.
OnceUninterrupted ==
    ~interrupted => \A i \in 1..MaxItems :
        /\ copiesOf[i] <= 1
        /\ posting = "inserting" => i <= Reached \/ copiesOf[i] = 0
        /\ posting # "inserting" /\ answer # 200 => copiesOf[i] = 0

\* What is answered with 200 has been stored, or has no rows.
AnsweredInFull ==
    /\ posting # "answered" => answer = 0
    /\ export.fact.says = "histogram" =>
           posting # "inserting" /\ \A i \in 1..MaxItems : copiesOf[i] = 0
    /\ answer = 200 /\ export.fact.says # "histogram" =>
           \A i \in 1..export.items : copiesOf[i] >= 1

\* A row says what the columns make of the fact, however defaults show.
ColumnsSay ==
    written = "none" \/ \E shown \in {"never", "plain", "all"} :
        /\ written = RowSays(export.fact, export.wire, shown)
        /\ written \notin {"refused", "throws", "dropped"}

OtlpInv == OtlpTyped /\ RowsInOrder /\ OnceUninterrupted /\ AnsweredInFull /\ ColumnsSay

LEMMA KindsAre == \A n \in DOMAIN SpanKinds : SpanKinds[n] \notin {"dropped", "histogram"}
<1>1. DOMAIN SpanKinds = 1..5
  BY DEF SpanKinds
<1>2. \A n \in 1..5 : n = 1 \/ n = 2 \/ n = 3 \/ n = 4 \/ n = 5
  OBVIOUS
<1> QED
  BY <1>1, <1>2 DEF SpanKinds

LEMMA FactsAre ==
    ASSUME NEW fact \in AllFacts
    PROVE  /\ fact.about \in Subjects
           /\ fact.says = "histogram" <=> fact.about = "points" /\ fact.says = "histogram"
           /\ fact.says # "dropped"
           /\ fact.about = "kind" => fact.form \in {"word", "enum", "number"}
<1>1. CASE fact \in TraceFacts
  <2> DEFINE Kinds == {SpanKinds[n] : n \in DOMAIN SpanKinds}
  <2>1. CASE fact \in Fact("kind", Kinds, {"word", "enum", "number"})
    <3>1. fact.about = "kind" /\ fact.says \in Kinds /\ fact.form \in {"word", "enum", "number"}
      BY <2>1 DEF Fact
    <3> QED
      BY <3>1, KindsAre DEF Subjects
  <2>2. CASE fact \in Fact("status", {"ok", "error", "unset"}, {"Word", "enum", "number", "exporter"})
    BY <2>2 DEF Fact, Subjects
  <2>3. CASE fact \in Fact("attribute", {"string", "int", "double", "bool", "list"}, {"typed"})
             \/ fact \in Fact("attribute", {"int", "nan"}, {"number"})
    BY <2>3 DEF Fact, Subjects
  <2> HIDE DEF Kinds
  <2> QED
    BY <1>1, <2>1, <2>2, <2>3 DEF TraceFacts, Kinds
<1>2. CASE fact \in MetricFacts
  BY <1>2 DEF MetricFacts, Fact, Subjects
<1>3. CASE fact \in LogFacts
  BY <1>3 DEF LogFacts, Fact, Subjects
<1> QED
  BY <1>1, <1>2, <1>3 DEF AllFacts

\* Which column a fact is about.
LEMMA Column ==
    ASSUME NEW fact, fact.about \in Subjects, NEW wire, NEW shown
    PROVE  /\ fact.about = "kind" => RowSays(fact, wire, shown) = KindNumber(fact, wire)
           /\ fact.about = "status" => RowSays(fact, wire, shown) = StatusCode(fact)
           /\ fact.about \in {"attribute", "body"} => RowSays(fact, wire, shown) = AnyValue(fact, wire, shown)
           /\ fact.about = "value" => RowSays(fact, wire, shown) = NormalizeSumOrGauge(fact, wire, shown)
           /\ fact.about = "points" => RowSays(fact, wire, shown) = DataPoints(fact)
           /\ fact.about = "time" => RowSays(fact, wire, shown) = LongNanosToDate(fact, wire)
           /\ fact.about = "level" => RowSays(fact, wire, shown) = SeverityToText(fact)
  BY DEF RowSays, Subjects

\* Histograms, and nothing else, are dropped.
LEMMA HistogramsDropped ==
    ASSUME NEW fact \in AllFacts, NEW wire, NEW shown
    PROVE  RowSays(fact, wire, shown) = "dropped" <=> fact.says = "histogram"
<1>1. fact.about \in Subjects /\ (fact.says = "histogram" => fact.about = "points") /\ fact.says # "dropped"
  BY FactsAre
<1>2. fact.about = "points" => (DataPoints(fact) = "dropped" <=> fact.says = "histogram")
  BY <1>1 DEF DataPoints
<1>3. KindNumber(fact, wire) # "dropped"
  <2>1. LET n == CHOOSE k \in DOMAIN SpanKinds : SpanKinds[k] = fact.says
        IN  (IF n + 1 \in DOMAIN SpanKinds THEN SpanKinds[n + 1] ELSE "INTERNAL") # "dropped"
    BY KindsAre
  <2> QED
    BY <1>1, <2>1 DEF KindNumber
<1>4. StatusCode(fact) # "dropped" /\ AnyValue(fact, wire, shown) # "dropped"
      /\ NormalizeSumOrGauge(fact, wire, shown) # "dropped"
      /\ LongNanosToDate(fact, wire) # "dropped" /\ SeverityToText(fact) # "dropped"
  BY <1>1 DEF StatusCode, AnyValue, AnyValueJson, AnyValueToJson, NormalizeSumOrGauge,
              LongNanosToDate, SeverityToText
<1> QED
  BY <1>1, <1>2, <1>3, <1>4, Column DEF Subjects

LEMMA OtlpInitInv == OtlpInit => OtlpInv
<1> SUFFICES ASSUME OtlpInit PROVE OtlpInv
  OBVIOUS
<1> USE OtlpAssumption DEF OtlpAssumption
<1>1. ExportOK
  <2>1. PICK signal \in DOMAIN FactsOf, fact \in UNION {FactsOf[s] : s \in DOMAIN FactsOf} :
            /\ fact \in FactsOf[signal]
            /\ \E wire \in Wires(fact), items \in 0..MaxItems :
                   export.fact = fact /\ export.wire = wire /\ export.items = items
    BY DEF OtlpInit
  <2>2. FactsOf[signal] \subseteq AllFacts
    BY <2>1 DEF FactsOf, AllFacts
  <2> QED
    BY <2>1, <2>2 DEF ExportOK
<1>2. copiesOf = [i \in 1..MaxItems |-> 0] /\ posting = "idle" /\ answer = 0 /\ sends = 0 /\ chunk = 0
      /\ written = "none" /\ interrupted = FALSE
  BY DEF OtlpInit
<1>3. OtlpTypeOK
  <2>1. 0 \in 0..MaxSends
    OBVIOUS
  <2>2. copiesOf \in [1..MaxItems -> 0..MaxSends]
    BY <1>2, <2>1
  <2> QED
    BY <1>2, <2>1, <2>2 DEF OtlpTypeOK
<1> QED
  BY <1>1, <1>2, <1>3 DEF OtlpInv, OtlpTyped, RowsInOrder, OnceUninterrupted, AnsweredInFull, ColumnsSay

LEMMA ChunkArithmetic ==
    ASSUME OtlpTyped
    PROVE  /\ Reached \in Nat /\ (chunk + 1) * OtlpChunk = Reached + OtlpChunk
           /\ OtlpChunk \in Nat /\ OtlpChunk >= 1
           /\ \A i \in Nat : i \in NextChunk <=>
                  i > Reached /\ i <= export.items /\ i <= Reached + OtlpChunk
<1>1. chunk \in Nat /\ OtlpChunk \in Nat /\ OtlpChunk >= 1 /\ export.items \in Nat
  BY OtlpAssumption DEF OtlpAssumption, OtlpTyped, ExportOK
<1>2. chunk * OtlpChunk \in Nat /\ (chunk + 1) * OtlpChunk = chunk * OtlpChunk + OtlpChunk
  BY <1>1
<1> DEFINE R == chunk * OtlpChunk
<1>3. R \in Nat /\ (chunk + 1) * OtlpChunk = R + OtlpChunk
  BY <1>2
<1>4. NextChunk = {i \in (R + 1)..export.items : i <= R + OtlpChunk}
  BY <1>3 DEF NextChunk, Items
<1> HIDE DEF R
<1>5. \A i \in Nat : i \in NextChunk <=> i > R /\ i <= export.items /\ i <= R + OtlpChunk
  BY <1>1, <1>3, <1>4
<1> QED
  BY <1>1, <1>3, <1>5 DEF R, Reached

\* A chunk written: what stays true of the rows whatever the post does next.
LEMMA ChunkStep ==
    ASSUME OtlpInv, posting = "inserting", ChunkStored
    PROVE  /\ copiesOf' \in [1..MaxItems -> 0..MaxSends]
           /\ \A i \in 1..MaxItems : copiesOf'[i] <= sends /\ copiesOf'[i] >= copiesOf[i]
           /\ \A i \in 1..MaxItems : i > export.items => copiesOf'[i] = 0
           /\ \A i, j \in 1..MaxItems : i < j => copiesOf'[i] >= copiesOf'[j]
           /\ \A i \in 1..MaxItems :
                 /\ i > Reached + OtlpChunk => copiesOf'[i] = copiesOf[i] /\ copiesOf[i] < sends
                 /\ i <= Reached => copiesOf'[i] = copiesOf[i]
                 /\ i > Reached /\ i <= Reached + OtlpChunk /\ i <= export.items =>
                        copiesOf'[i] = copiesOf[i] + 1
<1>1. /\ copiesOf \in [1..MaxItems -> 0..MaxSends] /\ sends \in 0..MaxSends
      /\ MaxItems \in Nat /\ MaxSends \in Nat
      /\ copiesOf' = [i \in 1..MaxItems |-> copiesOf[i] + (IF i \in NextChunk THEN 1 ELSE 0)]
      /\ \A i \in 1..MaxItems : copiesOf[i] \in Nat
  BY OtlpAssumption DEF OtlpAssumption, OtlpInv, OtlpTyped, OtlpTypeOK, ChunkStored
<1>2. /\ Reached \in Nat /\ OtlpChunk \in Nat
      /\ \A i \in Nat : i \in NextChunk <=>
             i > Reached /\ i <= export.items /\ i <= Reached + OtlpChunk
  BY ChunkArithmetic DEF OtlpInv
<1>3. export.items \in Nat
  BY DEF OtlpInv, OtlpTyped, ExportOK
<1>4. \A i \in 1..MaxItems :
         copiesOf'[i] = IF i > Reached /\ i <= export.items /\ i <= Reached + OtlpChunk
                        THEN copiesOf[i] + 1 ELSE copiesOf[i]
  BY <1>1, <1>2
<1>5. /\ \A i \in 1..MaxItems : copiesOf[i] <= sends /\ (i > Reached => copiesOf[i] < sends)
      /\ \A i \in 1..MaxItems : i > export.items => copiesOf[i] = 0
      /\ \A i, j \in 1..MaxItems : i < j => copiesOf[i] >= copiesOf[j]
      /\ \A i \in 1..MaxItems : i <= Reached /\ i <= export.items =>
             \A j \in 1..MaxItems : j > Reached => copiesOf[j] < copiesOf[i]
  BY DEF OtlpInv, RowsInOrder
<1> HIDE DEF Reached
<1>6. \A i, j \in 1..MaxItems : i < j => copiesOf'[i] >= copiesOf'[j]
  <2> SUFFICES ASSUME NEW i \in 1..MaxItems, NEW j \in 1..MaxItems, i < j
               PROVE  copiesOf'[i] >= copiesOf'[j]
    OBVIOUS
  <2>1. copiesOf[i] \in Nat /\ copiesOf[j] \in Nat /\ copiesOf[i] >= copiesOf[j]
    BY <1>1, <1>5
  <2>2. CASE j > Reached /\ j <= export.items /\ j <= Reached + OtlpChunk
    <3>1. CASE i <= Reached
      <4>1. copiesOf[j] < copiesOf[i]
        BY <1>2, <1>3, <1>5, <2>2, <3>1
      <4> QED
        BY <1>4, <2>1, <2>2, <3>1, <4>1
    <3>2. CASE i > Reached
      <4>1. i <= export.items /\ i <= Reached + OtlpChunk
        BY <1>2, <1>3, <2>2
      <4> QED
        BY <1>4, <2>1, <2>2, <3>2, <4>1
    <3> QED
      BY <1>2, <3>1, <3>2
  <2>3. CASE ~(j > Reached /\ j <= export.items /\ j <= Reached + OtlpChunk)
    BY <1>4, <2>1, <2>3
  <2> QED
    BY <2>2, <2>3
<1>7. \A i \in 1..MaxItems : copiesOf'[i] \in Nat /\ copiesOf'[i] <= sends /\ copiesOf'[i] >= copiesOf[i]
  BY <1>1, <1>4, <1>5
<1>8. copiesOf' \in [1..MaxItems -> 0..MaxSends]
  <2>1. \A i \in 1..MaxItems : copiesOf'[i] \in 0..MaxSends
    BY <1>1, <1>7
  <2> QED
    BY <1>1, <2>1
<1> QED
  BY <1>1, <1>2, <1>3, <1>4, <1>5, <1>6, <1>7, <1>8

\* Steps that leave the rows alone and do not leave for the inserts.
LEMMA NoRowsStep ==
    ASSUME OtlpInv, UNCHANGED <<export, copiesOf>>, chunk' \in Nat,
           posting' \in {"received", "authorized", "decoding", "answered"},
           answer' \in {0, 200, 400, 401, 403, 413, 500},
           sends' \in 0..MaxSends, sends' >= sends, interrupted' \in BOOLEAN,
           interrupted => interrupted',
           posting' # "answered" => /\ chunk' = 0 /\ answer' = 0
                                    /\ \A i \in 1..MaxItems : copiesOf[i] < sends',
           ~interrupted' /\ answer' # 200 => \A i \in 1..MaxItems : copiesOf[i] = 0,
           answer' = 200 => \/ export.fact.says = "histogram"
                            \/ \A i \in 1..export.items : copiesOf[i] >= 1,
           ~interrupted' => \A i \in 1..MaxItems : copiesOf[i] <= 1,
           ColumnsSay'
    PROVE  OtlpInv'
<1>1. OtlpTyped'
  BY DEF OtlpInv, OtlpTyped, OtlpTypeOK, ExportOK
<1>2. \A i \in 1..MaxItems : copiesOf[i] <= sends'
  <2>1. sends \in Nat /\ sends' \in Nat /\ \A i \in 1..MaxItems : copiesOf[i] \in Nat
    BY OtlpAssumption DEF OtlpAssumption, OtlpInv, OtlpTyped, OtlpTypeOK
  <2> QED
    BY <2>1 DEF OtlpInv, RowsInOrder
<1>3. RowsInOrder'
  BY <1>2 DEF OtlpInv, RowsInOrder
<1>4. OnceUninterrupted'
  BY DEF OnceUninterrupted
<1>5. AnsweredInFull'
  BY DEF OtlpInv, AnsweredInFull
<1> QED
  BY <1>1, <1>3, <1>4, <1>5 DEF OtlpInv

LEMMA ColumnsStay == ASSUME OtlpInv, UNCHANGED <<export, written>> PROVE ColumnsSay'
  BY DEF OtlpInv, ColumnsSay

LEMMA OtlpNextInv == OtlpInv /\ [OtlpNext]_otlpVars => OtlpInv'
<1> SUFFICES ASSUME OtlpInv, [OtlpNext]_otlpVars PROVE OtlpInv'
  OBVIOUS
<1> USE OtlpAssumption DEF OtlpAssumption
<1>1. /\ sends \in 0..MaxSends /\ chunk \in Nat /\ interrupted \in BOOLEAN
      /\ \A i \in 1..MaxItems : copiesOf[i] \in Nat /\ copiesOf[i] <= sends
      /\ posting # "answered" => answer = 0
      /\ copiesOf \in [1..MaxItems -> 0..MaxSends] /\ answer \in {0, 200, 400, 401, 403, 413, 500}
  BY DEF OtlpInv, OtlpTyped, OtlpTypeOK, RowsInOrder, AnsweredInFull
<1>2. /\ posting \in {"received", "authorized", "decoding"} =>
             chunk = 0 /\ \A i \in 1..MaxItems : copiesOf[i] < sends
      /\ ~interrupted /\ posting # "inserting" /\ answer # 200 => \A i \in 1..MaxItems : copiesOf[i] = 0
      /\ ~interrupted => \A i \in 1..MaxItems : copiesOf[i] <= 1
  BY DEF OtlpInv, RowsInOrder, OnceUninterrupted
<1>3. CASE Post
  <2>1. ColumnsSay'
    BY <1>3, ColumnsStay DEF Post
  <2>2. sends' \in 0..MaxSends /\ sends' >= sends /\ \A i \in 1..MaxItems : copiesOf[i] < sends'
    BY <1>1, <1>3 DEF Post
  <2>3. /\ posting' = "received" /\ answer' = 0 /\ chunk' = 0 /\ UNCHANGED <<export, copiesOf, interrupted>>
        /\ posting # "inserting" /\ answer # 200
    BY <1>3 DEF Post
  <2> QED
    BY <1>1, <1>2, <2>1, <2>2, <2>3, NoRowsStep
<1>4. CASE Received \/ AuthorizeRequest \/ Malformed
  <2>1. ColumnsSay'
    BY <1>4, ColumnsStay DEF Received, AuthorizeRequest, Malformed, Stays
  <2>2. /\ UNCHANGED <<export, copiesOf, sends, chunk, interrupted>>
        /\ posting \in {"received", "authorized", "decoding"}
        /\ \/ posting' \in {"authorized", "decoding"} /\ answer' = answer
           \/ posting' = "answered" /\ answer' \in {400, 401, 403, 413}
    BY <1>4 DEF Received, AuthorizeRequest, Malformed, Stays, Answers
  <2>3. sends' >= sends
    BY <1>1, <2>2
  <2> QED
    BY <1>1, <1>2, <2>1, <2>2, <2>3, NoRowsStep
<1>5. CASE LookupFails
  <2>1. ColumnsSay'
    BY <1>5, ColumnsStay DEF LookupFails, Stays
  <2>2. /\ UNCHANGED <<export, copiesOf, sends, chunk>> /\ posting' = "answered" /\ answer' = 500 /\ interrupted' = TRUE
    BY <1>5 DEF LookupFails, Stays, Answers
  <2>3. sends' >= sends
    BY <1>1, <2>2
  <2> QED
    BY <1>1, <1>2, <2>1, <2>2, <2>3, NoRowsStep
<1>6. CASE Decode
  <2>1. PICK shown \in {"never", "plain", "all"} :
           LET r == RowSays(export.fact, export.wire, shown) IN
           /\ written' = IF r \in {"refused", "throws", "dropped"} THEN written ELSE r
           /\ IF r = "refused" /\ export.items > 0 THEN Answers(400) /\ UNCHANGED interrupted
              ELSE IF r = "throws" /\ export.items > 0 THEN Answers(500) /\ interrupted' = TRUE
              ELSE IF r = "dropped" THEN Answers(200) /\ UNCHANGED interrupted
              ELSE posting' = "inserting" /\ UNCHANGED <<answer, interrupted>>
    BY <1>6 DEF Decode
  <2>2. UNCHANGED <<export, copiesOf, sends, chunk>> /\ posting = "decoding" /\ sends' >= sends
    BY <1>1, <1>6 DEF Decode, Stays
  <2> DEFINE r == RowSays(export.fact, export.wire, shown)
  <2>3. r = "dropped" <=> export.fact.says = "histogram"
    BY HistogramsDropped DEF OtlpInv, OtlpTyped, ExportOK
  <2>4. ColumnsSay'
    <3>1. CASE r \in {"refused", "throws", "dropped"}
      BY <2>1, <2>2, <3>1, ColumnsStay
    <3>2. CASE r \notin {"refused", "throws", "dropped"}
      <4>1. written' = r
        BY <2>1, <3>2
      <4>2. export' = export
        BY <2>2
      <4> QED
        BY <3>2, <4>1, <4>2 DEF ColumnsSay
    <3> QED
      BY <3>1, <3>2
  <2>5. \/ posting' = "answered" /\ answer' = 400 /\ UNCHANGED interrupted
        \/ posting' = "answered" /\ answer' = 500 /\ interrupted' = TRUE
        \/ posting' = "answered" /\ answer' = 200 /\ UNCHANGED interrupted /\ r = "dropped"
        \/ posting' = "inserting" /\ UNCHANGED <<answer, interrupted>> /\ r # "dropped"
    BY <2>1 DEF Answers
  <2> HIDE DEF r
  <2>6. CASE posting' = "answered"
    <3>1. answer # 200 /\ posting # "inserting"
      BY <1>1, <2>2
    <3>2. CASE answer' = 400 /\ UNCHANGED interrupted
      BY <1>1, <1>2, <2>2, <2>4, <2>6, <3>1, <3>2, NoRowsStep
    <3>3. CASE answer' = 500 /\ interrupted' = TRUE
      BY <1>1, <1>2, <2>2, <2>4, <2>6, <3>1, <3>3, NoRowsStep
    <3>4. CASE answer' = 200 /\ UNCHANGED interrupted /\ r = "dropped"
      BY <1>1, <1>2, <2>2, <2>3, <2>4, <2>6, <3>1, <3>4, NoRowsStep
    <3> QED
      BY <2>5, <2>6, <3>2, <3>3, <3>4
  <2>7. CASE posting' = "inserting" /\ UNCHANGED <<answer, interrupted>> /\ r # "dropped"
    <3>1. Reached' = 0
      BY <1>2, <2>2 DEF Reached
    <3>2. OtlpTyped'
      BY <2>2, <2>7 DEF OtlpInv, OtlpTyped, OtlpTypeOK, ExportOK
    <3>3. RowsInOrder'
      BY <1>1, <1>2, <2>2, <2>7, <3>1 DEF OtlpInv, RowsInOrder
    <3>4. OnceUninterrupted'
      BY <1>1, <1>2, <2>2, <2>7 DEF OnceUninterrupted
    <3>5. AnsweredInFull'
      BY <1>1, <2>2, <2>3, <2>7 DEF OtlpInv, AnsweredInFull
    <3> QED
      BY <2>4, <3>2, <3>3, <3>4, <3>5 DEF OtlpInv
  <2> QED
    BY <2>5, <2>6, <2>7
<1>7. CASE InsertChunk
  <2>1. ColumnsSay'
    BY <1>7, ColumnsStay DEF InsertChunk
  <2>2. /\ UNCHANGED <<export, posting, answer, sends, interrupted>> /\ chunk' = chunk + 1
        /\ posting = "inserting" /\ ChunkStored
    BY <1>7 DEF InsertChunk
  <2>3. /\ copiesOf' \in [1..MaxItems -> 0..MaxSends]
        /\ \A i \in 1..MaxItems : copiesOf'[i] <= sends /\ copiesOf'[i] >= copiesOf[i]
        /\ \A i \in 1..MaxItems : i > export.items => copiesOf'[i] = 0
        /\ \A i, j \in 1..MaxItems : i < j => copiesOf'[i] >= copiesOf'[j]
        /\ \A i \in 1..MaxItems :
              /\ i > Reached + OtlpChunk => copiesOf'[i] = copiesOf[i] /\ copiesOf[i] < sends
              /\ i <= Reached => copiesOf'[i] = copiesOf[i]
              /\ i > Reached /\ i <= Reached + OtlpChunk /\ i <= export.items =>
                     copiesOf'[i] = copiesOf[i] + 1
    BY <2>2, ChunkStep
  <2>4. Reached \in Nat /\ Reached' = Reached + OtlpChunk /\ OtlpChunk \in Nat /\ OtlpChunk >= 1
        /\ export.items \in Nat
    <3>1. Reached' = (chunk + 1) * OtlpChunk
      BY <2>2 DEF Reached
    <3> QED
      BY <3>1, ChunkArithmetic DEF OtlpInv, OtlpTyped, ExportOK
  <2>5. \A i \in 1..MaxItems : copiesOf'[i] \in Nat
    BY <2>3
  <2>6. OtlpTyped'
    BY <1>1, <2>2, <2>3 DEF OtlpInv, OtlpTyped, OtlpTypeOK, ExportOK
  <2>7. /\ \A i, j \in 1..MaxItems : i < j => copiesOf[i] >= copiesOf[j]
        /\ \A i \in 1..MaxItems : i <= Reached /\ i <= export.items =>
               copiesOf[i] >= 1 /\ \A j \in 1..MaxItems : j > Reached => copiesOf[j] < copiesOf[i]
    BY <2>2 DEF OtlpInv, RowsInOrder
  <2>8. RowsInOrder'
    <3>1. ASSUME NEW i \in 1..MaxItems, i > Reached' PROVE copiesOf'[i] < sends
      BY <2>3, <2>4, <3>1
    <3>2. ASSUME NEW i \in 1..MaxItems, i <= Reached', i <= export.items PROVE copiesOf'[i] >= 1
      BY <1>1, <2>3, <2>4, <2>7, <3>2
    <3>3. ASSUME NEW i \in 1..MaxItems, i <= Reached', i <= export.items,
                 NEW j \in 1..MaxItems, j > Reached'
          PROVE  copiesOf'[j] < copiesOf'[i]
      <4>1. copiesOf'[j] = copiesOf[j] /\ j > Reached /\ i < j
        BY <2>3, <2>4, <3>3
      <4>2. CASE i <= Reached
        BY <1>1, <2>3, <2>7, <3>3, <4>1, <4>2
      <4>3. CASE i > Reached
        BY <1>1, <2>3, <2>4, <2>7, <3>3, <4>1, <4>3
      <4> QED
        BY <2>4, <4>2, <4>3
    <3> QED
      BY <2>2, <2>3, <3>1, <3>2, <3>3 DEF RowsInOrder
  <2>9. OnceUninterrupted'
    <3> SUFFICES ASSUME ~interrupted, NEW i \in 1..MaxItems
                 PROVE  copiesOf'[i] <= 1 /\ (i <= Reached' \/ copiesOf'[i] = 0)
      BY <2>2 DEF OnceUninterrupted
    <3>1. copiesOf[i] <= 1 /\ (i <= Reached \/ copiesOf[i] = 0)
      BY <2>2 DEF OtlpInv, OnceUninterrupted
    <3>2. CASE i <= Reached
      BY <2>3, <2>4, <3>1, <3>2
    <3>3. CASE i > Reached /\ i <= Reached + OtlpChunk
      <4>1. i <= export.items \/ copiesOf'[i] = 0
        BY <2>3, <2>4
      <4> QED
        BY <1>1, <2>3, <2>4, <3>1, <3>3, <4>1
    <3>4. CASE i > Reached + OtlpChunk
      BY <2>3, <2>4, <3>1, <3>4
    <3> QED
      BY <2>4, <3>2, <3>3, <3>4
  <2>10. AnsweredInFull'
    BY <1>1, <2>2 DEF OtlpInv, AnsweredInFull
  <2> QED
    BY <2>1, <2>6, <2>8, <2>9, <2>10 DEF OtlpInv
<1>8. CASE InsertFails
  <2>1. ColumnsSay'
    BY <1>8, ColumnsStay DEF InsertFails
  <2>2. /\ UNCHANGED <<export, sends, chunk>> /\ posting = "inserting"
        /\ posting' = "answered" /\ answer' = 500 /\ interrupted' = TRUE
    BY <1>8 DEF InsertFails, Answers
  <2>3. CASE UNCHANGED copiesOf
    <3>1. sends' >= sends
      BY <1>1, <2>2
    <3> QED
      BY <1>1, <1>2, <2>1, <2>2, <2>3, <3>1, NoRowsStep
  <2>4. CASE ChunkStored
    <3>1. /\ copiesOf' \in [1..MaxItems -> 0..MaxSends]
          /\ \A i \in 1..MaxItems : copiesOf'[i] <= sends
          /\ \A i \in 1..MaxItems : i > export.items => copiesOf'[i] = 0
          /\ \A i, j \in 1..MaxItems : i < j => copiesOf'[i] >= copiesOf'[j]
      BY <2>2, <2>4, ChunkStep
    <3>2. OtlpTyped'
      BY <1>1, <2>2, <3>1 DEF OtlpInv, OtlpTyped, OtlpTypeOK, ExportOK
    <3>3. RowsInOrder' /\ OnceUninterrupted'
      BY <2>2, <3>1 DEF RowsInOrder, OnceUninterrupted
    <3>4. AnsweredInFull'
      BY <2>2 DEF OtlpInv, AnsweredInFull
    <3> QED
      BY <2>1, <3>2, <3>3, <3>4 DEF OtlpInv
  <2> QED
    BY <1>8, <2>3, <2>4 DEF InsertFails
<1>9. CASE Done
  <2>1. ColumnsSay'
    BY <1>9, ColumnsStay DEF Done, Stays
  <2>2. /\ UNCHANGED <<export, sends, copiesOf, chunk, interrupted>> /\ posting = "inserting"
        /\ posting' = "answered" /\ answer' = 200 /\ NextChunk = {}
    BY <1>9 DEF Done, Stays, Answers
  <2>3. \A i \in 1..export.items : copiesOf[i] >= 1
    <3>1. Reached \in Nat /\ OtlpChunk \in Nat /\ OtlpChunk >= 1 /\ export.items \in 0..MaxItems
      BY ChunkArithmetic DEF OtlpInv, OtlpTyped, ExportOK
    <3>2. ~(Reached + 1 <= export.items)
      <4>1. Reached + 1 \in Nat /\ Reached + 1 \notin NextChunk
        BY <2>2, <3>1
      <4> QED
        BY <3>1, <4>1, ChunkArithmetic DEF OtlpInv
    <3>3. \A i \in 1..export.items : i <= Reached /\ i \in 1..MaxItems
      BY <3>1, <3>2
    <3> QED
      BY <2>2, <3>3 DEF OtlpInv, RowsInOrder
  <2>4. sends' >= sends
    BY <1>1, <2>2
  <2> QED
    BY <1>1, <1>2, <2>1, <2>2, <2>3, <2>4, NoRowsStep
<1>10. CASE AnswerLost
  <2>1. ColumnsSay'
    BY <1>10, ColumnsStay DEF AnswerLost, Stays
  <2>2. /\ UNCHANGED <<export, sends, copiesOf, chunk, posting>> /\ posting = "answered"
        /\ answer' = 0 /\ interrupted' = TRUE
    BY <1>10 DEF AnswerLost, Stays
  <2>3. sends' >= sends
    BY <1>1, <2>2
  <2> QED
    BY <1>1, <1>2, <2>1, <2>2, <2>3, NoRowsStep
<1>11. CASE UNCHANGED otlpVars
  <2>1. Reached' = Reached
    BY <1>11 DEF otlpVars, Reached
  <2> QED
    BY <1>11, <2>1 DEF otlpVars, OtlpInv, OtlpTyped, OtlpTypeOK, ExportOK, RowsInOrder,
                       OnceUninterrupted, AnsweredInFull, ColumnsSay
<1> QED
  BY <1>3, <1>4, <1>5, <1>6, <1>7, <1>8, <1>9, <1>10, <1>11 DEF OtlpNext

LEMMA OtlpKeeps == OtlpSpec => []OtlpInv
  BY OtlpInitInv, OtlpNextInv, PTL DEF OtlpSpec

\* Where no known difference applies, every column says what its item says, from
\* either wire.
LEMMA ColumnsMean ==
    ASSUME OtlpInv, ~Misread, NEW shown,
           RowSays(export.fact, export.wire, shown) \notin {"refused", "throws", "dropped"}
    PROVE  RowSays(export.fact, export.wire, shown) = export.fact.says
<1> DEFINE fact == export.fact
           wire == export.wire
<1>1. fact \in AllFacts /\ fact.about \in Subjects /\ wire \in Wires(fact)
  BY FactsAre DEF OtlpInv, OtlpTyped, ExportOK
<1>2. wire \in {"json", "proto"} /\ (fact.form \in {"enum", "exporter"} => wire = "json")
  BY <1>1 DEF Wires
<1>3. CASE fact.about = "kind"
  <2>1. fact.form \in {"word", "enum", "number"}
    BY <1>1, <1>3, FactsAre
  <2> QED
    BY <1>1, <1>2, <1>3, <2>1, Column DEF Misread, KindNumber
<1>4. CASE fact.about = "status"
  BY <1>1, <1>2, <1>4, Column DEF Misread, StatusCode
<1>5. CASE fact.about \in {"attribute", "body"}
  BY <1>1, <1>2, <1>5, Column DEF Misread, AnyValue, AnyValueJson
<1>6. CASE fact.about = "value"
  BY <1>1, <1>2, <1>6, Column DEF Misread, NormalizeSumOrGauge
<1>7. CASE fact.about = "points"
  BY <1>1, <1>7, Column DEF DataPoints
<1>8. CASE fact.about = "time"
  BY <1>1, <1>2, <1>8, Column DEF Misread, LongNanosToDate
<1>9. CASE fact.about = "level"
  BY <1>1, <1>2, <1>9, Column DEF Misread, SeverityToText
<1> QED
  BY <1>1, <1>3, <1>4, <1>5, <1>6, <1>7, <1>8, <1>9 DEF Subjects

\* Type correctness of the OTLP endpoints.
THEOREM OtlpTypeCorrect == OtlpSpec => []OtlpTypeOK
<1>1. OtlpInv => OtlpTypeOK
  BY DEF OtlpInv, OtlpTyped
<1> QED
  BY <1>1, OtlpKeeps, PTL

\* An answer of the OTLP endpoints tells the sender what became of its batch, for any
\* number of items, chunks and posts, and both decoders read an item as it is meant
\* where no known difference applies (api/otlp.ts, ingestion/otlp-parser.ts).
THEOREM OtlpKeepsItsPromise == OtlpSpec => []OtlpKept
<1>1. OtlpInv => AnswerTold
  <2> SUFFICES ASSUME OtlpInv PROVE AnswerTold
    OBVIOUS
  <2> DEFINE rows == {i \in 1..export.items : copiesOf[i] > 0}
  <2>1. /\ export.items \in 0..MaxItems /\ MaxItems \in Nat
        /\ \A i \in 1..MaxItems : copiesOf[i] \in Nat
        /\ \A i \in rows : i \in 1..MaxItems
    BY OtlpAssumption DEF OtlpAssumption, OtlpInv, OtlpTyped, OtlpTypeOK, ExportOK
  <2>2. ASSUME answer = 200
        PROVE  rows \in {{}, 1..export.items} /\ (rows = {} /\ export.items > 0 => export.fact.says = "histogram")
    <3>1. CASE export.fact.says = "histogram"
      <4>1. rows = {}
        BY <2>1, <3>1 DEF OtlpInv, AnsweredInFull
      <4> QED
        BY <3>1, <4>1
    <3>2. CASE export.fact.says # "histogram"
      <4>1. \A i \in 1..export.items : copiesOf[i] >= 1
        BY <2>2, <3>2 DEF OtlpInv, AnsweredInFull
      <4>2. rows = 1..export.items
        BY <2>1, <4>1
      <4>3. export.items > 0 => 1 \in rows
        BY <2>1, <4>2
      <4> QED
        BY <4>2, <4>3
    <3> QED
      BY <3>1, <3>2
  <2>3. answer \in {400, 401, 403, 413} /\ rows # {} => interrupted
    <3> SUFFICES ASSUME answer \in {400, 401, 403, 413}, ~interrupted PROVE rows = {}
      BY DEF OtlpInv, OtlpTyped, OtlpTypeOK
    <3>1. posting # "inserting" /\ answer # 200
      BY DEF OtlpInv, AnsweredInFull
    <3>2. \A i \in 1..MaxItems : copiesOf[i] = 0
      BY <3>1 DEF OtlpInv, OnceUninterrupted
    <3> QED
      BY <2>1, <3>2
  <2>4. \A i \in rows : copiesOf[i] > 1 => interrupted
    BY <2>1 DEF OtlpInv, OnceUninterrupted, OtlpTyped, OtlpTypeOK
  <2>5. \A i, j \in 1..MaxItems : i < j => copiesOf[i] >= copiesOf[j]
    BY DEF OtlpInv, RowsInOrder
  <2> QED
    BY <2>2, <2>3, <2>4, <2>5 DEF AnswerTold
<1>2. OtlpInv => RowsMean
  <2> SUFFICES ASSUME OtlpInv, written # "none", ~Misread PROVE written = export.fact.says
    BY DEF RowsMean
  <2>1. PICK shown \in {"never", "plain", "all"} :
            /\ written = RowSays(export.fact, export.wire, shown)
            /\ written \notin {"refused", "throws", "dropped"}
    BY DEF OtlpInv, ColumnsSay
  <2> QED
    BY <2>1, ColumnsMean
<1>3. OtlpInv => OtlpKept
  BY <1>1, <1>2 DEF OtlpKept
<1> QED
  BY <1>3, OtlpKeeps, PTL
-----------------------------------------------------------------------------
(***************************************************************************)
(* ProjectCaches.                                                          *)
(***************************************************************************)
Entry == [name : Nat, version : Versions, expires : Nat, late : BOOLEAN]
NoTwice(c) == \A i, j \in DOMAIN c : c[i].name = c[j].name => i = j
Keeps(d, c) == \A i \in DOMAIN d : \E j \in DOMAIN c : d[i] = c[j]
Caching(c) == c \in Seq(Entry) /\ NoTwice(c)

CachesTyped ==
    /\ CachesTypeOK /\ Caching(cache)
    /\ lookup \in [Callers -> [step : {"idle", "asked", "read"}, name : Nat,
                               version : 0..MaxVersion, since : Nat]]
    /\ used \in [from : {"none", "cache", "lookup"}, version : 0..MaxVersion, late : BOOLEAN]

\* An entry lives Ttl from when it was written, which is at most MaxQuery after its
\* version was replaced; and the limit's is late, unless its deletion is to come.
Timely(e) ==
    /\ e.version <= stored /\ e.expires <= now + Ttl
    /\ Stale(e.version) => e.expires <= ended[e.version] + MaxQuery + Ttl
    /\ watched = "limit" => e.name = 0 /\ (Stale(e.version) => e.late \/ busting)

\* A lookup takes at most MaxQuery; what it has read was the version when it began,
\* or a later one.
Prompt(l) ==
    l.step # "idle" =>
        /\ l.since <= now /\ now <= l.since + MaxQuery
        /\ watched = "limit" => l.name = 0
        /\ l.step = "read" => /\ l.version \in 1..stored
                              /\ Stale(l.version) => l.since <= ended[l.version]

CachesInv ==
    /\ CachesTyped
    /\ \A v \in Versions : v < stored => ended[v] <= now
    /\ \A i \in DOMAIN cache : Timely(cache[i])
    /\ \A c \in Callers : Prompt(lookup[c])
    /\ busting => watched = "limit"
    /\ StaleAnswersDie /\ LimitSettles

\* An entry is taken out of the Map.
LEMMA WithoutKeeps ==
    ASSUME NEW c, Caching(c), NEW n
    PROVE  /\ Caching(Without(c, n)) /\ Keeps(Without(c, n), c)
           /\ Len(Without(c, n)) <= Len(c) /\ Entries(Without(c, n), n) = {}
           /\ Entries(c, n) # {} => Len(Without(c, n)) = Len(c) - 1
<1> DEFINE W == Without(c, n)
<1>1. c \in Seq(Entry) /\ DOMAIN c = 1..Len(c) /\ Len(c) \in Nat
  BY DEF Caching
<1>2. CASE Entries(c, n) = {}
  <2>1. W = c
    BY <1>2 DEF Without
  <2> HIDE DEF W
  <2>2. Keeps(W, c)
    BY <2>1 DEF Keeps
  <2> QED
    BY <1>1, <1>2, <2>1, <2>2 DEF W
<1>3. CASE Entries(c, n) # {}
  <2>1. PICK k \in Entries(c, n) : W = SubSeq(c, 1, k - 1) \o SubSeq(c, k + 1, Len(c))
    BY <1>3 DEF Without, RemoveAt
  <2>2. k \in 1..Len(c) /\ c[k].name = n
    BY <1>1 DEF Entries
  <2> HIDE DEF W
  <2>3. /\ SubSeq(c, 1, k - 1) \in Seq(Entry) /\ Len(SubSeq(c, 1, k - 1)) = k - 1
        /\ \A i \in 1..(k - 1) : SubSeq(c, 1, k - 1)[i] = c[i]
    <3>1. 1 \in 1..(Len(c) + 1) /\ k - 1 \in (1 - 1)..Len(c)
      BY <1>1, <2>2
    <3> QED
      BY <1>1, <2>2, <3>1, SubSeqProperties
  <2>4. /\ SubSeq(c, k + 1, Len(c)) \in Seq(Entry) /\ Len(SubSeq(c, k + 1, Len(c))) = Len(c) - k
        /\ \A i \in 1..(Len(c) - k) : SubSeq(c, k + 1, Len(c))[i] = c[k + i]
    <3> DEFINE m == k + 1
               D == SubSeq(c, m, Len(c))
    <3>1. m \in Int /\ Len(c) \in Int /\ \A i \in m..Len(c) : c[i] \in Entry
      BY <1>1, <2>2
    <3> HIDE DEF m
    <3>2. /\ D \in Seq(Entry) /\ Len(D) = IF m <= Len(c) THEN Len(c) - m + 1 ELSE 0
          /\ \A i \in 1..(Len(c) - m + 1) : D[i] = c[m + i - 1]
      BY <3>1, SubSeqProperties
    <3> HIDE DEF D
    <3>3. Len(c) - m + 1 = Len(c) - k /\ (m <= Len(c) \/ Len(c) - k = 0)
          /\ \A i \in 1..(Len(c) - k) : m + i - 1 = k + i
      <4>1. m = k + 1 /\ k \in Int /\ Len(c) \in Int /\ k <= Len(c)
        BY <1>1, <2>2 DEF m
      <4>2. Len(c) - m + 1 = Len(c) - k
        BY <4>1
      <4>3. m <= Len(c) \/ Len(c) - k = 0
        BY <4>1
      <4>4. \A i \in 1..(Len(c) - k) : m + i - 1 = k + i
        BY <4>1
      <4> QED
        BY <4>2, <4>3, <4>4
    <3>4. Len(D) = Len(c) - k /\ \A i \in 1..(Len(c) - k) : D[i] = c[k + i]
      BY <1>1, <2>2, <3>2, <3>3
    <3> QED
      BY <3>2, <3>4 DEF D, m
  <2> DEFINE A == SubSeq(c, 1, k - 1)
             B == SubSeq(c, k + 1, Len(c))
  <2> HIDE DEF A, B
  <2>5. /\ A \in Seq(Entry) /\ B \in Seq(Entry) /\ Len(A) = k - 1 /\ Len(B) = Len(c) - k /\ W = A \o B
        /\ \A i \in 1..(k - 1) : A[i] = c[i]
        /\ \A i \in 1..(Len(c) - k) : B[i] = c[k + i]
    BY <2>1, <2>3, <2>4 DEF A, B
  <2>6. W \in Seq(Entry) /\ Len(W) = Len(c) - 1 /\ DOMAIN W = 1..(Len(c) - 1)
    <3>1. W \in Seq(Entry) /\ Len(W) = Len(A) + Len(B)
      BY <2>5, ConcatProperties
    <3>2. Len(W) = Len(c) - 1
      BY <1>1, <2>2, <2>5, <3>1
    <3>3. DOMAIN W = 1..Len(W)
      BY <3>1
    <3> QED
      BY <3>1, <3>2, <3>3
  <2>7. \A i \in 1..(Len(c) - 1) : W[i] = IF i < k THEN c[i] ELSE c[i + 1]
    <3> TAKE i \in 1..(Len(c) - 1)
    <3>1. CASE i < k
      <4>1. i \in 1..(k - 1) /\ W[i] = A[i]
        BY <1>1, <2>2, <2>5, <3>1
      <4> QED
        BY <2>5, <3>1, <4>1
    <3>2. CASE i >= k
      <4>1. i - (k - 1) \in 1..(Len(c) - k) /\ W[i] = B[i - (k - 1)] /\ k + (i - (k - 1)) = i + 1
        BY <1>1, <2>2, <2>5, <3>2
      <4> QED
        BY <2>2, <2>5, <3>2, <4>1
    <3> QED
      BY <2>2, <3>1, <3>2
  <2>8. \A i \in 1..(Len(c) - 1) : \E j \in 1..Len(c) : j # k /\ W[i] = c[j] /\ j = IF i < k THEN i ELSE i + 1
    <3> TAKE i \in 1..(Len(c) - 1)
    <3>1. i \in 1..Len(c) /\ i + 1 \in 1..Len(c) /\ (i >= k => i + 1 # k) /\ (i < k => i # k)
      BY <1>1, <2>2
    <3> QED
      BY <2>2, <2>7, <3>1
  <2>9. Keeps(W, c)
    BY <1>1, <2>6, <2>8 DEF Keeps
  <2>10. NoTwice(W)
    <3> SUFFICES ASSUME NEW i \in 1..(Len(c) - 1), NEW j \in 1..(Len(c) - 1), W[i].name = W[j].name
                 PROVE  i = j
      BY <2>6 DEF NoTwice
    <3>1. PICK a \in 1..Len(c) : W[i] = c[a] /\ a = IF i < k THEN i ELSE i + 1
      BY <2>8
    <3>2. PICK b \in 1..Len(c) : W[j] = c[b] /\ b = IF j < k THEN j ELSE j + 1
      BY <2>8
    <3>3. a = b
      BY <1>1, <3>1, <3>2 DEF Caching, NoTwice
    <3> QED
      BY <2>2, <3>1, <3>2, <3>3
  <2>11. Entries(W, n) = {}
    <3> SUFFICES ASSUME NEW i \in 1..(Len(c) - 1), W[i].name = n PROVE FALSE
      BY <2>6 DEF Entries
    <3>1. PICK j \in 1..Len(c) : j # k /\ W[i] = c[j]
      BY <2>8
    <3> QED
      BY <1>1, <2>2, <3>1 DEF Caching, NoTwice
  <2>12. Len(W) <= Len(c)
    BY <1>1, <2>6
  <2> QED
    BY <1>3, <2>6, <2>9, <2>10, <2>11, <2>12 DEF Caching, W
<1> QED
  BY <1>2, <1>3

\* An entry is put at the end of the Map.
LEMMA AppendKeeps ==
    ASSUME NEW c, Caching(c), NEW e \in Entry, Entries(c, e.name) = {}
    PROVE  /\ Caching(Append(c, e)) /\ Len(Append(c, e)) = Len(c) + 1
           /\ Append(c, e)[Len(c) + 1] = e
           /\ \A i \in DOMAIN Append(c, e) : Append(c, e)[i] = e \/ \E j \in DOMAIN c : Append(c, e)[i] = c[j]
<1>1. c \in Seq(Entry) /\ DOMAIN c = 1..Len(c) /\ Len(c) \in Nat
  BY DEF Caching
<1> DEFINE A == Append(c, e)
<1>2. A \in Seq(Entry) /\ Len(A) = Len(c) + 1 /\ DOMAIN A = 1..(Len(c) + 1)
      /\ A[Len(c) + 1] = e /\ \A i \in 1..Len(c) : A[i] = c[i]
  BY <1>1
<1> HIDE DEF A
<1>3. \A i \in 1..(Len(c) + 1) : i \in 1..Len(c) \/ i = Len(c) + 1
  BY <1>1
<1>4. \A i \in 1..Len(c) : c[i].name # e.name
  BY <1>1 DEF Entries
<1>5. NoTwice(A)
  <2> SUFFICES ASSUME NEW i \in DOMAIN A, NEW j \in DOMAIN A, A[i].name = A[j].name PROVE i = j
    BY DEF NoTwice
  <2>1. CASE i \in 1..Len(c) /\ j \in 1..Len(c)
    BY <1>1, <1>2, <2>1 DEF Caching, NoTwice
  <2>2. CASE i = Len(c) + 1 \/ j = Len(c) + 1
    BY <1>2, <1>3, <1>4, <2>2
  <2> QED
    BY <1>2, <1>3, <2>1, <2>2
<1>6. \A i \in DOMAIN A : A[i] = e \/ \E j \in DOMAIN c : A[i] = c[j]
  BY <1>1, <1>2, <1>3
<1> QED
  BY <1>2, <1>5, <1>6 DEF Caching, A

\* What a request gets.
LEMMA GetKeeps ==
    ASSUME NEW c, Caching(c), NEW n, watched \in {"key", "tenant", "limit"}
    PROVE  /\ Caching(Get(c, n)) /\ Keeps(Get(c, n), c) /\ Len(Get(c, n)) <= Len(c)
           /\ Entries(Get(c, n), n) # {} =>
                  /\ Len(Get(c, n)) \in DOMAIN Get(c, n)
                  /\ ~(now > Get(c, n)[Len(Get(c, n))].expires)
<1>1. c \in Seq(Entry) /\ DOMAIN c = 1..Len(c) /\ Len(c) \in Nat
  BY DEF Caching
<1>2. Keeps(c, c)
  BY DEF Keeps
<1>3. CASE Entries(c, n) = {}
  BY <1>1, <1>2, <1>3 DEF Get
<1>4. CASE Entries(c, n) # {}
  <2>1. Get(c, n) = CacheGet(c, n)
    BY <1>4 DEF Get, TenantCacheGet, ProjectLimitCacheGet
  <2>2. PICK k \in Entries(c, n) :
           CacheGet(c, n) = IF now > c[k].expires THEN Without(c, n) ELSE Append(Without(c, n), c[k])
    BY <1>4 DEF CacheGet
  <2>3. k \in 1..Len(c) /\ c[k].name = n /\ c[k] \in Entry
    BY <1>1 DEF Entries
  <2> DEFINE W == Without(c, n)
  <2>4. Caching(W) /\ Keeps(W, c) /\ Len(W) = Len(c) - 1 /\ Entries(W, n) = {}
    BY <1>4, WithoutKeeps
  <2> HIDE DEF W
  <2>5. CASE now > c[k].expires
    <3>1. Get(c, n) = W
      BY <2>1, <2>2, <2>5 DEF W
    <3>2. Len(W) <= Len(c)
      BY <1>1, <2>4
    <3> QED
      BY <2>4, <3>1, <3>2
  <2>6. CASE ~(now > c[k].expires)
    <3>1. Get(c, n) = Append(W, c[k])
      BY <2>1, <2>2, <2>6 DEF W
    <3> DEFINE A == Append(W, c[k])
    <3>2. /\ Caching(A) /\ Len(A) = Len(W) + 1 /\ A[Len(W) + 1] = c[k]
          /\ \A i \in DOMAIN A : A[i] = c[k] \/ \E j \in DOMAIN W : A[i] = W[j]
      BY <2>3, <2>4, AppendKeeps
    <3> HIDE DEF A
    <3>3. Keeps(A, c)
      BY <1>1, <2>3, <2>4, <3>2 DEF Keeps
    <3>4. Len(A) = Len(c) /\ Len(A) \in DOMAIN A
      <4>1. A \in Seq(Entry) /\ Len(c) >= 1 /\ Len(A) = Len(c)
        BY <1>1, <2>3, <2>4, <3>2 DEF Caching
      <4> QED
        BY <1>1, <4>1
    <3>5. A[Len(A)] = c[k] /\ Len(A) <= Len(c)
      BY <1>1, <2>4, <3>2, <3>4
    <3> QED
      BY <2>6, <3>1, <3>2, <3>3, <3>4, <3>5 DEF A
  <2> QED
    BY <2>5, <2>6
<1> QED
  BY <1>3, <1>4

\* What a lookup puts into the cache.
LEMMA SetKeeps ==
    ASSUME NEW c, Caching(c), Len(c) <= CacheMax, NEW e \in Entry, watched \in {"key", "tenant", "limit"}
    PROVE  /\ Caching(Set(c, e)) /\ Len(Set(c, e)) <= CacheMax
           /\ \A i \in DOMAIN Set(c, e) : Set(c, e)[i] = e \/ \E j \in DOMAIN c : Set(c, e)[i] = c[j]
<1>1. c \in Seq(Entry) /\ DOMAIN c = 1..Len(c) /\ Len(c) \in Nat /\ CacheMax \in Nat /\ CacheMax >= 1
  BY CachesAssumption DEF Caching, CachesAssumption
<1> DEFINE d == IF Len(c) >= CacheMax THEN Tail(c) ELSE c
<1>2. Set(c, e) = IF Entries(d, e.name) = {} THEN Append(d, e)
                  ELSE [i \in DOMAIN d |-> IF d[i].name = e.name THEN e ELSE d[i]]
  BY DEF Set, TenantCacheSet, ProjectLimitCacheSet, CacheSet
<1>3. Caching(d) /\ Len(d) < CacheMax /\ Keeps(d, c)
  <2>1. CASE Len(c) >= CacheMax
    <3> DEFINE t == Tail(c)
    <3>1. d = t
      BY <2>1
    <3>2. t \in Seq(Entry) /\ Len(t) = Len(c) - 1 /\ DOMAIN t = 1..(Len(c) - 1)
          /\ \A i \in 1..(Len(c) - 1) : i + 1 \in 1..Len(c) /\ t[i] = c[i + 1]
      BY <1>1, <2>1
    <3> HIDE DEF t
    <3>3. NoTwice(t)
      <4> SUFFICES ASSUME NEW i \in 1..(Len(c) - 1), NEW j \in 1..(Len(c) - 1), t[i].name = t[j].name
                   PROVE  i = j
        BY <3>2 DEF NoTwice
      <4>1. i + 1 = j + 1
        BY <1>1, <3>2 DEF Caching, NoTwice
      <4> QED
        BY <4>1
    <3>4. Keeps(t, c)
      BY <1>1, <3>2 DEF Keeps
    <3>5. Len(t) < CacheMax
      BY <1>1, <3>2
    <3> HIDE DEF d
    <3> QED
      BY <3>1, <3>2, <3>3, <3>4, <3>5 DEF Caching
  <2>2. CASE Len(c) < CacheMax
    <3>1. d = c
      <4>1. ~(Len(c) >= CacheMax)
        BY <1>1, <2>2
      <4> QED
        BY <4>1
    <3> HIDE DEF d
    <3> QED
      BY <2>2, <3>1 DEF Keeps
  <2> QED
    BY <1>1, <2>1, <2>2
<1> HIDE DEF d
<1>4. d \in Seq(Entry) /\ DOMAIN d = 1..Len(d) /\ Len(d) \in Nat
  BY <1>3 DEF Caching
<1>5. CASE Entries(d, e.name) = {}
  <2> DEFINE A == Append(d, e)
  <2>1. /\ Caching(A) /\ Len(A) = Len(d) + 1
        /\ \A i \in DOMAIN A : A[i] = e \/ \E j \in DOMAIN d : A[i] = d[j]
    BY <1>3, <1>5, AppendKeeps
  <2>2. Set(c, e) = A
    BY <1>2, <1>5
  <2> HIDE DEF A
  <2>3. Len(A) <= CacheMax
    BY <1>1, <1>3, <1>4, <2>1
  <2> QED
    BY <1>3, <2>1, <2>2, <2>3 DEF Keeps
<1>6. CASE Entries(d, e.name) # {}
  <2> DEFINE B == [i \in DOMAIN d |-> IF d[i].name = e.name THEN e ELSE d[i]]
  <2>1. Set(c, e) = B
    BY <1>2, <1>6
  <2>2. B \in Seq(Entry) /\ Len(B) = Len(d) /\ DOMAIN B = DOMAIN d
    BY <1>4
  <2>3. \A i \in DOMAIN d : (B[i] = e \/ B[i] = d[i]) /\ B[i].name = d[i].name
    BY <1>4
  <2> HIDE DEF B
  <2>4. NoTwice(B)
    BY <1>3, <2>2, <2>3 DEF Caching, NoTwice
  <2>5. Len(B) <= CacheMax
    BY <1>1, <1>3, <1>4, <2>2
  <2> QED
    BY <1>3, <2>1, <2>2, <2>3, <2>4, <2>5 DEF Caching, Keeps
<1> QED
  BY <1>5, <1>6

LEMMA CachesTypes ==
    ASSUME CachesInv
    PROVE  /\ watched \in {"key", "tenant", "limit"} /\ now \in 0..LastTime /\ stored \in Versions
           /\ now \in Nat /\ stored \in Nat /\ stored >= 1 /\ LastTime \in Nat /\ MaxVersion \in Nat
           /\ Ttl \in Nat /\ MaxQuery \in Nat /\ stored <= MaxVersion /\ now <= LastTime
           /\ Versions = 1..MaxVersion
           /\ ended \in [Versions -> 0..LastTime] /\ Len(cache) <= CacheMax
           /\ Caching(cache) /\ cache \in Seq(Entry) /\ DOMAIN cache = 1..Len(cache)
           /\ \A i \in DOMAIN cache : cache[i] \in Entry /\ cache[i].expires <= LastTime + Ttl
           /\ \A c \in Callers : /\ lookup[c].step \in {"idle", "asked", "read"} /\ lookup[c].name \in Nat
                                  /\ lookup[c].version \in 0..stored /\ lookup[c].since \in Nat
                                  /\ lookup[c].since <= now
           /\ lookup \in [Callers -> [step : {"idle", "asked", "read"}, name : Nat,
                                      version : 0..MaxVersion, since : Nat]]
           /\ busting \in BOOLEAN
<1> USE CachesAssumption DEF CachesAssumption
<1>1. stored \in 1..MaxVersion /\ now \in 0..LastTime /\ MaxVersion \in Nat /\ LastTime \in Nat
  BY DEF CachesInv, CachesTyped, CachesTypeOK, Versions
<1>2. \A i \in DOMAIN cache : cache[i] \in Entry /\ cache[i].expires <= LastTime + Ttl
  BY DEF CachesInv, CachesTyped, CachesTypeOK, Caching
<1>3. \A c \in Callers : /\ lookup[c].step \in {"idle", "asked", "read"} /\ lookup[c].name \in Nat
                          /\ lookup[c].version \in 0..stored /\ lookup[c].since \in Nat
                          /\ lookup[c].since <= now
  BY DEF CachesInv, CachesTyped, CachesTypeOK
<1>4. cache \in Seq(Entry) /\ DOMAIN cache = 1..Len(cache)
  BY DEF CachesInv, CachesTyped, Caching
<1> QED
  BY <1>1, <1>2, <1>3, <1>4 DEF CachesInv, CachesTyped, CachesTypeOK, Versions

LEMMA UnusedIs ==
    /\ Unused \in [from : {"none", "cache", "lookup"}, version : 0..MaxVersion, late : BOOLEAN]
    /\ Unused.version = 0 /\ Unused.from = "none"
    /\ Idle \in [step : {"idle", "asked", "read"}, name : Nat, version : 0..MaxVersion, since : Nat]
    /\ Idle.step = "idle" /\ Idle.version = 0 /\ Idle.since = 0
  BY CachesAssumption DEF Unused, Idle, CachesAssumption

LEMMA CachesInitInv == CachesInit => CachesInv
<1> SUFFICES ASSUME CachesInit PROVE CachesInv
  OBVIOUS
<1> USE CachesAssumption DEF CachesAssumption
<1>1. 1 \in Versions /\ 0 \in 0..LastTime /\ 0 \in 0..MaxVersion
  BY DEF Versions
<1>2. cache \in Seq(Entry) /\ DOMAIN cache = {} /\ Len(cache) = 0
  BY DEF CachesInit
<1>3. Caching(cache)
  BY <1>2 DEF Caching, NoTwice
<1>4. ended \in [Versions -> 0..LastTime]
  BY <1>1 DEF CachesInit
<1>5. \A c \in Callers : lookup[c] = Idle
  BY DEF CachesInit
<1>6. CachesTypeOK
  <2>1. \A c \in Callers : lookup[c].since <= now /\ lookup[c].version \in 0..stored
    BY <1>5, UnusedIs DEF CachesInit
  <2>2. used.version \in 0..stored
    BY UnusedIs DEF CachesInit
  <2>3. Len(cache) <= CacheMax
    BY <1>2
  <2>4. watched \in {"key", "tenant", "limit"} /\ now = 0 /\ stored = 1 /\ busting = FALSE
    BY DEF CachesInit
  <2> QED
    BY <1>1, <1>2, <1>4, <2>1, <2>2, <2>3, <2>4 DEF CachesTypeOK
<1>7. CachesTyped
  BY <1>3, <1>6, UnusedIs DEF CachesInit, CachesTyped
<1>8. stored = 1 /\ \A v \in Versions : ~(v < stored)
  BY DEF CachesInit, Versions
<1>9. StaleAnswersDie /\ LimitSettles
  BY UnusedIs DEF CachesInit, StaleAnswersDie, LimitSettles
<1> QED
  BY <1>2, <1>5, <1>7, <1>8, <1>9, UnusedIs DEF CachesInv, Prompt, CachesInit

\* The type invariants after a step, from those of the variables it changes.
LEMMA TypesAgain ==
    ASSUME CachesInv, UNCHANGED watched,
           now' \in 0..LastTime, now' >= now, stored' \in Versions, stored' >= stored,
           ended' \in [Versions -> 0..LastTime], busting' \in BOOLEAN,
           Caching(cache'), Len(cache') <= CacheMax,
           \A i \in DOMAIN cache' : cache'[i].expires <= LastTime + Ttl,
           lookup' \in [Callers -> [step : {"idle", "asked", "read"}, name : Nat,
                                    version : 0..MaxVersion, since : Nat]],
           \A c \in Callers : lookup'[c].since <= now' /\ lookup'[c].version <= stored',
           used' \in [from : {"none", "cache", "lookup"}, version : 0..MaxVersion, late : BOOLEAN],
           used'.version <= stored'
    PROVE  CachesTyped'
<1>1. cache' \in Seq(Entry)
  BY DEF Caching
<1>2. \A i \in DOMAIN cache' : cache'[i] \in Entry
  BY <1>1
<1>3. LastTime + Ttl \in Nat /\ stored' \in Nat
  BY CachesAssumption DEF CachesAssumption, Versions
<1>4. \A i \in DOMAIN cache' : cache'[i].version \in Versions /\ cache'[i].expires \in 0..(LastTime + Ttl)
  BY <1>2, <1>3 DEF Entry
<1>5. \A c \in Callers : lookup'[c].version \in 0..stored'
  BY <1>3
<1>6. used'.version \in 0..stored'
  BY <1>3
<1>7. \A i, j \in DOMAIN cache' : cache'[i].name = cache'[j].name => i = j
  BY DEF Caching, NoTwice
<1>8. watched' \in {"key", "tenant", "limit"}
  BY CachesTypes
<1>9. CachesTypeOK'
  BY <1>4, <1>5, <1>6, <1>7, <1>8 DEF CachesTypeOK, Versions
<1>10. Caching(cache)' = Caching(cache')
  BY DEF Caching, Entry, NoTwice, Versions
<1> QED
  BY <1>9, <1>10 DEF CachesTyped

\* A step of a request that neither changes the database nor the clock.
LEMMA RequestStep ==
    ASSUME CachesInv, UNCHANGED <<watched, now, stored, ended>>, busting' \in BOOLEAN,
           busting' => busting,
           Caching(cache'), Len(cache') <= CacheMax,
           \A i \in DOMAIN cache' :
               /\ cache'[i].version <= stored /\ cache'[i].expires <= now + Ttl
               /\ Stale(cache'[i].version) => cache'[i].expires <= ended[cache'[i].version] + MaxQuery + Ttl
               /\ watched = "limit" => cache'[i].name = 0 /\ (Stale(cache'[i].version) => cache'[i].late \/ busting'),
           \A d \in Callers : lookup'[d] = lookup[d] \/ lookup'[d] = Idle \/
               (/\ lookup'[d] \in [step : {"idle", "asked", "read"}, name : Nat,
                                    version : 0..MaxVersion, since : Nat]
                /\ lookup'[d].version <= stored /\ lookup'[d].since <= now /\ Prompt(lookup'[d])),
           lookup' \in [Callers -> [step : {"idle", "asked", "read"}, name : Nat,
                                    version : 0..MaxVersion, since : Nat]],
           used' \in [from : {"none", "cache", "lookup"}, version : 0..MaxVersion, late : BOOLEAN],
           used'.version <= stored,
           Stale(used'.version) /\ used'.version # 0 => now - ended[used'.version] <= Ttl + MaxQuery,
           watched = "limit" /\ used'.from = "cache" /\ Stale(used'.version) => used'.late \/ busting'
    PROVE  CachesInv'
<1>1. CachesTyped'
  <2>1. /\ now \in 0..LastTime /\ stored \in Versions /\ ended \in [Versions -> 0..LastTime]
        /\ now \in Nat /\ stored \in Nat /\ LastTime \in Nat /\ Ttl \in Nat
    BY CachesTypes
  <2>2. \A i \in DOMAIN cache' : cache'[i].expires <= LastTime + Ttl
    <3> TAKE i \in DOMAIN cache'
    <3>1. cache'[i] \in Entry
      BY DEF Caching
    <3> QED
      BY <2>1, <3>1 DEF Entry
  <2>3. \A d \in Callers : lookup'[d].since <= now /\ lookup'[d].version <= stored
    <3> TAKE d \in Callers
    <3>1. CASE lookup'[d] = lookup[d]
      BY <2>1, <3>1, CachesTypes
    <3>2. CASE lookup'[d] = Idle
      BY <2>1, <3>2, UnusedIs
    <3>3. CASE lookup'[d] # Idle /\ lookup'[d] # lookup[d]
      BY <3>3, <2>1 DEF Prompt
    <3> QED
      BY <3>1, <3>2, <3>3
  <2> QED
    BY <2>1, <2>2, <2>3, TypesAgain
<1>2. \A i \in DOMAIN cache' : Timely(cache[i])'
  BY DEF Timely, Stale
<1>3. \A d \in Callers : Prompt(lookup[d])'
  <2> TAKE d \in Callers
  <2>1. CASE lookup'[d] = lookup[d]
    BY <2>1 DEF CachesInv, Prompt, Stale
  <2>2. CASE lookup'[d] = Idle
    BY <2>2, UnusedIs DEF Prompt
  <2>3. CASE Prompt(lookup'[d])
    BY <2>3 DEF Prompt, Stale
  <2> QED
    BY <2>1, <2>2, <2>3
<1>4. StaleAnswersDie' /\ LimitSettles'
  BY DEF StaleAnswersDie, LimitSettles, Stale
<1>5. (\A v \in Versions : v < stored => ended[v] <= now)' /\ (busting' => watched' = "limit")
  BY DEF CachesInv, Versions
<1> QED
  BY <1>1, <1>2, <1>3, <1>4, <1>5 DEF CachesInv

LEMMA AskStep == ASSUME CachesInv, NEW c \in Callers, Ask(c) PROVE CachesInv'
<1>1. PICK n \in Names :
        LET kept == Get(cache, n)
            e == kept[Len(kept)]
        IN
        /\ lookup[c] = Idle
        /\ cache' = kept
        /\ IF Entries(kept, n) # {}
           THEN /\ used' = [from |-> "cache", version |-> e.version, late |-> e.late]
                /\ UNCHANGED lookup
           ELSE /\ used' = Unused
                /\ lookup' = [lookup EXCEPT ![c] =
                     [step |-> "asked", name |-> n, version |-> 0, since |-> now]]
        /\ UNCHANGED <<watched, now, stored, ended, busting>>
  BY DEF Ask
<1> DEFINE kept == Get(cache, n)
           e == kept[Len(kept)]
<1>2. /\ cache' = kept
      /\ \/ /\ Entries(kept, n) # {}
            /\ used' = [from |-> "cache", version |-> e.version, late |-> e.late]
            /\ lookup' = lookup
         \/ /\ used' = Unused
            /\ lookup' = [lookup EXCEPT ![c] =
                     [step |-> "asked", name |-> n, version |-> 0, since |-> now]]
      /\ UNCHANGED <<watched, now, stored, ended, busting>>
  BY <1>1
<1>3. n \in Nat /\ (watched = "limit" => n = 0)
  BY CachesTypes DEF Names
<1>4. /\ Caching(kept) /\ Keeps(kept, cache) /\ Len(kept) <= Len(cache)
      /\ Entries(kept, n) # {} => Len(kept) \in DOMAIN kept /\ ~(now > kept[Len(kept)].expires)
  BY CachesTypes, GetKeeps
<1> HIDE DEF kept
<1>5. /\ now \in Nat /\ stored \in Nat /\ Ttl \in Nat /\ MaxQuery \in Nat /\ MaxVersion \in Nat
      /\ stored \in 1..MaxVersion /\ Versions = 1..MaxVersion
      /\ ended \in [Versions -> 0..LastTime]
      /\ Len(cache) <= CacheMax /\ Len(cache) \in Nat /\ Len(kept) \in Nat /\ CacheMax \in Nat /\ busting \in BOOLEAN
  BY <1>4, CachesTypes, CachesAssumption DEF CachesAssumption, Caching
<1>6. \A i \in DOMAIN kept : Timely(kept[i]) /\ kept[i] \in Entry
  BY <1>4, CachesTypes DEF Keeps, CachesInv
<1>7. \A i \in DOMAIN cache' :
               /\ cache'[i].version <= stored /\ cache'[i].expires <= now + Ttl
               /\ Stale(cache'[i].version) => cache'[i].expires <= ended[cache'[i].version] + MaxQuery + Ttl
               /\ watched = "limit" => cache'[i].name = 0 /\ (Stale(cache'[i].version) => cache'[i].late \/ busting')
  BY <1>2, <1>6 DEF Timely
<1>8. Caching(cache') /\ Len(cache') <= CacheMax
  BY <1>2, <1>4, <1>5
<1>9. CASE Entries(kept, n) # {} /\ used' = [from |-> "cache", version |-> e.version, late |-> e.late]
           /\ lookup' = lookup
  <2>1. e \in Entry /\ Timely(e) /\ ~(now > e.expires)
    BY <1>4, <1>6, <1>9
  <2> HIDE DEF e
  <2>2. used'.version = e.version /\ used'.from = "cache" /\ used'.late = e.late
    BY <1>9
  <2>3. used' \in [from : {"none", "cache", "lookup"}, version : 0..MaxVersion, late : BOOLEAN]
    BY <1>5, <1>9, <2>1 DEF Entry
  <2>4. Stale(used'.version) /\ used'.version # 0 => now - ended[used'.version] <= Ttl + MaxQuery
    <3> SUFFICES ASSUME Stale(e.version) PROVE now - ended[e.version] <= Ttl + MaxQuery
      BY <2>2
    <3>1. e.version \in Versions /\ e.expires \in Nat
      BY <2>1 DEF Entry
    <3>2. ended[e.version] \in Nat
      BY <1>5, <3>1
    <3>3. e.expires <= ended[e.version] + MaxQuery + Ttl
      BY <2>1 DEF Timely
    <3> DEFINE x == e.expires
               y == ended[e.version]
    <3>4. x \in Nat /\ y \in Nat /\ x <= y + MaxQuery + Ttl /\ ~(now > x)
      BY <2>1, <3>1, <3>2, <3>3
    <3> HIDE DEF x, y
    <3>5. now - y <= Ttl + MaxQuery
      BY <1>5, <3>4
    <3> QED
      BY <3>5 DEF y
  <2>5. watched = "limit" /\ used'.from = "cache" /\ Stale(used'.version) => used'.late \/ busting'
    BY <1>2, <2>1, <2>2 DEF Timely
  <2>6. used'.version <= stored
    BY <2>1, <2>2 DEF Timely
  <2>7. /\ lookup' \in [Callers -> [step : {"idle", "asked", "read"}, name : Nat,
                                    version : 0..MaxVersion, since : Nat]]
        /\ \A d \in Callers : lookup'[d] = lookup[d]
    BY <1>9, CachesTypes
  <2> QED
    BY <1>2, <1>5, <1>7, <1>8, <2>3, <2>4, <2>5, <2>6, <2>7, RequestStep
<1>10. CASE /\ used' = Unused
            /\ lookup' = [lookup EXCEPT ![c] = [step |-> "asked", name |-> n, version |-> 0, since |-> now]]
  <2> DEFINE l == [step |-> "asked", name |-> n, version |-> 0, since |-> now]
  <2>1. l \in [step : {"idle", "asked", "read"}, name : Nat, version : 0..MaxVersion, since : Nat]
    BY <1>3, <1>5
  <2>2. l.step = "asked" /\ l.name = n /\ l.version = 0 /\ l.since = now
    OBVIOUS
  <2>3. lookup' = [lookup EXCEPT ![c] = l]
    BY <1>10
  <2> HIDE DEF l
  <2>4. Prompt(l) /\ l.version <= stored /\ l.since <= now
    BY <1>3, <1>5, <2>2 DEF Prompt
  <2>5. lookup' \in [Callers -> [step : {"idle", "asked", "read"}, name : Nat,
                                    version : 0..MaxVersion, since : Nat]]
        /\ \A d \in Callers : lookup'[d] = lookup[d] \/ lookup'[d] = l
    BY <2>1, <2>3, CachesTypes
  <2>6. used'.version = 0 /\ used'.from = "none" /\ used'.version <= stored
        /\ used' \in [from : {"none", "cache", "lookup"}, version : 0..MaxVersion, late : BOOLEAN]
    BY <1>5, <1>10, UnusedIs
  <2> QED
    BY <1>2, <1>5, <1>7, <1>8, <2>1, <2>4, <2>5, <2>6, RequestStep
<1> QED
  BY <1>2, <1>9, <1>10

LEMMA ReadStep == ASSUME CachesInv, NEW c \in Callers, ReadRow(c) \/ ReadFails(c) PROVE CachesInv'
<1>1. /\ lookup[c].step = "asked" /\ used' = Unused
      /\ UNCHANGED <<watched, now, stored, ended, cache, busting>>
      /\ \/ lookup' = [lookup EXCEPT ![c] = Idle]
         \/ lookup' = [lookup EXCEPT ![c] = [lookup[c] EXCEPT !.step = "read", !.version = stored]]
  BY DEF ReadRow, ReadFails
<1>2. /\ now \in Nat /\ stored \in Nat /\ MaxVersion \in Nat /\ stored \in 1..MaxVersion /\ busting \in BOOLEAN
      /\ Len(cache) <= CacheMax /\ Caching(cache)
      /\ lookup[c] \in [step : {"idle", "asked", "read"}, name : Nat, version : 0..MaxVersion, since : Nat]
  BY CachesTypes
<1>3. \A i \in DOMAIN cache' :
               /\ cache'[i].version <= stored /\ cache'[i].expires <= now + Ttl
               /\ Stale(cache'[i].version) => cache'[i].expires <= ended[cache'[i].version] + MaxQuery + Ttl
               /\ watched = "limit" => cache'[i].name = 0 /\ (Stale(cache'[i].version) => cache'[i].late \/ busting')
  BY <1>1 DEF CachesInv, Timely
<1> DEFINE l == [lookup[c] EXCEPT !.step = "read", !.version = stored]
<1>4. l \in [step : {"idle", "asked", "read"}, name : Nat, version : 0..MaxVersion, since : Nat]
      /\ l.step = "read" /\ l.version = stored /\ l.since = lookup[c].since /\ l.name = lookup[c].name
  <2> DEFINE k == lookup[c]
  <2>1. k \in [step : {"idle", "asked", "read"}, name : Nat, version : 0..MaxVersion, since : Nat]
        /\ l = [k EXCEPT !.step = "read", !.version = stored] /\ stored \in 0..MaxVersion
    BY <1>2
  <2> HIDE DEF k, l
  <2>2. l.step = "read" /\ l.version = stored /\ l.since = k.since /\ l.name = k.name
    BY <2>1
  <2>3. l \in [step : {"idle", "asked", "read"}, name : Nat, version : 0..MaxVersion, since : Nat]
    BY <2>1
  <2> QED
    BY <2>2, <2>3 DEF k
<1> HIDE DEF l
<1>5. Prompt(l) /\ l.version <= stored /\ l.since <= now
  BY <1>1, <1>2, <1>4 DEF CachesInv, Prompt, Stale
<1>6. /\ lookup' \in [Callers -> [step : {"idle", "asked", "read"}, name : Nat,
                                    version : 0..MaxVersion, since : Nat]]
      /\ \A d \in Callers : lookup'[d] = lookup[d] \/ lookup'[d] = Idle \/ lookup'[d] = l
  <2>1. lookup' = [lookup EXCEPT ![c] = Idle] \/ lookup' = [lookup EXCEPT ![c] = l]
    BY <1>1 DEF l
  <2> DEFINE R == [step : {"idle", "asked", "read"}, name : Nat, version : 0..MaxVersion, since : Nat]
  <2>2. lookup \in [Callers -> R] /\ l \in R /\ Idle \in R
    BY <1>4, UnusedIs, CachesTypes
  <2> HIDE DEF R
  <2>3. lookup' \in [Callers -> R]
    BY <2>1, <2>2
  <2>4. \A d \in Callers : lookup'[d] = lookup[d] \/ lookup'[d] = Idle \/ lookup'[d] = l
    BY <2>1, <2>2
  <2> QED
    BY <2>3, <2>4 DEF R
<1>7. used'.version = 0 /\ used'.from = "none" /\ used'.version <= stored
      /\ used' \in [from : {"none", "cache", "lookup"}, version : 0..MaxVersion, late : BOOLEAN]
  BY <1>1, <1>2, UnusedIs
<1>8. Caching(cache') /\ Len(cache') <= CacheMax /\ busting' \in BOOLEAN /\ (busting' => busting)
  BY <1>1, <1>2
<1> QED
  BY <1>1, <1>3, <1>4, <1>5, <1>6, <1>7, <1>8, RequestStep

LEMMA FillStep == ASSUME CachesInv, NEW c \in Callers, Fill(c) PROVE CachesInv'
<1> DEFINE l == lookup[c]
           entry == [name |-> l.name, version |-> l.version, expires |-> now + Ttl,
                     late |-> Stale(l.version)]
<1>1. /\ l.step = "read" /\ cache' = Set(cache, entry) /\ lookup' = [lookup EXCEPT ![c] = Idle]
      /\ used' = [from |-> "lookup", version |-> l.version, late |-> entry.late]
      /\ UNCHANGED <<watched, now, stored, ended, busting>>
  BY DEF Fill
<1>2. /\ now \in Nat /\ stored \in Nat /\ Ttl \in Nat /\ MaxQuery \in Nat /\ MaxVersion \in Nat
      /\ stored \in 1..MaxVersion /\ Versions = 1..MaxVersion
      /\ ended \in [Versions -> 0..LastTime] /\ busting \in BOOLEAN
      /\ l.name \in Nat /\ l.since \in Nat
  BY CachesTypes
<1>3. /\ l.since <= now /\ now <= l.since + MaxQuery /\ (watched = "limit" => l.name = 0)
      /\ l.version \in 1..stored /\ (Stale(l.version) => l.since <= ended[l.version])
  BY <1>1 DEF CachesInv, Prompt
<1>4. l.version \in Versions /\ l.version \in 0..MaxVersion /\ ended[l.version] \in Nat /\ Stale(l.version) \in BOOLEAN
  BY <1>2, <1>3 DEF Stale
<1>5. entry \in Entry
  BY <1>2, <1>4 DEF Entry
<1>6. entry.name = l.name /\ entry.version = l.version /\ entry.expires = now + Ttl /\ entry.late = Stale(l.version)
  OBVIOUS
<1>7. used'.version = l.version /\ used'.from = "lookup"
      /\ used' \in [from : {"none", "cache", "lookup"}, version : 0..MaxVersion, late : BOOLEAN]
  BY <1>1, <1>4
<1> HIDE DEF l, entry
<1>8. Timely(entry)
  BY <1>2, <1>3, <1>4, <1>6 DEF Timely
<1>9. /\ Caching(cache') /\ Len(cache') <= CacheMax
      /\ \A i \in DOMAIN cache' : cache'[i] = entry \/ \E j \in DOMAIN cache : cache'[i] = cache[j]
  <2>1. Caching(cache) /\ Len(cache) <= CacheMax /\ watched \in {"key", "tenant", "limit"}
    BY CachesTypes
  <2>2. /\ Caching(Set(cache, entry)) /\ Len(Set(cache, entry)) <= CacheMax
        /\ \A i \in DOMAIN Set(cache, entry) :
              Set(cache, entry)[i] = entry \/ \E j \in DOMAIN cache : Set(cache, entry)[i] = cache[j]
    BY <1>5, <2>1, SetKeeps
  <2> DEFINE S == Set(cache, entry)
  <2>3. cache' = S
    BY <1>1
  <2>4. /\ Caching(S) /\ Len(S) <= CacheMax
        /\ \A i \in DOMAIN S : S[i] = entry \/ \E j \in DOMAIN cache : S[i] = cache[j]
    BY <2>2
  <2> HIDE DEF S
  <2>5. \A i \in DOMAIN cache' : cache'[i] = entry \/ \E j \in DOMAIN cache : cache'[i] = cache[j]
    BY <2>3, <2>4
  <2> QED
    BY <2>3, <2>4, <2>5
<1>10. \A i \in DOMAIN cache' : Timely(cache'[i])
  BY <1>8, <1>9 DEF CachesInv
<1>11. \A i \in DOMAIN cache' :
               /\ cache'[i].version <= stored /\ cache'[i].expires <= now + Ttl
               /\ Stale(cache'[i].version) => cache'[i].expires <= ended[cache'[i].version] + MaxQuery + Ttl
               /\ watched = "limit" => cache'[i].name = 0 /\ (Stale(cache'[i].version) => cache'[i].late \/ busting')
  BY <1>1, <1>10 DEF Timely
<1>12. /\ lookup' \in [Callers -> [step : {"idle", "asked", "read"}, name : Nat,
                                    version : 0..MaxVersion, since : Nat]]
       /\ \A d \in Callers : lookup'[d] = lookup[d] \/ lookup'[d] = Idle
  BY <1>1, UnusedIs, CachesTypes
<1>13. Stale(used'.version) /\ used'.version # 0 => now - ended[used'.version] <= Ttl + MaxQuery
  BY <1>2, <1>3, <1>4, <1>7
<1>14. used'.version <= stored
  BY <1>2, <1>3, <1>7
<1> QED
  BY <1>1, <1>2, <1>7, <1>9, <1>11, <1>12, <1>13, <1>14, RequestStep

LEMMA InvalidateStep == ASSUME CachesInv, InvalidateProjectRateLimitCache PROVE CachesInv'
<1>1. /\ busting /\ cache' = Without(cache, 0) /\ busting' = FALSE /\ used' = Unused
      /\ UNCHANGED <<watched, now, stored, ended, lookup>>
  BY DEF InvalidateProjectRateLimitCache
<1>2. /\ Caching(cache') /\ Keeps(cache', cache) /\ Len(cache') <= Len(cache) /\ Entries(cache', 0) = {}
  BY <1>1, WithoutKeeps, CachesTypes
<1>3. Len(cache') <= CacheMax
  BY <1>2, CachesTypes, CachesAssumption DEF CachesAssumption, Caching
<1>4. watched = "limit"
  BY <1>1 DEF CachesInv
<1>5. \A i \in DOMAIN cache' : Timely(cache'[i])
  BY <1>2 DEF Keeps, CachesInv
<1>6. \A i \in DOMAIN cache' : FALSE
  BY <1>2, <1>4, <1>5 DEF Timely, Entries
<1>7. used'.version = 0 /\ used'.from = "none" /\ used'.version <= stored
      /\ used' \in [from : {"none", "cache", "lookup"}, version : 0..MaxVersion, late : BOOLEAN]
  BY <1>1, UnusedIs, CachesTypes
<1>8. /\ lookup' \in [Callers -> [step : {"idle", "asked", "read"}, name : Nat,
                                    version : 0..MaxVersion, since : Nat]]
      /\ \A d \in Callers : lookup'[d] = lookup[d]
  BY <1>1, CachesTypes
<1> QED
  BY <1>1, <1>2, <1>3, <1>6, <1>7, <1>8, RequestStep

\* The row is replaced: the answers held and read become stale at this moment.
LEMMA ReplaceStep == ASSUME CachesInv, RotateKey \/ ProvisionTenantProject \/ PutRateLimit PROVE CachesInv'
<1>1. /\ stored < MaxVersion /\ stored' = stored + 1 /\ ended' = [ended EXCEPT ![stored] = now]
      /\ used' = Unused /\ UNCHANGED <<watched, now, cache, lookup>>
      /\ busting' = busting \/ busting' = TRUE
      /\ watched = "limit" => busting'
      /\ busting' => watched = "limit"
  BY DEF CachesInv, Replace, RotateKey, ProvisionTenantProject, PutRateLimit
<1>2. /\ now \in Nat /\ stored \in Nat /\ Ttl \in Nat /\ MaxQuery \in Nat /\ MaxVersion \in Nat
      /\ stored \in 1..MaxVersion /\ Versions = 1..MaxVersion /\ now \in 0..LastTime
      /\ ended \in [Versions -> 0..LastTime] /\ busting \in BOOLEAN
  BY CachesTypes DEF CachesInv, CachesTyped, CachesTypeOK
<1>3. /\ stored' \in Versions /\ stored' >= stored /\ stored' \in Nat /\ busting' \in BOOLEAN
      /\ \A v \in Nat : v < stored' <=> v <= stored
  <2> DEFINE k == stored'
  <2>1. k = stored + 1 /\ stored < MaxVersion /\ stored \in Nat /\ MaxVersion \in Nat
    BY <1>1, <1>2
  <2> HIDE DEF k
  <2>2. k \in 1..MaxVersion /\ k >= stored /\ k \in Nat
    BY <2>1
  <2>3. \A v \in Nat : v < k <=> v <= stored
    BY <2>1
  <2> QED
    BY <1>1, <1>2, <2>2, <2>3 DEF k
<1>4. /\ ended' \in [Versions -> 0..LastTime] /\ ended'[stored] = now
      /\ \A v \in Versions : v # stored => ended'[v] = ended[v]
  BY <1>1, <1>2
<1>5. used'.version = 0 /\ used'.from = "none"
      /\ used' \in [from : {"none", "cache", "lookup"}, version : 0..MaxVersion, late : BOOLEAN]
  BY <1>1, UnusedIs
<1>6. CachesTyped'
  <2>1. Caching(cache') /\ Len(cache') <= CacheMax /\ \A i \in DOMAIN cache' : cache'[i].expires <= LastTime + Ttl
    BY <1>1, CachesTypes
  <2>2. lookup' \in [Callers -> [step : {"idle", "asked", "read"}, name : Nat, version : 0..MaxVersion, since : Nat]]
    BY <1>1, CachesTypes
  <2>3. \A c \in Callers : lookup'[c].since <= now' /\ lookup'[c].version <= stored'
    <3> TAKE c \in Callers
    <3>1. lookup[c].version \in 0..stored /\ lookup[c].since <= now
      BY CachesTypes
    <3>2. lookup[c].version <= stored'
      BY <1>2, <1>3, <3>1
    <3> QED
      BY <1>1, <3>1, <3>2
  <2>4. used'.version <= stored' /\ now' \in 0..LastTime /\ now' >= now /\ UNCHANGED watched
    BY <1>1, <1>2, <1>3, <1>5
  <2> QED
    BY <1>3, <1>4, <1>5, <2>1, <2>2, <2>3, <2>4, TypesAgain
<1>7. \A v \in Versions : v < stored' => ended'[v] <= now'
  BY <1>1, <1>2, <1>3, <1>4 DEF CachesInv
<1>8. \A i \in DOMAIN cache' : Timely(cache[i])'
  <2> TAKE i \in DOMAIN cache'
  <2> DEFINE e == cache[i]
  <2>1. cache'[i] = e /\ e \in Entry /\ Timely(e)
    BY <1>1, CachesTypes DEF CachesInv
  <2> HIDE DEF e
  <2>2. e.version \in Versions /\ e.expires \in Nat /\ e.version <= stored /\ e.expires <= now + Ttl
    BY <2>1 DEF Entry, Timely
  <2>3. e.version <= stored' /\ e.expires <= now' + Ttl
    BY <1>1, <1>2, <1>3, <2>2
  <2>4. e.version < stored' => e.expires <= ended'[e.version] + MaxQuery + Ttl
    <3>1. CASE e.version = stored
      BY <1>2, <1>4, <2>2, <3>1
    <3>2. CASE e.version # stored
      <4>1. e.version < stored /\ ended'[e.version] = ended[e.version]
        BY <1>2, <1>4, <2>2, <3>2
      <4> QED
        BY <2>1, <4>1 DEF Timely, Stale
    <3> QED
      BY <3>1, <3>2
  <2>5. watched' = "limit" => e.name = 0 /\ busting'
    BY <1>1, <2>1 DEF Timely
  <2> QED
    BY <2>1, <2>3, <2>4, <2>5 DEF Timely, Stale
<1>9. \A c \in Callers : Prompt(lookup[c])'
  <2> SUFFICES ASSUME NEW c \in Callers, lookup[c].step # "idle"
               PROVE  /\ lookup[c].since <= now /\ now <= lookup[c].since + MaxQuery
                      /\ watched = "limit" => lookup[c].name = 0
                      /\ lookup[c].step = "read" =>
                            /\ lookup[c].version \in 1..stored'
                            /\ lookup[c].version < stored' => lookup[c].since <= ended'[lookup[c].version]
    BY <1>1 DEF Prompt, Stale
  <2> DEFINE l == lookup[c]
  <2>1. Prompt(l) /\ l.step # "idle" /\ l.since \in Nat
    BY CachesTypes DEF CachesInv
  <2> HIDE DEF l
  <2>2. l.since <= now /\ now <= l.since + MaxQuery /\ (watched = "limit" => l.name = 0)
    BY <2>1 DEF Prompt
  <2>3. ASSUME l.step = "read"
        PROVE  l.version \in 1..stored' /\ (l.version < stored' => l.since <= ended'[l.version])
    <3>1. l.version \in 1..stored /\ (l.version < stored => l.since <= ended[l.version])
      BY <2>1, <2>3 DEF Prompt, Stale
    <3>2. l.version \in Versions /\ l.version \in 1..stored'
      BY <1>1, <1>2, <3>1
    <3>3. CASE l.version = stored
      BY <1>4, <2>2, <3>2, <3>3
    <3>4. CASE l.version # stored
      BY <1>2, <1>4, <3>1, <3>2, <3>4
    <3> QED
      BY <3>2, <3>3, <3>4
  <2> QED
    BY <2>2, <2>3 DEF l
<1>10. StaleAnswersDie' /\ LimitSettles'
  BY <1>5 DEF StaleAnswersDie, LimitSettles
<1> QED
  BY <1>1, <1>6, <1>7, <1>8, <1>9, <1>10 DEF CachesInv

\* Time passes, while no lookup is overdue.
LEMMA TickStep == ASSUME CachesInv, Tick PROVE CachesInv'
<1>1. /\ now < LastTime /\ now' = now + 1 /\ used' = Unused
      /\ \A c \in Callers : lookup[c] # Idle => now < lookup[c].since + MaxQuery
      /\ UNCHANGED <<watched, stored, ended, cache, lookup, busting>>
  BY DEF Tick
<1>2. /\ now \in Nat /\ LastTime \in Nat /\ Ttl \in Nat /\ MaxQuery \in Nat
      /\ stored \in Versions /\ stored \in Nat /\ busting \in BOOLEAN
      /\ ended \in [Versions -> 0..LastTime] /\ Versions = 1..MaxVersion
  BY CachesTypes
<1>3. now' \in 0..LastTime /\ now' >= now /\ now' \in Nat
  BY <1>1, <1>2
<1>4. used'.version = 0 /\ used'.from = "none" /\ used'.version <= stored'
      /\ used' \in [from : {"none", "cache", "lookup"}, version : 0..MaxVersion, late : BOOLEAN]
  BY <1>1, <1>2, UnusedIs
<1>5. CachesTyped'
  <2>1. Caching(cache') /\ Len(cache') <= CacheMax /\ \A i \in DOMAIN cache' : cache'[i].expires <= LastTime + Ttl
    BY <1>1, CachesTypes
  <2>2. lookup' \in [Callers -> [step : {"idle", "asked", "read"}, name : Nat, version : 0..MaxVersion, since : Nat]]
    BY <1>1, CachesTypes
  <2>3. \A c \in Callers : lookup'[c].since <= now' /\ lookup'[c].version <= stored'
    <3> TAKE c \in Callers
    <3>1. lookup[c].version \in 0..stored /\ lookup[c].since \in Nat /\ lookup[c].since <= now
      BY CachesTypes
    <3> QED
      BY <1>1, <1>2, <3>1
  <2>4. stored' \in Versions /\ stored' >= stored /\ ended' \in [Versions -> 0..LastTime]
        /\ busting' \in BOOLEAN /\ UNCHANGED watched
    BY <1>1, <1>2
  <2> QED
    BY <1>3, <1>4, <2>1, <2>2, <2>3, <2>4, TypesAgain
<1>6. \A v \in Versions : v < stored' => ended'[v] <= now'
  <2> SUFFICES ASSUME NEW v \in Versions, v < stored PROVE ended[v] <= now'
    BY <1>1
  <2>1. ended[v] <= now /\ ended[v] \in Nat
    BY <1>2 DEF CachesInv
  <2> QED
    BY <1>1, <1>2, <2>1
<1>7. \A i \in DOMAIN cache' : Timely(cache[i])'
  <2> TAKE i \in DOMAIN cache'
  <2> DEFINE e == cache[i]
  <2>1. cache'[i] = e /\ e \in Entry /\ Timely(e)
    BY <1>1, CachesTypes DEF CachesInv
  <2> HIDE DEF e
  <2>2. e.expires \in Nat /\ e.expires <= now + Ttl
    BY <2>1 DEF Entry, Timely
  <2>3. e.expires <= now' + Ttl
    BY <1>1, <1>2, <2>2
  <2> QED
    BY <1>1, <2>1, <2>3 DEF Timely, Stale
<1>8. \A c \in Callers : Prompt(lookup[c])'
  <2> SUFFICES ASSUME NEW c \in Callers, lookup[c].step # "idle" PROVE Prompt(lookup[c])'
    BY <1>1 DEF Prompt
  <2> DEFINE l == lookup[c]
  <2>1. Prompt(l) /\ l.step # "idle" /\ l.since \in Nat /\ lookup'[c] = l
    BY <1>1, CachesTypes DEF CachesInv
  <2>2. now < l.since + MaxQuery
    BY <1>1, UnusedIs
  <2> HIDE DEF l
  <2>3. l.since <= now
    BY <2>1 DEF Prompt
  <2>4. l.since <= now' /\ now' <= l.since + MaxQuery
    BY <1>1, <1>2, <2>1, <2>2, <2>3
  <2> QED
    BY <1>1, <2>1, <2>4 DEF Prompt, Stale
<1>9. StaleAnswersDie' /\ LimitSettles'
  BY <1>4 DEF StaleAnswersDie, LimitSettles
<1> QED
  BY <1>1, <1>5, <1>6, <1>7, <1>8, <1>9 DEF CachesInv

LEMMA CachesNextInv == CachesInv /\ [CachesNext]_cachesVars => CachesInv'
<1> SUFFICES ASSUME CachesInv, [CachesNext]_cachesVars PROVE CachesInv'
  OBVIOUS
<1>1. ASSUME NEW c \in Callers, LookupProject(c) \/ LookupProjectByTenantId(c) \/ GetProjectRateLimit(c)
      PROVE  CachesInv'
  BY <1>1, AskStep DEF LookupProject, LookupProjectByTenantId, GetProjectRateLimit
<1>2. ASSUME NEW c \in Callers, ReadRow(c) \/ ReadFails(c) PROVE CachesInv'
  BY <1>2, ReadStep
<1>3. ASSUME NEW c \in Callers, Fill(c) PROVE CachesInv'
  BY <1>3, FillStep
<1>4. CASE UNCHANGED cachesVars
  BY <1>4 DEF cachesVars, CachesInv, CachesTyped, CachesTypeOK, Caching, NoTwice, Entry, Versions,
              Timely, Prompt, Stale, StaleAnswersDie, LimitSettles
<1> QED
  BY <1>1, <1>2, <1>3, <1>4, ReplaceStep, InvalidateStep, TickStep DEF CachesNext

LEMMA CachesKeep == CachesSpec => []CachesInv
  BY CachesInitInv, CachesNextInv, PTL DEF CachesSpec

\* The type invariant of the caches: no more than CacheMax entries, one per name, of
\* versions the database has held, and no lookup begun or answered in the future.
THEOREM CachesTypeCorrect == CachesSpec => []CachesTypeOK
<1>1. CachesInv => CachesTypeOK
  BY DEF CachesInv, CachesTyped
<1> QED
  BY <1>1, CachesKeep, PTL

\* A rotated key, a tenant's former project and an edited limit decide no request
\* later than one lookup and one stay in the cache after the change; past the
\* invalidation the old limit comes only from a lookup that was in flight.
THEOREM CachesSettled == CachesSpec => []CachesSettle
<1>1. CachesInv => CachesSettle
  BY DEF CachesInv, CachesSettle
<1> QED
  BY <1>1, CachesKeep, PTL

-----------------------------------------------------------------------------
(***************************************************************************)
(* RateLimits.  Counts of stamps from a time on are compared: those let    *)
(* through with those in the set, those in the memory with those that came.*)
(***************************************************************************)

\* The stamps of s from T on, by their places, and how many they are.
Places(s, T) == {i \in DOMAIN s : s[i] >= T}
Count(s, T) == Cardinality(Places(s, T))

Stamps(s) == s \in Seq(Nat) /\ \A i, j \in DOMAIN s : i <= j => s[i] <= s[j]

\* A set of numbers that is not empty has a smallest one.
LEMMA SmallestOf ==
    ASSUME NEW S, S \subseteq Nat, S # {}
    PROVE  \E n \in S : \A m \in S : n <= m
<1> DEFINE T == {1..n : n \in S}
<1>1. \A n \in S : 1..n \in FiniteSubsetsOf(Nat)
  <2> TAKE n \in S
  <2>1. n \in Int /\ 1 \in Int /\ 1..n \subseteq Nat
    OBVIOUS
  <2>2. IsFiniteSet(1..n)
    BY <2>1, FS_Interval
  <2> QED
    BY <2>1, <2>2 DEF FiniteSubsetsOf
<1>2. T \subseteq FiniteSubsetsOf(Nat) /\ T # {}
  BY <1>1
<1>3. PICK x \in T : \A y \in T : ~(<<y, x>> \in StrictSubsetOrdering(Nat))
  BY <1>2, FS_StrictSubsetOrderingWellFounded, WFMin
<1>4. PICK n \in S : x = 1..n
  BY <1>3
<1>5. ASSUME NEW m \in S, m < n PROVE FALSE
  <2>1. 1..m \in T /\ 1..m \subseteq 1..n /\ n \in 1..n /\ n \notin 1..m
    BY <1>5
  <2>2. 1..m \in SUBSET Nat /\ 1..n \in SUBSET Nat
    OBVIOUS
  <2>3. <<1..m, 1..n>> \in StrictSubsetOrdering(Nat)
    BY <2>1, <2>2 DEF StrictSubsetOrdering
  <2> QED
    BY <1>3, <1>4, <2>1, <2>3
<1> QED
  BY <1>5

LEMMA StampsAre ==
    ASSUME NEW s \in Seq(Nat)
    PROVE  /\ Len(s) \in Nat /\ DOMAIN s = 1..Len(s) /\ \A i \in DOMAIN s : s[i] \in Nat
           /\ IsFiniteSet(DOMAIN s) /\ Cardinality(DOMAIN s) = Len(s)
<1>1. Len(s) \in Nat /\ DOMAIN s = 1..Len(s) /\ \A i \in DOMAIN s : s[i] \in Nat
  OBVIOUS
<1> DEFINE n == Len(s)
<1>2. n \in Nat /\ n \in Int /\ 1 \in Int
  BY <1>1
<1> HIDE DEF n
<1>3. IsFiniteSet(1..n) /\ Cardinality(1..n) = n
  BY <1>2, FS_Interval
<1> QED
  BY <1>1, <1>3 DEF n

LEMMA CountIs ==
    ASSUME NEW s \in Seq(Nat), NEW T \in Int
    PROVE  IsFiniteSet(Places(s, T)) /\ Count(s, T) \in Nat /\ Count(s, T) <= Len(s)
<1>1. IsFiniteSet(DOMAIN s) /\ Cardinality(DOMAIN s) = Len(s)
  BY StampsAre
<1>2. Places(s, T) \in SUBSET (DOMAIN s)
  BY DEF Places
<1>3. IsFiniteSet(Places(s, T)) /\ Cardinality(Places(s, T)) <= Cardinality(DOMAIN s)
  BY <1>1, <1>2, FS_Subset
<1> QED
  BY <1>1, <1>3, FS_CardinalityType DEF Count

LEMMA FewerCount ==
    ASSUME NEW s \in Seq(Nat), NEW T \in Int, NEW S, S \subseteq Places(s, T)
    PROVE  IsFiniteSet(S) /\ Cardinality(S) \in Nat /\ Cardinality(S) <= Count(s, T)
<1>1. IsFiniteSet(Places(s, T)) /\ S \in SUBSET Places(s, T)
  BY CountIs
<1> QED
  BY <1>1, FS_Subset, FS_CardinalityType DEF Count

LEMMA CountAppend ==
    ASSUME NEW s \in Seq(Nat), NEW x \in Nat, NEW T \in Int
    PROVE  Count(Append(s, x), T) = Count(s, T) + IF x >= T THEN 1 ELSE 0
<1> DEFINE a == Append(s, x)
           n == Len(s) + 1
<1>1. Len(s) \in Nat /\ DOMAIN s = 1..Len(s) /\ DOMAIN a = 1..n /\ a[n] = x /\ \A i \in 1..Len(s) : a[i] = s[i]
  OBVIOUS
<1>2. n \notin 1..Len(s) /\ n \in 1..n /\ \A i : i \in 1..n <=> i \in 1..Len(s) \/ i = n
  BY <1>1
<1> HIDE DEF a, n
<1>3. IsFiniteSet(Places(s, T)) /\ Count(s, T) \in Nat /\ n \notin Places(s, T)
  BY <1>1, <1>2, CountIs DEF Places
<1>4. CASE x >= T
  <2>1. Places(a, T) = Places(s, T) \cup {n}
    BY <1>1, <1>2, <1>4 DEF Places
  <2> QED
    BY <1>3, <1>4, <2>1, FS_AddElement DEF Count, a
<1>5. CASE ~(x >= T)
  <2>1. Places(a, T) = Places(s, T)
    BY <1>1, <1>2, <1>5 DEF Places
  <2> QED
    BY <1>3, <1>5, <2>1 DEF Count, a
<1> QED
  BY <1>4, <1>5

LEMMA StampsAppend ==
    ASSUME NEW s, Stamps(s), NEW x \in Nat, \A i \in DOMAIN s : s[i] <= x
    PROVE  /\ Stamps(Append(s, x)) /\ Len(Append(s, x)) = Len(s) + 1
           /\ \A i \in DOMAIN Append(s, x) : Append(s, x)[i] = x \/ \E j \in DOMAIN s : Append(s, x)[i] = s[j]
<1> DEFINE a == Append(s, x)
           n == Len(s) + 1
<1>1. s \in Seq(Nat)
  BY DEF Stamps
<1>2. a \in Seq(Nat) /\ Len(a) = Len(s) + 1 /\ Len(s) \in Nat
      /\ DOMAIN s = 1..Len(s) /\ DOMAIN a = 1..n /\ a[n] = x /\ \A i \in 1..Len(s) : a[i] = s[i]
  BY <1>1
<1>3. \A i \in 1..n : i \in 1..Len(s) \/ i = n
  BY <1>2
<1>4. n \in Nat /\ ~(n <= Len(s)) /\ \A i \in 1..Len(s) : i <= n /\ ~(n <= i) /\ i \in Nat /\ s[i] \in Nat
  BY <1>1, <1>2
<1> HIDE DEF a, n
<1>5. ASSUME NEW i \in 1..n, NEW j \in 1..n, i <= j PROVE a[i] <= a[j]
  <2>1. CASE j = n
    BY <1>2, <1>3, <2>1
  <2>2. CASE j # n
    <3>1. j \in 1..Len(s) /\ i \in 1..Len(s)
      BY <1>3, <1>4, <1>5, <2>2
    <3> QED
      BY <1>2, <1>5, <3>1 DEF Stamps
  <2> QED
    BY <2>1, <2>2
<1>6. \A i \in DOMAIN a : a[i] = x \/ \E j \in DOMAIN s : a[i] = s[j]
  BY <1>2, <1>3
<1> QED
  BY <1>2, <1>5, <1>6 DEF Stamps, a

\* Since drops the stamps before `start`, those and no others.
LEMMA SinceIs ==
    ASSUME NEW s, Stamps(s), NEW start \in Nat
    PROVE  /\ Stamps(Since(s, start)) /\ Len(Since(s, start)) <= Len(s)
           /\ \A k \in DOMAIN Since(s, start) : \E i \in DOMAIN s : Since(s, start)[k] = s[i]
           /\ Len(Since(s, start)) <= Count(s, start)
           /\ \A T \in Int : /\ Count(Since(s, start), T) <= Count(s, T)
                             /\ T >= start => Count(s, T) <= Count(Since(s, start), T)
<1> DEFINE Splits(n) == n \in 0..Len(s) /\ \A i \in DOMAIN s : i <= n <=> s[i] < start
           L == Len(s)
           older == CHOOSE n \in 0..Len(s) : \A i \in DOMAIN s : i <= n <=> s[i] < start
           r == SubSeq(s, older + 1, Len(s))
<1>1. s \in Seq(Nat) /\ L \in Nat /\ DOMAIN s = 1..L /\ \A i \in 1..L : s[i] \in Nat
  BY StampsAre DEF Stamps
<1>2. \E n : Splits(n)
  <2> DEFINE New == {i \in 1..(L + 1) : i = L + 1 \/ s[i] >= start}
  <2>1. New \subseteq Nat /\ L + 1 \in New
    BY <1>1
  <2> HIDE DEF New
  <2>2. PICK m \in New : \A i \in New : m <= i
    BY <2>1, SmallestOf
  <2>3. m \in 1..(L + 1) /\ m - 1 \in 0..L
    BY <1>1, <2>2 DEF New
  <2>4. ASSUME NEW i \in 1..L PROVE i <= m - 1 <=> s[i] < start
    <3>1. CASE i <= m - 1
      <4>1. i \notin New
        BY <1>1, <2>2, <2>3, <3>1
      <4> QED
        BY <1>1, <3>1, <4>1 DEF New
    <3>2. CASE ~(i <= m - 1)
      <4>1. m \in 1..L /\ m <= i /\ s[m] >= start
        BY <1>1, <2>2, <2>3, <3>2 DEF New
      <4>2. s[m] <= s[i]
        BY <1>1, <4>1 DEF Stamps
      <4> QED
        BY <1>1, <3>2, <4>1, <4>2
    <3> QED
      BY <3>1, <3>2
  <2> QED
    BY <1>1, <2>3, <2>4
<1>3. older \in 0..L /\ \A i \in 1..L : i <= older <=> s[i] < start
  BY <1>1, <1>2
<1>4. Since(s, start) = r
  BY DEF Since
<1> HIDE DEF older, L
<1>14. L = Len(s)
  BY DEF L
<1> DEFINE n == L - older
<1>5. r \in Seq(Nat) /\ Len(r) = n /\ \A k \in 1..n : r[k] = s[older + k]
  <2>1. older + 1 \in Int /\ L \in Int /\ \A i \in (older + 1)..L : s[i] \in Nat
    BY <1>1, <1>3
  <2>2. /\ r \in Seq(Nat) /\ Len(r) = (IF older + 1 <= L THEN L - (older + 1) + 1 ELSE 0)
        /\ \A k \in 1..(L - (older + 1) + 1) : r[k] = s[(older + 1) + k - 1]
    BY <1>14, <2>1, SubSeqProperties
  <2>3. L \in Nat /\ older \in Nat /\ older <= L
    BY <1>1, <1>3
  <2>4. L - (older + 1) + 1 = n /\ (IF older + 1 <= L THEN L - (older + 1) + 1 ELSE 0) = n
    BY <2>3
  <2>5. \A k \in 1..n : (older + 1) + k - 1 = older + k
    BY <2>3
  <2> HIDE DEF r, n
  <2> QED
    BY <2>2, <2>4, <2>5
<1>6. DOMAIN r = 1..n /\ n \in Nat /\ n <= L /\ \A k \in 1..n : older + k \in 1..L /\ k \in Nat /\ ~(older + k <= older)
  BY <1>1, <1>3, <1>5
<1>7. \A i \in 1..L : ~(i <= older) => i - older \in 1..n /\ older + (i - older) = i /\ i \in Nat
  BY <1>1, <1>3
<1> HIDE DEF r, n
<1>8. \A k \in 1..n : r[k] >= start /\ r[k] \in Nat
  <2> TAKE k \in 1..n
  <2>1. older + k \in 1..L /\ ~(older + k <= older) /\ r[k] = s[older + k]
    BY <1>5, <1>6
  <2>2. s[older + k] \in Nat /\ ~(s[older + k] < start)
    BY <1>1, <1>3, <2>1
  <2> QED
    BY <2>1, <2>2
<1>9. Stamps(r)
  <2>1. ASSUME NEW k \in 1..n, NEW m \in 1..n, k <= m PROVE r[k] <= r[m]
    <3>1. older + k \in 1..L /\ older + m \in 1..L /\ older + k <= older + m
      BY <1>3, <1>6, <2>1
    <3>2. s[older + k] <= s[older + m]
      BY <1>1, <3>1 DEF Stamps
    <3> QED
      BY <1>5, <3>2
  <2> QED
    BY <1>5, <1>6, <2>1 DEF Stamps
<1>10. ASSUME NEW T \in Int PROVE Count(r, T) <= Count(s, T)
  <2> DEFINE P == Places(r, T)
             Q == Places(s, T)
             f == [k \in P |-> older + k]
  <2>1. \A k \in P : k \in 1..n /\ older + k \in Q
    BY <1>1, <1>5, <1>6 DEF Places
  <2>2. \A k, m \in P : older + k = older + m => k = m
    BY <1>3, <1>6, <2>1
  <2> HIDE DEF P, Q
  <2>3. f \in Injection(P, Q)
    BY <2>1, <2>2 DEF Injection, IsInjective
  <2>4. IsFiniteSet(Q)
    BY <1>1, CountIs DEF Q
  <2>5. Cardinality(P) <= Cardinality(Q)
    BY <2>3, <2>4, FS_Injection
  <2> QED
    BY <2>5 DEF P, Q, Count
<1>11. ASSUME NEW T \in Int, T >= start PROVE Count(s, T) <= Count(r, T)
  <2> DEFINE P == Places(r, T)
             Q == Places(s, T)
             f == [i \in Q |-> i - older]
  <2>1. ASSUME NEW i \in Q PROVE i - older \in P /\ i \in Nat
    <3>1. i \in 1..L /\ s[i] >= T /\ s[i] \in Nat
      BY <1>1 DEF Places
    <3>2. ~(i <= older)
      BY <1>3, <1>11, <3>1
    <3>3. i - older \in 1..n /\ r[i - older] = s[i] /\ i \in Nat
      BY <1>5, <1>7, <3>1, <3>2
    <3> QED
      BY <1>6, <3>1, <3>3 DEF Places
  <2> HIDE DEF P, Q
  <2>2. \A i, j \in Q : i - older = j - older => i = j
    BY <1>3, <2>1
  <2>3. f \in Injection(Q, P)
    BY <2>1, <2>2 DEF Injection, IsInjective
  <2>4. IsFiniteSet(P)
    BY <1>5, CountIs DEF P
  <2>5. Cardinality(Q) <= Cardinality(P)
    BY <2>3, <2>4, FS_Injection
  <2> QED
    BY <2>5 DEF P, Q, Count
<1>12. Len(r) <= Count(s, start)
  <2>1. Places(r, start) = DOMAIN r
    BY <1>6, <1>8 DEF Places
  <2>2. Count(r, start) = Len(r)
    BY <1>5, <2>1, StampsAre DEF Count
  <2> QED
    BY <1>10, <2>2
<1>13. \A k \in DOMAIN r : \E i \in DOMAIN s : r[k] = s[i]
  BY <1>1, <1>5, <1>6
<1> QED
  BY <1>1, <1>4, <1>5, <1>6, <1>9, <1>10, <1>11, <1>12, <1>13, <1>14

LEMMA StampsTail ==
    ASSUME NEW s, Stamps(s), s # <<>>
    PROVE  /\ Stamps(Tail(s)) /\ 1 \in DOMAIN s /\ Head(s) = s[1] /\ Head(s) \in Nat
           /\ \A k \in DOMAIN Tail(s) : Head(s) <= Tail(s)[k] /\ \E i \in DOMAIN s : Tail(s)[k] = s[i]
<1> DEFINE t == Tail(s)
           n == Len(s)
<1>1. s \in Seq(Nat) /\ n \in Nat /\ DOMAIN s = 1..n /\ \A i \in 1..n : s[i] \in Nat
  BY StampsAre DEF Stamps
<1>2. n # 0
  BY <1>1
<1>3. t \in Seq(Nat) /\ Len(t) = n - 1 /\ DOMAIN t = 1..(n - 1) /\ \A k \in 1..(n - 1) : t[k] = s[k + 1]
  BY <1>1
<1>4. Head(s) = s[1] /\ 1 \in 1..n
  BY <1>1, <1>2
<1> HIDE DEF t, n
<1>5. \A k \in 1..(n - 1) : k + 1 \in 1..n /\ k \in Nat /\ 1 <= k + 1
  BY <1>1
<1>6. ASSUME NEW k \in 1..(n - 1), NEW m \in 1..(n - 1), k <= m PROVE t[k] <= t[m]
  <2>1. k + 1 <= m + 1
    BY <1>6
  <2>2. s[k + 1] <= s[m + 1]
    BY <1>1, <1>5, <2>1 DEF Stamps
  <2> QED
    BY <1>3, <2>2
<1>7. ASSUME NEW k \in 1..(n - 1) PROVE Head(s) <= t[k] /\ \E i \in DOMAIN s : t[k] = s[i]
  <2>1. s[1] <= s[k + 1]
    BY <1>1, <1>4, <1>5 DEF Stamps
  <2> QED
    BY <1>1, <1>3, <1>4, <1>5, <2>1
<1> QED
  BY <1>1, <1>3, <1>4, <1>6, <1>7 DEF Stamps, t

\* What was let through since f is still in the set, and f is older than the window
\* of a request that is still to be decided, however late it comes.
Forgets(f) ==
    /\ \A T \in Int : T > f => Count(admitted, T) <= Count(hits, T)
    /\ f + Window <= time + Lag
    /\ \A j \in DOMAIN asked : f + Window <= asked[j] + Lag

SlidingInv ==
    /\ Stamps(asked) /\ Stamps(hits) /\ Stamps(admitted)
    /\ \A j \in DOMAIN asked : asked[j] <= time /\ time <= asked[j] + Lag
    /\ \A i \in DOMAIN hits : hits[i] <= time /\ hits[i] + Window <= hitsUntil
                              /\ \A j \in DOMAIN asked : hits[i] <= asked[j]
    /\ \A i \in DOMAIN admitted : admitted[i] <= time /\ \A j \in DOMAIN asked : admitted[i] <= asked[j]
    /\ hitsUntil \in Nat /\ hitsUntil <= time + Window
    /\ \E f \in Int : Forgets(f)
    /\ NeverOverLimit

\* The request whose INCR answered 1 may be decided by the memory yet.
Owed(T) == IF counting # <<>> /\ counting[1] + Lag >= T THEN 1 ELSE 0

\* The counter counts the requests since `began`, and ends a window later, unless
\* its expiry is late.
Counts(began) ==
    /\ began <= time /\ count <= Count(knocks, began)
    /\ counting # <<>> => counting[1] = began
    /\ counting = <<>> => until <= began + Lag + Window

HostTyped ==
    /\ Stamps(memory) /\ Stamps(knocks)
    /\ \A i \in DOMAIN memory : memory[i] <= time
    /\ \A i \in DOMAIN knocks : knocks[i] <= time
    /\ counting = <<>> \/ (\E t \in Nat : counting = <<t>> /\ t <= time /\ time <= t + Lag)
    /\ count \in Nat /\ until \in Nat /\ until <= time + Window
    /\ Len(memory) <= HostMax /\ unbounded \in BOOLEAN /\ refused \in {Nobody, "redis", "memory"}

CounterSound ==
    ~unbounded /\ (counting # <<>> \/ time < until) => \E began \in Nat : Counts(began)

\* The memory holds no more than came, each request at most Lag late.
MemorySound == \A T \in Int : Count(memory, T) + Owed(T) <= Count(knocks, T - Lag)

HostInv == HostTyped /\ CounterSound /\ MemorySound /\ RefusedForCause

LimitsInv == limiter \in {"sliding", "host"} /\ time \in Nat /\ SlidingInv /\ HostInv

LEMMA NumbersAre ==
    /\ Window \in Nat /\ Window > 0 /\ MaxRequests \in Nat /\ HostMax \in Nat /\ HostMax > 0
    /\ Lag \in Nat /\ Lag < Window
  BY LimitsAssumption DEF LimitsAssumption

\* A window that ends stamp holds the stamps since it began.
LEMMA WithinIs ==
    ASSUME NEW s \in Seq(Nat), NEW last \in Nat, NEW span \in Int
    PROVE  /\ Within(s, last, span) \in Nat /\ Within(s, last, span) <= Count(s, last - span + 1)
           /\ (\A i \in DOMAIN s : s[i] <= last) => Within(s, last, span) = Count(s, last - span + 1)
<1> DEFINE W == {i \in DOMAIN s : s[i] <= last /\ s[i] + span > last}
           T == last - span + 1
<1>1. \A i \in DOMAIN s : s[i] \in Nat
  BY StampsAre
<1>2. T \in Int /\ \A x \in Nat : x + span > last <=> x >= T
  OBVIOUS
<1> HIDE DEF T
<1>3. W \subseteq Places(s, T)
  BY <1>1, <1>2 DEF Places
<1>4. (\A i \in DOMAIN s : s[i] <= last) => W = Places(s, T)
  BY <1>1, <1>2 DEF Places
<1>5. Cardinality(W) \in Nat /\ Cardinality(W) <= Count(s, T)
  BY <1>2, <1>3, FewerCount
<1> QED
  BY <1>4, <1>5 DEF Within, Count, T

LEMMA CheckLimitStep == ASSUME LimitsInv, CheckLimit PROVE SlidingInv'
<1> DEFINE stamp == Head(asked)
           kept == Kept
           before == InWindow(stamp)
           set == Append(before, stamp)
           rest == Tail(asked)
<1>1. /\ asked # <<>> /\ asked' = rest /\ hits' = set /\ hitsUntil' = time + Window
      /\ admitted' = (IF Len(set) <= MaxRequests THEN Append(admitted, stamp) ELSE admitted)
      /\ time' = time /\ before = (IF stamp < Window THEN kept ELSE Since(kept, stamp - Window + 1))
  BY DEF CheckLimit, InWindow
<1>2. /\ Stamps(asked) /\ Stamps(hits) /\ Stamps(admitted) /\ time \in Nat
      /\ hitsUntil \in Nat
  BY DEF LimitsInv, SlidingInv
<1>3. /\ Stamps(rest) /\ 1 \in DOMAIN asked /\ stamp = asked[1] /\ stamp \in Nat
      /\ \A k \in DOMAIN rest : stamp <= rest[k] /\ \E j \in DOMAIN asked : rest[k] = asked[j]
  BY <1>1, <1>2, StampsTail
<1>4. stamp <= time /\ time <= stamp + Lag
  BY <1>3 DEF LimitsInv, SlidingInv
<1>5. \A i \in DOMAIN hits : hits[i] \in Nat /\ hits[i] <= stamp /\ hits[i] + Window <= hitsUntil
  <2>1. hits \in Seq(Nat)
    BY <1>2 DEF Stamps
  <2> QED
    BY <1>3, <2>1, StampsAre DEF LimitsInv, SlidingInv
<1>6. \A i \in DOMAIN admitted : admitted[i] \in Nat /\ admitted[i] <= stamp
  <2>1. admitted \in Seq(Nat)
    BY <1>2 DEF Stamps
  <2> QED
    BY <1>3, <2>1, StampsAre DEF LimitsInv, SlidingInv
<1>7. PICK f \in Int : Forgets(f)
  BY DEF LimitsInv, SlidingInv
<1>30. PICK g \in Int : g + Window = stamp + Lag
  <2>1. stamp - Window + Lag \in Int /\ (stamp - Window + Lag) + Window = stamp + Lag
    BY <1>3, NumbersAre
  <2> QED
    BY <2>1
<1>8. g \in Int /\ g + Window = stamp + Lag /\ f <= g
  <2>1. f + Window <= stamp + Lag
    BY <1>3, <1>7 DEF Forgets
  <2> QED
    BY <1>3, <1>30, <2>1, NumbersAre
<1> HIDE DEF stamp, rest
<1>9. /\ Stamps(kept) /\ \A k \in DOMAIN kept : \E i \in DOMAIN hits : kept[k] = hits[i]
      /\ \A T \in Int : T > g => Count(hits, T) <= Count(kept, T)
  <2>1. CASE time >= hitsUntil
    <3>1. kept = <<>>
      BY <2>1 DEF Kept
    <3>2. Stamps(<<>>)
      BY DEF Stamps
    <3>3. ASSUME NEW T \in Int, T > g PROVE Count(hits, T) <= Count(<<>>, T)
      <4>1. \A i \in DOMAIN hits : ~(hits[i] >= T)
        BY <1>2, <1>3, <1>4, <1>5, <1>8, <2>1, <3>3, NumbersAre
      <4>2. Places(hits, T) = {} /\ Places(<<>>, T) = {}
        BY <4>1 DEF Places
      <4> QED
        BY <4>2, FS_EmptySet DEF Count
    <3> QED
      BY <3>1, <3>2, <3>3
  <2>2. CASE ~(time >= hitsUntil)
    <3>1. kept = hits
      BY <2>2 DEF Kept
    <3>2. \A T \in Int : Count(hits, T) \in Nat
      BY <1>2, CountIs DEF Stamps
    <3> QED
      BY <1>2, <3>1, <3>2
  <2> QED
    BY <2>1, <2>2
<1> HIDE DEF kept
<1>10. /\ Stamps(before) /\ \A k \in DOMAIN before : \E i \in DOMAIN hits : before[k] = hits[i]
       /\ \A T \in Int : T > g => Count(hits, T) <= Count(before, T)
  <2>1. CASE stamp < Window
    BY <1>1, <1>9, <2>1
  <2>2. CASE ~(stamp < Window)
    <3> DEFINE start == stamp - Window + 1
    <3>1. start \in Nat /\ \A T \in Int : T > g => T >= start
      BY <1>3, <1>8, <2>2, NumbersAre
    <3>2. before = Since(kept, start)
      BY <1>1, <2>2
    <3> HIDE DEF start, before
    <3>3. /\ Stamps(before) /\ \A k \in DOMAIN before : \E i \in DOMAIN kept : before[k] = kept[i]
          /\ \A T \in Int : T >= start => Count(kept, T) <= Count(before, T)
      <4>1. Stamps(kept) /\ start \in Nat
        BY <1>9, <3>1
      <4>2. /\ Stamps(Since(kept, start))
            /\ \A k \in DOMAIN Since(kept, start) : \E i \in DOMAIN kept : Since(kept, start)[k] = kept[i]
            /\ \A T \in Int : T >= start => Count(kept, T) <= Count(Since(kept, start), T)
        BY <4>1, SinceIs
      <4> QED
        BY <3>2, <4>2
    <3>4. \A T \in Int : Count(hits, T) \in Nat /\ Count(kept, T) \in Nat /\ Count(before, T) \in Nat
      BY <1>2, <1>9, <3>3, CountIs DEF Stamps
    <3>5. ASSUME NEW T \in Int, T > g PROVE Count(hits, T) <= Count(before, T)
      <4>1. Count(hits, T) <= Count(kept, T)
        BY <1>9, <3>5
      <4>2. Count(kept, T) <= Count(before, T)
        BY <3>1, <3>3, <3>5
      <4>3. Count(hits, T) \in Nat /\ Count(kept, T) \in Nat /\ Count(before, T) \in Nat
        BY <3>4
      <4> QED
        BY <4>1, <4>2, <4>3
    <3> QED
      BY <1>9, <3>3, <3>5
  <2> QED
    BY <2>1, <2>2
<1> HIDE DEF before
<1>11. \A k \in DOMAIN before : before[k] <= stamp
  BY <1>5, <1>10
<1>12. /\ Stamps(set) /\ Len(set) = Len(before) + 1
       /\ \A i \in DOMAIN set : set[i] = stamp \/ \E k \in DOMAIN before : set[i] = before[k]
  BY <1>3, <1>10, <1>11, StampsAppend
<1>13. \A T \in Int : Count(set, T) = Count(before, T) + IF stamp >= T THEN 1 ELSE 0
  BY <1>3, <1>10, CountAppend DEF Stamps
<1> HIDE DEF set
<1>14. \A i \in DOMAIN set : set[i] \in Nat /\ set[i] <= stamp
  BY <1>3, <1>5, <1>10, <1>11, <1>12
<1> DEFINE a == Append(admitted, stamp)
<1>15. /\ Stamps(a) /\ Len(a) = Len(admitted) + 1
       /\ \A i \in DOMAIN a : a[i] = stamp \/ \E k \in DOMAIN admitted : a[i] = admitted[k]
  BY <1>2, <1>3, <1>6, StampsAppend
<1>16. \A T \in Int : Count(a, T) = Count(admitted, T) + IF stamp >= T THEN 1 ELSE 0
  BY <1>2, <1>3, CountAppend DEF Stamps
<1>17. /\ DOMAIN admitted = 1..Len(admitted) /\ DOMAIN a = 1..(Len(admitted) + 1) /\ Len(admitted) \in Nat
       /\ a[Len(admitted) + 1] = stamp /\ \A i \in DOMAIN admitted : a[i] = admitted[i]
  BY <1>2, <1>3 DEF Stamps
<1> HIDE DEF a
<1>18. \A i \in DOMAIN a : a[i] \in Nat /\ a[i] <= stamp
  BY <1>3, <1>6, <1>15
<1>19. \A T \in Int : T > g => Count(a, T) <= Count(set, T) /\ Count(admitted, T) <= Count(set, T)
  <2> TAKE T \in Int
  <2> HAVE T > g
  <2>1. Count(admitted, T) <= Count(hits, T) /\ Count(hits, T) <= Count(before, T)
    BY <1>7, <1>8, <1>10 DEF Forgets
  <2>2. Count(admitted, T) \in Nat /\ Count(hits, T) \in Nat /\ Count(before, T) \in Nat
    BY <1>2, <1>10, CountIs DEF Stamps
  <2> QED
    BY <1>13, <1>16, <2>1, <2>2
<1>20. Forgets(g)'
  <2>2. \A T \in Int : T > g => Count(admitted', T) <= Count(hits', T)
    BY <1>1, <1>19 DEF a
  <2>3. g + Window <= time' + Lag /\ \A j \in DOMAIN asked' : g + Window <= asked'[j] + Lag
    <3>1. g + Window <= time + Lag
      BY <1>2, <1>3, <1>4, <1>8, NumbersAre
    <3>2. \A k \in DOMAIN rest : rest[k] \in Nat /\ stamp <= rest[k]
      BY <1>3, StampsAre DEF Stamps
    <3>3. \A k \in DOMAIN rest : g + Window <= rest[k] + Lag
      BY <1>3, <1>8, <3>2, NumbersAre
    <3> QED
      BY <1>1, <3>1, <3>3
  <2> QED
    BY <2>2, <2>3 DEF Forgets, Count, Places
<1>21. NeverOverLimit'
  <2> DEFINE span == Window - Lag
             n == Len(admitted) + 1
  <2>1. span \in Nat /\ stamp - span + 1 \in Int /\ stamp - span + 1 > g /\ n \in Nat
    BY <1>3, <1>8, <1>17, NumbersAre
  <2>2. CASE Len(set) <= MaxRequests
    <3>1. admitted' = a
      BY <1>1, <2>2 DEF a
    <3>2. Within(a, stamp, span) <= MaxRequests
      <4>1. Count(a, stamp - span + 1) <= Count(set, stamp - span + 1)
        BY <1>19, <2>1
      <4>2. a \in Seq(Nat) /\ set \in Seq(Nat)
        BY <1>12, <1>15 DEF Stamps
      <4>3. /\ Count(set, stamp - span + 1) \in Nat /\ Count(set, stamp - span + 1) <= Len(set)
            /\ Count(a, stamp - span + 1) \in Nat /\ Len(set) \in Nat
        BY <2>1, <4>2, CountIs
      <4>4. Within(a, stamp, span) \in Nat /\ Within(a, stamp, span) <= Count(a, stamp - span + 1)
        <5>1. a \in Seq(Nat) /\ stamp \in Nat /\ span \in Int
          BY <1>3, <2>1, <4>2
        <5> HIDE DEF span
        <5> QED
          BY <5>1, WithinIs
      <4> QED
        BY <2>2, <4>1, <4>3, <4>4, NumbersAre
    <3>3. ASSUME NEW i \in DOMAIN a PROVE Within(a, a[i], span) <= MaxRequests
      <4>1. CASE a[i] = stamp
        BY <3>2, <4>1
      <4>2. CASE a[i] # stamp
        <5>1. i \in DOMAIN admitted /\ a[i] = admitted[i] /\ a[i] \in Nat /\ a[i] < stamp
          BY <1>3, <1>17, <1>18, <4>2
        <5>2. {j \in DOMAIN a : a[j] <= a[i] /\ a[j] + span > a[i]}
                 = {j \in DOMAIN admitted : admitted[j] <= a[i] /\ admitted[j] + span > a[i]}
          BY <1>3, <1>17, <5>1
        <5>3. Within(a, a[i], span) = Within(admitted, admitted[i], span)
          BY <5>1, <5>2 DEF Within
        <5> QED
          BY <5>1, <5>3 DEF LimitsInv, SlidingInv, NeverOverLimit
      <4> QED
        BY <4>1, <4>2
    <3> QED
      BY <3>1, <3>3 DEF NeverOverLimit, Within
  <2>3. CASE ~(Len(set) <= MaxRequests)
    <3>1. admitted' = admitted
      BY <1>1, <2>3
    <3> QED
      BY <3>1 DEF LimitsInv, SlidingInv, NeverOverLimit, Within
  <2> QED
    BY <2>2, <2>3
<1>22. Stamps(admitted') /\ \A i \in DOMAIN admitted' : admitted'[i] \in Nat /\ admitted'[i] <= stamp
  BY <1>1, <1>2, <1>6, <1>15, <1>18 DEF a
<1>23. \A j \in DOMAIN asked' : asked'[j] <= time /\ time <= asked'[j] + Lag /\ stamp <= asked'[j] /\ asked'[j] \in Nat
  <2>1. \A k \in DOMAIN rest : rest[k] \in Nat
    BY <1>3, StampsAre DEF Stamps
  <2> QED
    BY <1>1, <1>3, <2>1 DEF LimitsInv, SlidingInv
<1>24. Stamps(asked') /\ Stamps(hits')
  BY <1>1, <1>3, <1>12
<1>25. \A i \in DOMAIN hits' : hits'[i] \in Nat /\ hits'[i] <= stamp
  BY <1>1, <1>14
<1>26. \A i \in DOMAIN hits' : hits'[i] <= time' /\ hits'[i] + Window <= hitsUntil'
                               /\ \A j \in DOMAIN asked' : hits'[i] <= asked'[j]
  BY <1>1, <1>2, <1>3, <1>4, <1>23, <1>25, NumbersAre
<1>27. \A i \in DOMAIN admitted' : admitted'[i] <= time' /\ \A j \in DOMAIN asked' : admitted'[i] <= asked'[j]
  BY <1>1, <1>2, <1>3, <1>4, <1>22, <1>23
<1>28. hitsUntil' \in Nat /\ hitsUntil' <= time' + Window
  BY <1>1, <1>2, NumbersAre
<1>29. \E f2 \in Int : Forgets(f2)'
  BY <1>8, <1>20
<1> QED
  BY <1>1, <1>21, <1>22, <1>23, <1>24, <1>26, <1>27, <1>28, <1>29 DEF SlidingInv, Stamps

LEMMA LaterIs ==
    ASSUME NEW a \in Nat, NEW b \in Nat, a <= b, NEW x \in Int
    PROVE  (x <= a => x <= b) /\ (x <= a + Lag => x <= b + Lag) /\ (x <= a + Window => x <= b + Window)
  BY NumbersAre

\* Steps that leave the sliding window alone, and a knock at it.
LEMMA SlidingStays ==
    ASSUME LimitsInv,
           UNCHANGED <<hits, hitsUntil, admitted>>,
           \/ /\ time' = time
              /\ \/ asked' = asked
                 \/ asked' = Append(asked, time)
                 \/ asked # <<>> /\ asked' = Tail(asked)
           \/ /\ time' = time + 1 /\ asked' = asked /\ \A j \in DOMAIN asked : time < asked[j] + Lag
    PROVE  SlidingInv'
<1>1. Stamps(asked) /\ time \in Nat /\ time' \in Nat /\ time <= time' /\ SlidingInv
  BY DEF LimitsInv, SlidingInv
<1>2. asked \in Seq(Nat) /\ \A j \in DOMAIN asked : asked[j] \in Nat /\ asked[j] <= time
  BY <1>1, StampsAre DEF Stamps, SlidingInv
<1>3. /\ Stamps(asked')
      /\ \A j \in DOMAIN asked' : asked'[j] = time \/ \E k \in DOMAIN asked : asked'[j] = asked[k]
  <2>1. CASE asked' = asked
    BY <1>1, <2>1
  <2>2. CASE asked' = Append(asked, time)
    BY <1>1, <1>2, <2>2, StampsAppend
  <2>3. CASE asked # <<>> /\ asked' = Tail(asked)
    BY <1>1, <2>3, StampsTail
  <2> QED
    BY <2>1, <2>2, <2>3
<1>4. PICK f \in Int : Forgets(f)
  BY <1>1 DEF SlidingInv
<1>5. /\ hits \in Seq(Nat) /\ admitted \in Seq(Nat)
      /\ (\A i \in DOMAIN hits : hits[i] \in Nat) /\ (\A i \in DOMAIN admitted : admitted[i] \in Nat)
  BY <1>1, StampsAre DEF SlidingInv, Stamps
<1>14. /\ \A j \in DOMAIN asked : asked[j] <= time /\ time <= asked[j] + Lag
       /\ \A i \in DOMAIN hits : hits[i] <= time /\ hits[i] + Window <= hitsUntil
                                  /\ \A j \in DOMAIN asked : hits[i] <= asked[j]
       /\ \A i \in DOMAIN admitted : admitted[i] <= time /\ \A j \in DOMAIN asked : admitted[i] <= asked[j]
       /\ hitsUntil \in Nat /\ hitsUntil <= time + Window
  BY <1>1 DEF SlidingInv
<1>15. time \in Nat /\ time' \in Nat /\ \A x \in Int : x <= time => x <= time'
  BY <1>1
<1>6. ASSUME NEW j \in DOMAIN asked' PROVE asked'[j] <= time' /\ time' <= asked'[j] + Lag
  <2>1. CASE time' = time
    <3>1. CASE asked'[j] = time
      BY <1>1, <2>1, <3>1, NumbersAre
    <3>2. CASE \E k \in DOMAIN asked : asked'[j] = asked[k]
      BY <1>14, <2>1, <3>2
    <3> QED
      BY <1>3, <3>1, <3>2
  <2>2. CASE time' # time
    <3>1. time' = time + 1 /\ asked' = asked /\ time < asked[j] + Lag /\ asked[j] \in Nat /\ asked[j] <= time
      BY <1>2, <2>2
    <3> QED
      BY <1>1, <3>1, NumbersAre
  <2> QED
    BY <2>1, <2>2
<1>7. \A j \in DOMAIN asked' : f + Window <= asked'[j] + Lag
  BY <1>3, <1>4 DEF Forgets
<1>8. f + Window <= time' + Lag
  <2>1. f + Window <= time + Lag
    BY <1>4 DEF Forgets
  <2>2. f + Window \in Int
    BY NumbersAre
  <2> QED
    BY <1>1, <2>1, <2>2, LaterIs
<1>9. Forgets(f)'
  BY <1>4, <1>7, <1>8 DEF Forgets, Count, Places
<1>10. \A i \in DOMAIN hits : hits[i] <= time' /\ hits[i] + Window <= hitsUntil /\ \A j \in DOMAIN asked' : hits[i] <= asked'[j]
  <2> TAKE i \in DOMAIN hits
  <2>1. hits[i] <= time /\ hits[i] + Window <= hitsUntil /\ \A k \in DOMAIN asked : hits[i] <= asked[k]
    BY <1>14
  <2>2. hits[i] <= time'
    BY <1>5, <1>15, <2>1
  <2>3. ASSUME NEW j \in DOMAIN asked' PROVE hits[i] <= asked'[j]
    BY <1>3, <2>1, <2>3
  <2> QED
    BY <2>1, <2>2, <2>3
<1>11. \A i \in DOMAIN admitted : admitted[i] <= time' /\ \A j \in DOMAIN asked' : admitted[i] <= asked'[j]
  <2> TAKE i \in DOMAIN admitted
  <2>1. admitted[i] <= time /\ \A k \in DOMAIN asked : admitted[i] <= asked[k]
    BY <1>14
  <2>2. admitted[i] <= time'
    BY <1>5, <1>15, <2>1
  <2>3. ASSUME NEW j \in DOMAIN asked' PROVE admitted[i] <= asked'[j]
    BY <1>3, <2>1, <2>3
  <2> QED
    BY <2>1, <2>2, <2>3
<1>12. hitsUntil \in Nat /\ hitsUntil <= time' + Window
  BY <1>1, <1>14, LaterIs
<1>13. NeverOverLimit'
  BY <1>1 DEF SlidingInv, NeverOverLimit, Within
<1> QED
  BY <1>1, <1>3, <1>6, <1>9, <1>10, <1>11, <1>12, <1>13 DEF SlidingInv, Stamps

\* What a host was refused for stays so as requests come.
LEMMA CauseStays ==
    ASSUME LimitsInv, time' = time, knocks' \in {knocks, Append(knocks, time)},
           unbounded' \in BOOLEAN, unbounded => unbounded',
           refused' \in {Nobody, refused}
    PROVE  RefusedForCause'
<1>1. /\ knocks \in Seq(Nat) /\ time \in Nat
      /\ (\A i \in DOMAIN knocks : knocks[i] <= time) /\ RefusedForCause
  BY DEF LimitsInv, HostInv, HostTyped, Stamps
<1> DEFINE span == Window + Lag + 1
           T == time - span + 1
           a == Append(knocks, time)
<1>2. span \in Int /\ T \in Int
  BY <1>1, NumbersAre
<1>3. Within(knocks, time, span) = Count(knocks, T) /\ Count(knocks, T) \in Nat
  BY <1>1, <1>2, WithinIs, CountIs
<1>4. a \in Seq(Nat) /\ \A i \in DOMAIN a : a[i] <= time
  BY <1>1
<1>5. Count(a, T) = Count(knocks, T) + IF time >= T THEN 1 ELSE 0
  BY <1>1, <1>2, CountAppend
<1>6. Within(a, time, span) = Count(a, T)
  BY <1>1, <1>2, <1>4, WithinIs
<1> HIDE DEF T, a, span
<1>7. Within(knocks, time, span) \in Nat /\ Within(a, time, span) >= Within(knocks, time, span)
  BY <1>3, <1>5, <1>6
<1>8. Within(knocks', time, span) >= Within(knocks, time, span) /\ Within(knocks', time, span) \in Nat
  <2>1. CASE knocks' = knocks
    BY <1>7, <2>1
  <2>2. CASE knocks' = a
    <3>1. Within(a, time, span) \in Nat
      BY <1>3, <1>5, <1>6
    <3> QED
      BY <1>7, <2>2, <3>1
  <2> QED
    BY <2>1, <2>2 DEF a
<1>9. refused # Nobody /\ ~unbounded => Within(knocks, time, span) > HostMax
  BY <1>1 DEF RefusedForCause, span
<1>10. refused' # Nobody => unbounded' \/ Within(knocks', time, span) > HostMax
  <2>1. CASE refused' # Nobody /\ ~unbounded'
    <3>1. refused # Nobody /\ ~unbounded
      BY <2>1
    <3>2. Within(knocks, time, span) > HostMax
      BY <1>9, <3>1
    <3> QED
      BY <1>7, <1>8, <3>2, NumbersAre
  <2> QED
    BY <2>1
<1>11. (Within(knocks, time, span))' = Within(knocks', time, span)
  BY DEF Within, span
<1> QED
  BY <1>10, <1>11 DEF RefusedForCause, span, Within

LEMMA KnockIs ==
    ASSUME LimitsInv, NEW new, new = Append(knocks, time)
    PROVE  /\ Stamps(new) /\ \A i \in DOMAIN new : new[i] <= time
           /\ \A T \in Int : /\ Count(knocks, T) \in Nat
                             /\ Count(new, T) = Count(knocks, T) + IF time >= T THEN 1 ELSE 0
<1>1. Stamps(knocks) /\ time \in Nat /\ \A i \in DOMAIN knocks : knocks[i] <= time
  BY DEF LimitsInv, HostInv, HostTyped
<1>2. knocks \in Seq(Nat)
  BY <1>1 DEF Stamps
<1>3. /\ Stamps(new)
      /\ \A i \in DOMAIN new : new[i] = time \/ \E j \in DOMAIN knocks : new[i] = knocks[j]
  BY <1>1, StampsAppend
<1>4. \A T \in Int : Count(new, T) = Count(knocks, T) + IF time >= T THEN 1 ELSE 0
  BY <1>1, <1>2, CountAppend
<1>5. \A T \in Int : Count(knocks, T) \in Nat
  BY <1>2, CountIs
<1>6. \A i \in DOMAIN new : new[i] <= time
  BY <1>1, <1>3
<1>7. Stamps(new)
  BY <1>3
<1> QED
  BY <1>4, <1>5, <1>6, <1>7

\* More requests than the limit in the window are cause enough.
LEMMA CauseIs ==
    ASSUME NEW s, Stamps(s), NEW stamp \in Nat, \A i \in DOMAIN s : s[i] <= stamp,
           NEW b \in Int, b >= stamp - Window - Lag, Count(s, b) > HostMax
    PROVE  Within(s, stamp, Window + Lag + 1) > HostMax
<1> DEFINE span == Window + Lag + 1
           T == stamp - span + 1
<1>1. s \in Seq(Nat) /\ span \in Int /\ T \in Int /\ b >= T
  BY NumbersAre DEF Stamps
<1>2. Within(s, stamp, span) = Count(s, T)
  BY <1>1, WithinIs
<1> HIDE DEF T
<1>3. Places(s, b) \subseteq Places(s, T)
  BY <1>1, StampsAre DEF Places
<1>4. Count(s, b) \in Nat /\ Count(s, b) <= Count(s, T) /\ Count(s, T) \in Nat
  BY <1>1, <1>3, FewerCount, CountIs DEF Count
<1> QED
  BY <1>2, <1>4, NumbersAre

LEMMA IncrStep == ASSUME LimitsInv, Incr PROVE HostInv'
<1> DEFINE new == Append(knocks, time)
           alive == unbounded \/ counting # <<>> \/ time < until
<1>1. /\ knocks' = new /\ time' = time /\ until' = until /\ unbounded' = unbounded /\ memory' = memory
      /\ count' = (IF alive THEN count ELSE 0) + 1
      /\ counting' = (IF count' = 1 THEN <<time>> ELSE counting)
      /\ refused' = (IF count' > HostMax THEN "redis" ELSE Nobody)
  BY DEF Incr, Came, Counted
<1>2. HostTyped /\ CounterSound /\ MemorySound /\ time \in Nat
  BY DEF LimitsInv, HostInv
<1>3. /\ Stamps(new) /\ \A i \in DOMAIN new : new[i] <= time
      /\ \A T \in Int : /\ Count(knocks, T) \in Nat
                        /\ Count(new, T) = Count(knocks, T) + IF time >= T THEN 1 ELSE 0
  BY KnockIs
<1> HIDE DEF new
<1>4. /\ count \in Nat /\ until \in Nat
      /\ counting = <<>> \/ (\E t \in Nat : counting = <<t>> /\ t <= time /\ time <= t + Lag)
  BY <1>2 DEF HostTyped
<1>5. count' \in Nat
  BY <1>1, <1>4
<1>6. counting' = counting \/ counting' = <<time>>
  BY <1>1
<1>7. counting' = <<>> \/ (\E t \in Nat : counting' = <<t>> /\ t <= time /\ time <= t + Lag)
  <2>1. CASE counting' = <<time>>
    BY <1>2, <2>1, NumbersAre
  <2>2. CASE counting' = counting
    BY <1>4, <2>2
  <2> QED
    BY <1>6, <2>1, <2>2
<1>8. HostTyped'
  BY <1>1, <1>2, <1>3, <1>5, <1>7 DEF HostTyped, Stamps
<1>9. MemorySound'
  <2> SUFFICES ASSUME NEW T \in Int PROVE Count(memory, T) + Owed(T)' <= Count(new, T - Lag)
    BY <1>1 DEF MemorySound, Count, Places, new
  <2>1. Count(memory, T) + Owed(T) <= Count(knocks, T - Lag)
    BY <1>2 DEF MemorySound
  <2>2. T - Lag \in Int /\ (time >= T - Lag <=> time + Lag >= T)
    BY <1>2, NumbersAre
  <2>3. Count(new, T - Lag) = Count(knocks, T - Lag) + IF time + Lag >= T THEN 1 ELSE 0
    BY <1>3, <2>2
  <2>4. Owed(T)' <= Owed(T) + (IF time + Lag >= T THEN 1 ELSE 0) /\ Owed(T)' \in Nat /\ Owed(T) \in Nat
    <3>1. CASE counting' = counting
      BY <3>1 DEF Owed
    <3>2. CASE counting' = <<time>>
      <4>1. counting'[1] = time /\ counting' # <<>>
        BY <3>2
      <4> QED
        BY <4>1 DEF Owed
    <3> QED
      BY <1>6, <3>1, <3>2
  <2>5. Count(memory, T) \in Nat /\ Count(knocks, T - Lag) \in Nat
    BY <1>2, <1>3, <2>2, CountIs DEF HostTyped, Stamps
  <2> QED
    BY <2>1, <2>3, <2>4, <2>5
<1>10. CASE unbounded
  BY <1>1, <1>8, <1>9, <1>10 DEF HostInv, CounterSound, RefusedForCause
<1>11. CASE ~unbounded
  <2>1. PICK began \in Nat : /\ began <= time /\ count' <= Count(new, began)
                             /\ counting' # <<>> => counting'[1] = began
                             /\ counting' = <<>> => until <= began + Lag + Window
                             /\ began >= time - Window - Lag
    <3>1. CASE count' = 1
      <4>1. counting' = <<time>> /\ counting'[1] = time /\ counting' # <<>>
        BY <1>1, <3>1
      <4>2. Count(new, time) = Count(knocks, time) + 1 /\ Count(knocks, time) \in Nat
        BY <1>2, <1>3
      <4>3. count' <= Count(new, time)
        BY <3>1, <4>2
      <4>4. time >= time - Window - Lag /\ time <= time
        BY <1>2, NumbersAre
      <4> QED
        BY <1>2, <4>1, <4>3, <4>4
    <3>2. CASE count' # 1
      <4>1. alive /\ count' = count + 1 /\ counting' = counting
        BY <1>1, <3>2
      <4>2. PICK began \in Nat : Counts(began)
        BY <1>2, <1>11, <4>1 DEF CounterSound
      <4>3. Count(new, began) = Count(knocks, began) + 1 /\ Count(knocks, began) \in Nat
        BY <1>3, <4>2 DEF Counts
      <4>4. count' <= Count(new, began)
        BY <1>4, <4>1, <4>2, <4>3 DEF Counts
      <4>5. began >= time - Window - Lag
        <5>1. CASE counting # <<>>
          <6>1. counting[1] = began /\ time <= counting[1] + Lag
            BY <1>4, <4>2, <5>1 DEF Counts
          <6> QED
            BY <1>2, <6>1, NumbersAre
        <5>2. CASE counting = <<>>
          <6>1. time < until /\ until <= began + Lag + Window
            BY <1>11, <4>1, <4>2, <5>2 DEF Counts
          <6> QED
            BY <1>2, <1>4, <6>1, NumbersAre
        <5> QED
          BY <5>1, <5>2
      <4> QED
        BY <4>1, <4>2, <4>4, <4>5 DEF Counts
    <3> QED
      BY <3>1, <3>2
  <2>2. CounterSound'
    BY <1>1, <2>1 DEF CounterSound, Counts, Count, Places, new
  <2>3. RefusedForCause'
    <3>1. CASE count' > HostMax
      <4>1. Count(new, began) \in Nat /\ Count(new, began) > HostMax
        <5>1. new \in Seq(Nat)
          BY <1>3 DEF Stamps
        <5>2. Count(new, began) \in Nat
          BY <5>1, CountIs
        <5> QED
          BY <1>5, <2>1, <3>1, <5>2, NumbersAre
      <4>2. Within(new, time, Window + Lag + 1) > HostMax
        <5>1. Stamps(new) /\ \A i \in DOMAIN new : new[i] <= time
          BY <1>3
        <5>2. time \in Nat /\ began \in Int /\ began >= time - Window - Lag /\ Count(new, began) > HostMax
          BY <1>2, <2>1, <4>1
        <5> QED
          BY <5>1, <5>2, CauseIs
      <4> QED
        BY <1>1, <4>2 DEF RefusedForCause, Within, new
    <3>2. CASE ~(count' > HostMax)
      BY <1>1, <3>2 DEF RefusedForCause
    <3> QED
      BY <3>1, <3>2
  <2> QED
    BY <1>8, <1>9, <2>2, <2>3 DEF HostInv
<1> QED
  BY <1>10, <1>11

\* What the memory decides of a request that came, or of the one that is owed.
LEMMA MemoryIs ==
    ASSUME LimitsInv, CheckHostLimitMemory
    PROVE  /\ Stamps(memory') /\ Len(memory') <= HostMax
           /\ \A i \in DOMAIN memory' : memory'[i] <= time
           /\ \A T \in Int : Count(memory', T) \in Nat /\ Count(memory, T) \in Nat
                             /\ Count(memory', T) <= Count(memory, T) + IF time >= T THEN 1 ELSE 0
           /\ \/ refused' = Nobody
              \/ refused' = "memory" /\ Count(memory, time - Window) >= HostMax
<1> DEFINE new == Memory
<1>1. /\ Stamps(memory) /\ time \in Nat /\ Len(memory) <= HostMax
      /\ \A i \in DOMAIN memory : memory[i] <= time
  BY DEF LimitsInv, HostInv, HostTyped
<1>2. memory \in Seq(Nat) /\ \A T \in Int : Count(memory, T) \in Nat
  BY <1>1, CountIs DEF Stamps
<1>3. /\ Stamps(new) /\ Len(new) <= Len(memory)
      /\ \A k \in DOMAIN new : \E i \in DOMAIN memory : new[k] = memory[i]
      /\ \A T \in Int : Count(new, T) <= Count(memory, T)
      /\ Len(new) <= Count(memory, time - Window)
  <2>1. CASE time < Window
    <3>1. new = memory
      BY <2>1 DEF Memory
    <3>2. Places(memory, time - Window) = DOMAIN memory
      <4>1. time - Window \in Int /\ \A x \in Nat : x >= time - Window
        BY <1>1, <2>1, NumbersAre
      <4> QED
        BY <1>2, <4>1, StampsAre DEF Places
    <3>3. Count(memory, time - Window) = Len(memory) /\ Len(memory) \in Nat
      BY <1>2, <3>2, StampsAre DEF Count
    <3> HIDE DEF new
    <3>4. Stamps(new) /\ \A k \in DOMAIN new : \E i \in DOMAIN memory : new[k] = memory[i]
      BY <1>1, <3>1, Zenon
    <3>5. \A T \in Int : Count(new, T) <= Count(memory, T)
      BY <1>2, <3>1
    <3>6. Len(new) <= Len(memory) /\ Len(new) <= Count(memory, time - Window)
      <4>1. Len(new) = Len(memory)
        BY <3>1, Zenon
      <4> QED
        BY <3>3, <4>1
    <3> QED
      BY <3>4, <3>5, <3>6, Zenon
  <2>2. CASE ~(time < Window)
    <3> DEFINE start == time - Window
    <3>1. start \in Nat
      BY <1>1, <2>2, NumbersAre
    <3>2. new = Since(memory, start)
      BY <2>2 DEF Memory
    <3> HIDE DEF start, new
    <3>3. /\ Stamps(Since(memory, start)) /\ Len(Since(memory, start)) <= Len(memory)
          /\ \A k \in DOMAIN Since(memory, start) : \E i \in DOMAIN memory : Since(memory, start)[k] = memory[i]
          /\ Len(Since(memory, start)) <= Count(memory, start)
          /\ \A T \in Int : Count(Since(memory, start), T) <= Count(memory, T)
      BY <1>1, <3>1, SinceIs
    <3>4. Len(new) <= Count(memory, time - Window)
      BY <3>2, <3>3 DEF start
    <3> QED
      BY <3>2, <3>3, <3>4
  <2> QED
    BY <2>1, <2>2
<1>4. \/ Len(new) >= HostMax /\ memory' = new /\ refused' = "memory"
      \/ ~(Len(new) >= HostMax) /\ memory' = Append(new, time) /\ refused' = Nobody
  BY DEF CheckHostLimitMemory
<1> HIDE DEF new
<1>5. new \in Seq(Nat) /\ Len(new) \in Nat /\ \A i \in DOMAIN new : new[i] <= time
  BY <1>1, <1>3, StampsAre DEF Stamps
<1>6. \A T \in Int : Count(new, T) \in Nat
  BY <1>5, CountIs
<1>7. CASE Len(new) >= HostMax /\ memory' = new /\ refused' = "memory"
  <2>1. Len(memory) \in Nat /\ time - Window \in Int
    BY <1>1, <1>2, NumbersAre
  <2>2. Count(memory, time - Window) \in Nat
    BY <1>2, <2>1
  <2>3. Count(memory, time - Window) >= HostMax
    BY <1>3, <1>5, <1>7, <2>2, NumbersAre
  <2>4. ASSUME NEW T \in Int PROVE Count(new, T) <= Count(memory, T) + IF time >= T THEN 1 ELSE 0
    <3>1. Count(new, T) \in Nat /\ Count(memory, T) \in Nat /\ Count(new, T) <= Count(memory, T)
      BY <1>2, <1>3, <1>6
    <3> QED
      BY <3>1
  <2>5. Len(new) <= HostMax
    BY <1>1, <1>3, <1>5, <2>1, NumbersAre
  <2> QED
    BY <1>2, <1>3, <1>5, <1>6, <1>7, <2>3, <2>4, <2>5
<1>8. CASE ~(Len(new) >= HostMax) /\ memory' = Append(new, time) /\ refused' = Nobody
  <2>1. /\ Stamps(memory') /\ Len(memory') = Len(new) + 1
        /\ \A i \in DOMAIN memory' : memory'[i] = time \/ \E j \in DOMAIN new : memory'[i] = new[j]
    BY <1>1, <1>3, <1>5, <1>8, StampsAppend
  <2>2. \A T \in Int : Count(memory', T) = Count(new, T) + IF time >= T THEN 1 ELSE 0
    BY <1>1, <1>5, <1>8, CountAppend
  <2>3. Len(memory') <= HostMax
    BY <1>5, <1>8, <2>1, NumbersAre
  <2>4. \A i \in DOMAIN memory' : memory'[i] <= time
    BY <1>1, <1>5, <2>1
  <2>5. ASSUME NEW T \in Int
        PROVE  Count(memory', T) \in Nat /\ Count(memory', T) <= Count(memory, T) + IF time >= T THEN 1 ELSE 0
    <3>1. Count(new, T) \in Nat /\ Count(memory, T) \in Nat /\ Count(new, T) <= Count(memory, T)
      BY <1>2, <1>3, <1>6
    <3>2. Count(memory', T) = Count(new, T) + IF time >= T THEN 1 ELSE 0
      BY <2>2
    <3> QED
      BY <3>1, <3>2
  <2> QED
    BY <1>2, <1>8, <2>1, <2>3, <2>4, <2>5
<1> QED
  BY <1>4, <1>7, <1>8

\* Steps in which no request of the host is decided.
LEMMA HostStays ==
    ASSUME LimitsInv, time' = time, UNCHANGED hostVars, knocks' \in {knocks, Append(knocks, time)}
    PROVE  HostInv'
<1> DEFINE new == Append(knocks, time)
<1>1. HostTyped /\ CounterSound /\ MemorySound
  BY DEF LimitsInv, HostInv
<1>2. /\ Stamps(new) /\ \A i \in DOMAIN new : new[i] <= time
      /\ \A T \in Int : /\ Count(knocks, T) \in Nat
                        /\ Count(new, T) = Count(knocks, T) + IF time >= T THEN 1 ELSE 0
  BY KnockIs
<1> HIDE DEF new
<1>3. /\ count' = count /\ until' = until /\ counting' = counting /\ memory' = memory
      /\ unbounded' = unbounded /\ refused' = refused
  BY DEF hostVars
<1>4. ASSUME NEW T \in Int PROVE Count(knocks', T) >= Count(knocks, T) /\ Count(knocks', T) \in Nat
  <2> DEFINE one == IF time >= T THEN 1 ELSE 0
  <2>a. one \in {0, 1}
    OBVIOUS
  <2>b. Count(knocks, T) \in Nat /\ Count(new, T) = Count(knocks, T) + one
    BY <1>2
  <2> HIDE DEF one, Count
  <2>1. Count(new, T) >= Count(knocks, T) /\ Count(new, T) \in Nat /\ Count(knocks, T) \in Nat
    BY <2>a, <2>b
  <2>2. CASE knocks' = knocks
    BY <2>1, <2>2
  <2>3. CASE knocks' = new
    BY <2>1, <2>3
  <2>4. knocks' = knocks \/ knocks' = new
    BY DEF new
  <2> QED
    BY <2>2, <2>3, <2>4
<1>5. HostTyped'
  <2>1. Stamps(knocks') /\ \A i \in DOMAIN knocks' : knocks'[i] <= time
    <3>1. knocks' = knocks \/ knocks' = new
      BY DEF new
    <3> QED
      BY <1>1, <1>2, <3>1 DEF HostTyped
  <2> QED
    BY <1>1, <1>3, <2>1 DEF HostTyped, Stamps
<1>6. CounterSound'
  <2> SUFFICES ASSUME ~unbounded, counting # <<>> \/ time < until
               PROVE  \E began \in Nat : Counts(began)'
    BY <1>3 DEF CounterSound
  <2>1. PICK began \in Nat : Counts(began)
    BY <1>1 DEF CounterSound
  <2>2. count \in Nat /\ Count(knocks, began) \in Nat
    BY <1>1, <1>2 DEF HostTyped
  <2>3. count <= Count(knocks', began)
    BY <1>4, <2>1, <2>2 DEF Counts
  <2>4. Counts(began)'
    BY <1>3, <2>1, <2>3 DEF Counts, Count, Places
  <2> QED
    BY <2>4
<1>7. MemorySound'
  <2> SUFFICES ASSUME NEW T \in Int PROVE Count(memory, T) + Owed(T) <= Count(knocks', T - Lag)
    BY <1>3 DEF MemorySound, Count, Places, Owed
  <2>1. Count(memory, T) + Owed(T) <= Count(knocks, T - Lag) /\ T - Lag \in Int
    BY <1>1, NumbersAre DEF MemorySound
  <2>2. Count(memory, T) \in Nat
    BY <1>1, CountIs DEF HostTyped, Stamps
  <2>3. Owed(T) \in Nat
    BY DEF Owed
  <2>4. Count(knocks, T - Lag) \in Nat
    BY <1>2, <2>1
  <2>5. Count(knocks', T - Lag) >= Count(knocks, T - Lag) /\ Count(knocks', T - Lag) \in Nat
    BY <1>4, <2>1
  <2> QED
    BY <2>1, <2>2, <2>3, <2>4, <2>5
<1>8. RefusedForCause'
  <2>1. unbounded \in BOOLEAN
    BY <1>1 DEF HostTyped
  <2>2. unbounded' \in BOOLEAN /\ (unbounded => unbounded') /\ refused' \in {Nobody, refused}
    BY <1>3, <2>1
  <2> QED
    BY <2>2, CauseStays
<1> QED
  BY <1>5, <1>6, <1>7, <1>8 DEF HostInv

LEMMA PexpireStep == ASSUME LimitsInv, Pexpire PROVE HostInv'
<1>1. /\ counting # <<>> /\ counting' = <<>> /\ until' = time + Window
      /\ time' = time /\ count' = count /\ memory' = memory /\ knocks' = knocks
      /\ unbounded' = unbounded /\ refused' = refused
  BY DEF Pexpire
<1>2. HostTyped /\ CounterSound /\ MemorySound /\ time \in Nat
  BY DEF LimitsInv, HostInv
<1>3. HostTyped'
  BY <1>1, <1>2, NumbersAre DEF HostTyped, Stamps
<1>4. CounterSound'
  <2> SUFFICES ASSUME ~unbounded PROVE \E began \in Nat : Counts(began)'
    BY <1>1 DEF CounterSound
  <2>1. PICK began \in Nat : Counts(began)
    BY <1>1, <1>2 DEF CounterSound
  <2>2. counting[1] = began /\ time <= counting[1] + Lag
    BY <1>1, <1>2, <2>1 DEF HostTyped, Counts
  <2>3. until' <= began + Lag + Window
    BY <1>1, <1>2, <2>2, NumbersAre
  <2>4. Counts(began)'
    BY <1>1, <2>1, <2>3 DEF Counts, Count, Places
  <2> QED
    BY <2>4
<1>5. MemorySound'
  <2> SUFFICES ASSUME NEW T \in Int PROVE Count(memory, T) + 0 <= Count(knocks, T - Lag)
    BY <1>1 DEF MemorySound, Count, Places, Owed
  <2>1. Count(memory, T) + Owed(T) <= Count(knocks, T - Lag) /\ T - Lag \in Int
    BY <1>2, NumbersAre DEF MemorySound
  <2>2. Count(memory, T) \in Nat /\ Count(knocks, T - Lag) \in Nat
    BY <1>2, <2>1, CountIs DEF HostTyped, Stamps
  <2>3. Owed(T) \in Nat
    BY DEF Owed
  <2> QED
    BY <2>1, <2>2, <2>3
<1>6. RefusedForCause'
  BY <1>1 DEF LimitsInv, HostInv, RefusedForCause, Within
<1> QED
  BY <1>3, <1>4, <1>5, <1>6 DEF HostInv

LEMMA IncrFailsStep == ASSUME LimitsInv, IncrFails PROVE HostInv'
<1> DEFINE new == Append(knocks, time)
<1>1. /\ knocks' = new /\ time' = time /\ CheckHostLimitMemory
      /\ count' = count /\ until' = until /\ counting' = counting /\ unbounded' = unbounded
  BY DEF IncrFails, Came
<1>2. HostTyped /\ CounterSound /\ MemorySound /\ time \in Nat
  BY DEF LimitsInv, HostInv
<1>3. /\ Stamps(new) /\ \A i \in DOMAIN new : new[i] <= time
      /\ \A T \in Int : /\ Count(knocks, T) \in Nat
                        /\ Count(new, T) = Count(knocks, T) + IF time >= T THEN 1 ELSE 0
  BY KnockIs
<1> HIDE DEF new
<1>4. /\ Stamps(memory') /\ Len(memory') <= HostMax
      /\ \A i \in DOMAIN memory' : memory'[i] <= time
      /\ \A T \in Int : Count(memory', T) \in Nat /\ Count(memory, T) \in Nat
                        /\ Count(memory', T) <= Count(memory, T) + IF time >= T THEN 1 ELSE 0
      /\ \/ refused' = Nobody
         \/ refused' = "memory" /\ Count(memory, time - Window) >= HostMax
  BY <1>1, MemoryIs
<1>5. HostTyped'
  <2>1. refused' \in {Nobody, "redis", "memory"}
    BY <1>4
  <2> QED
    BY <1>1, <1>2, <1>3, <1>4, <2>1 DEF HostTyped, Stamps
<1>6. CounterSound'
  <2> SUFFICES ASSUME ~unbounded, counting # <<>> \/ time < until
               PROVE  \E began \in Nat : Counts(began)'
    BY <1>1 DEF CounterSound
  <2>1. PICK began \in Nat : Counts(began)
    BY <1>2 DEF CounterSound
  <2>2. count \in Nat /\ count <= Count(knocks, began)
    BY <1>2, <2>1 DEF HostTyped, Counts
  <2>5. Count(knocks, began) \in Nat /\ Count(new, began) = Count(knocks, began) + IF time >= began THEN 1 ELSE 0
    BY <1>3
  <2>3. count <= Count(new, began)
    BY <2>2, <2>5
  <2>4. Counts(began)'
    BY <1>1, <2>1, <2>3 DEF Counts, Count, Places
  <2> QED
    BY <2>4
<1>7. MemorySound'
  <2> SUFFICES ASSUME NEW T \in Int PROVE Count(memory', T) + Owed(T) <= Count(new, T - Lag)
    BY <1>1 DEF MemorySound, Count, Places, Owed
  <2>1. Count(memory, T) + Owed(T) <= Count(knocks, T - Lag) /\ T - Lag \in Int
    BY <1>2, NumbersAre DEF MemorySound
  <2>2. Owed(T) \in Nat
    BY DEF Owed
  <2>3. Count(new, T - Lag) = Count(knocks, T - Lag) + (IF time >= T - Lag THEN 1 ELSE 0) /\ Count(knocks, T - Lag) \in Nat
    BY <1>3, <2>1
  <2>4. time >= T => time >= T - Lag
    BY <1>2, NumbersAre
  <2>5. /\ Count(memory', T) \in Nat /\ Count(memory, T) \in Nat
        /\ Count(memory', T) <= Count(memory, T) + IF time >= T THEN 1 ELSE 0
    BY <1>4
  <2> QED
    BY <2>1, <2>2, <2>3, <2>4, <2>5
<1>8. RefusedForCause'
  <2>1. CASE refused' = Nobody
    BY <2>1 DEF RefusedForCause
  <2>2. CASE Count(memory, time - Window) >= HostMax
    <3> DEFINE T == time - Window
    <3>1. T \in Int /\ T - Lag \in Int /\ time >= T - Lag /\ T - Lag = time - Window - Lag
      BY <1>2, NumbersAre
    <3> HIDE DEF T
    <3>2. Count(memory, T) + Owed(T) <= Count(knocks, T - Lag)
      BY <1>2, <3>1 DEF MemorySound
    <3>3. Owed(T) \in Nat
      BY DEF Owed
    <3>4. Count(memory, T) \in Nat /\ Count(knocks, T - Lag) \in Nat /\ Count(new, T - Lag) = Count(knocks, T - Lag) + 1
      BY <1>3, <1>4, <3>1
    <3>5. Count(memory, T) >= HostMax
      BY <2>2 DEF T
    <3>6. Count(new, T - Lag) > HostMax
      BY <3>2, <3>3, <3>4, <3>5, NumbersAre
    <3>7. Stamps(new) /\ \A i \in DOMAIN new : new[i] <= time
      BY <1>3
    <3>8. T - Lag >= time - Window - Lag
      BY <3>1
    <3>9. Within(new, time, Window + Lag + 1) > HostMax
      BY <1>2, <3>1, <3>6, <3>7, <3>8, CauseIs
    <3> QED
      BY <1>1, <3>9 DEF RefusedForCause, Within, new
  <2> QED
    BY <1>4, <2>1, <2>2
<1> QED
  BY <1>5, <1>6, <1>7, <1>8 DEF HostInv

LEMMA PexpireFailsStep == ASSUME LimitsInv, PexpireFails PROVE HostInv'
<1>1. /\ counting # <<>> /\ CheckHostLimitMemory /\ counting' = <<>> /\ unbounded' = TRUE
      /\ time' = time /\ count' = count /\ until' = until /\ knocks' = knocks
  BY DEF PexpireFails
<1>2. HostTyped /\ MemorySound /\ time \in Nat
  BY DEF LimitsInv, HostInv
<1>3. /\ Stamps(memory') /\ Len(memory') <= HostMax
      /\ \A i \in DOMAIN memory' : memory'[i] <= time
      /\ \A T \in Int : Count(memory', T) \in Nat /\ Count(memory, T) \in Nat
                        /\ Count(memory', T) <= Count(memory, T) + IF time >= T THEN 1 ELSE 0
      /\ refused' = Nobody \/ refused' = "memory"
  BY <1>1, MemoryIs
<1>4. HostTyped'
  <2>1. refused' \in {Nobody, "redis", "memory"}
    BY <1>3
  <2> QED
    BY <1>1, <1>2, <1>3, <2>1 DEF HostTyped, Stamps
<1>5. MemorySound'
  <2> SUFFICES ASSUME NEW T \in Int PROVE Count(memory', T) + 0 <= Count(knocks, T - Lag)
    BY <1>1 DEF MemorySound, Count, Places, Owed
  <2>1. Count(memory, T) + Owed(T) <= Count(knocks, T - Lag) /\ T - Lag \in Int
    BY <1>2, NumbersAre DEF MemorySound
  <2>2. PICK t \in Nat : counting = <<t>> /\ time <= t + Lag
    BY <1>1, <1>2 DEF HostTyped
  <2>3. counting[1] = t
    BY <2>2
  <2>4. time >= T => t + Lag >= T
    BY <1>2, <2>2, NumbersAre
  <2>5. Owed(T) = IF t + Lag >= T THEN 1 ELSE 0
    BY <1>1, <2>3 DEF Owed
  <2>6. Count(knocks, T - Lag) \in Nat
    BY <1>2, <2>1, CountIs DEF HostTyped, Stamps
  <2>7. /\ Count(memory', T) \in Nat /\ Count(memory, T) \in Nat
        /\ Count(memory', T) <= Count(memory, T) + IF time >= T THEN 1 ELSE 0
    BY <1>3
  <2> QED
    BY <2>1, <2>4, <2>5, <2>6, <2>7
<1>6. CounterSound' /\ RefusedForCause'
  BY <1>1 DEF CounterSound, RefusedForCause
<1> QED
  BY <1>4, <1>5, <1>6 DEF HostInv

LEMMA PassesStep == ASSUME LimitsInv, Passes PROVE HostInv'
<1>1. /\ time' = time + 1 /\ refused' = Nobody /\ knocks' = knocks /\ count' = count /\ until' = until
      /\ counting' = counting /\ memory' = memory /\ unbounded' = unbounded
      /\ counting # <<>> => time < counting[1] + Lag
  BY DEF Passes
<1>2. HostTyped /\ CounterSound /\ MemorySound /\ time \in Nat
  BY DEF LimitsInv, HostInv
<1>3. HostTyped'
  <2>1. counting = <<>> \/ (\E t \in Nat : counting = <<t>> /\ t <= time + 1 /\ time + 1 <= t + Lag)
    <3>1. CASE counting # <<>>
      <4>1. PICK t \in Nat : counting = <<t>> /\ t <= time
        BY <1>2, <3>1 DEF HostTyped
      <4>2. time < t + Lag
        BY <1>1, <3>1, <4>1
      <4>3. t <= time + 1 /\ time + 1 <= t + Lag
        BY <1>2, <4>1, <4>2, NumbersAre
      <4> QED
        BY <4>1, <4>3
    <3> QED
      BY <3>1
  <2>2. memory \in Seq(Nat) /\ knocks \in Seq(Nat)
    BY <1>2 DEF HostTyped, Stamps
  <2>3. (\A i \in DOMAIN memory : memory[i] \in Nat) /\ (\A i \in DOMAIN knocks : knocks[i] \in Nat)
    BY <2>2, StampsAre
  <2>4. \A x \in Nat : x <= time => x <= time + 1
    BY <1>2
  <2>5. /\ \A i \in DOMAIN memory : memory[i] <= time + 1
        /\ \A i \in DOMAIN knocks : knocks[i] <= time + 1
    BY <1>2, <2>3, <2>4 DEF HostTyped
  <2>6. until \in Nat /\ until <= (time + 1) + Window
    BY <1>2, NumbersAre DEF HostTyped
  <2> QED
    BY <1>1, <1>2, <2>1, <2>5, <2>6 DEF HostTyped, Stamps
<1>4. CounterSound'
  <2> SUFFICES ASSUME ~unbounded, counting # <<>> \/ time + 1 < until
               PROVE  \E began \in Nat : Counts(began)'
    BY <1>1 DEF CounterSound
  <2>1. counting # <<>> \/ time < until
    BY <1>2 DEF HostTyped
  <2>2. PICK began \in Nat : Counts(began)
    BY <1>2, <2>1 DEF CounterSound
  <2>3. began <= time + 1
    BY <1>2, <2>2 DEF Counts
  <2>4. Counts(began)'
    BY <1>1, <2>2, <2>3 DEF Counts, Count, Places
  <2> QED
    BY <2>4
<1>5. MemorySound' /\ RefusedForCause'
  BY <1>1, <1>2 DEF MemorySound, Count, Places, Owed, RefusedForCause
<1> QED
  BY <1>3, <1>4, <1>5 DEF HostInv

LEMMA LimitsInitInv == LimitsInit => LimitsInv
<1> SUFFICES ASSUME LimitsInit PROVE LimitsInv
  OBVIOUS
<1>1. Stamps(<<>>) /\ DOMAIN <<>> = {}
  BY DEF Stamps
<1>2. \A T : Count(<<>>, T) = 0
  <2>1. \A T : Places(<<>>, T) = {}
    BY DEF Places
  <2> QED
    BY <2>1, FS_EmptySet DEF Count
<1>3. SlidingInv
  <2>1. 0 - Window \in Int /\ (0 - Window) + Window <= 0 + Lag
    BY NumbersAre
  <2>2. Forgets(0 - Window)
    BY <1>1, <1>2, <2>1 DEF LimitsInit, Forgets
  <2>3. 0 <= 0 + Window
    BY NumbersAre
  <2>4. NeverOverLimit
    BY <1>1 DEF LimitsInit, NeverOverLimit
  <2> QED
    BY <1>1, <2>1, <2>2, <2>3, <2>4 DEF LimitsInit, SlidingInv
<1>4. HostInv
  <2>1. 0 <= 0 + Window /\ Len(<<>>) <= HostMax
    BY NumbersAre
  <2>2. HostTyped
    BY <1>1, <2>1 DEF LimitsInit, HostTyped
  <2>3. \A T : Owed(T) = 0
    BY DEF LimitsInit, Owed
  <2>4. MemorySound
    BY <1>2, <2>3 DEF LimitsInit, MemorySound
  <2>5. CounterSound /\ RefusedForCause
    BY DEF LimitsInit, CounterSound, RefusedForCause
  <2> QED
    BY <2>2, <2>4, <2>5 DEF HostInv
<1> QED
  BY <1>3, <1>4 DEF LimitsInit, LimitsInv

LEMMA LimitsNextInv == LimitsInv /\ [LimitsNext]_limitsVars => LimitsInv'
<1> SUFFICES ASSUME LimitsInv, [LimitsNext]_limitsVars PROVE LimitsInv'
  OBVIOUS
<1>1. time \in Nat /\ limiter' = limiter /\ (time' = time \/ time' = time + 1)
  BY DEF LimitsInv, LimitsNext, limitsVars, Knock, CheckLimit, CheckLimitFails, Incr, Pexpire, IncrFails,
         PexpireFails, Passes
<1>2. limiter' \in {"sliding", "host"} /\ time' \in Nat
  BY <1>1 DEF LimitsInv
<1>3. SlidingInv'
  <2>1. CASE CheckLimit
    BY <2>1, CheckLimitStep
  <2>2. CASE Knock
    BY <2>2, SlidingStays DEF Knock
  <2>3. CASE CheckLimitFails
    BY <2>3, SlidingStays DEF CheckLimitFails
  <2>4. CASE Incr \/ Pexpire \/ IncrFails \/ PexpireFails \/ UNCHANGED limitsVars
    <3>1. UNCHANGED <<hits, hitsUntil, admitted>> /\ asked' = asked /\ time' = time
      BY <2>4 DEF Incr, Pexpire, IncrFails, PexpireFails, limitsVars, slidingVars
    <3> QED
      BY <3>1, SlidingStays
  <2>5. CASE Passes
    BY <2>5, SlidingStays DEF Passes, slidingVars
  <2> QED
    BY <2>1, <2>2, <2>3, <2>4, <2>5 DEF LimitsNext
<1>4. HostInv'
  <2>1. CASE Knock
    BY <2>1, HostStays DEF Knock, Came
  <2>2. CASE CheckLimit \/ CheckLimitFails \/ UNCHANGED limitsVars
    <3>1. UNCHANGED hostVars /\ time' = time /\ knocks' = knocks
      BY <2>2 DEF CheckLimit, CheckLimitFails, limitsVars, hostVars
    <3> QED
      BY <3>1, HostStays
  <2> QED
    BY <2>1, <2>2, IncrStep, PexpireStep, IncrFailsStep, PexpireFailsStep, PassesStep DEF LimitsNext
<1> QED
  BY <1>2, <1>3, <1>4 DEF LimitsInv

LEMMA LimitsKeep == LimitsSpec => []LimitsInv
  BY LimitsInitInv, LimitsNextInv, PTL DEF LimitsSpec

\* Type correctness of the two limits: the stamps stay in order and in the past, and
\* the memory bucket within HOST_LIMIT_MAX (checkLimit, checkHostLimitMemory).
THEOREM LimitsTypeCorrect == LimitsSpec => []LimitsTypeOK
<1>1. ASSUME LimitsInv PROVE LimitsTypeOK
  <2>1. SlidingInv /\ HostTyped
    BY <1>1 DEF LimitsInv, HostInv
  <2>2. ASSUME NEW s, s \in {asked, hits, admitted, memory, knocks}
        PROVE  \A i, j \in DOMAIN s : i <= j => s[i] <= s[j] /\ s[j] <= time
    BY <2>1, <2>2 DEF SlidingInv, HostTyped, Stamps
  <2>3. Len(counting) <= 1
    <3>1. counting = <<>> \/ \E t \in Nat : counting = <<t>>
      BY <2>1 DEF HostTyped
    <3>2. CASE counting = <<>>
      BY <3>2
    <3>3. ASSUME NEW t \in Nat, counting = <<t>> PROVE Len(counting) <= 1
      <4>1. Len(<<t>>) = 1
        OBVIOUS
      <4> QED
        BY <3>3, <4>1
    <3> QED
      BY <3>1, <3>2, <3>3
  <2> QED
    BY <1>1, <2>1, <2>2, <2>3 DEF LimitsTypeOK, SlidingInv, HostTyped, LimitsInv
<1> QED
  BY <1>1, LimitsKeep, PTL

\* For every window, limit and lateness: the sliding window never lets more requests
\* through than the limit, and a host is refused only for too many of them or for a
\* counter that lost its expiry (checkLimit, checkHostLimitRedis, checkHostLimitMemory).
THEOREM LimitsHold == LimitsSpec => []LimitsKept
<1>1. LimitsInv => LimitsKept
  BY DEF LimitsInv, SlidingInv, HostInv, LimitsKept
<1> QED
  BY <1>1, LimitsKeep, PTL

-----------------------------------------------------------------------------
(***************************************************************************)
(* RulesEngine.                                                            *)
(***************************************************************************)
Checks == [monitor : Monitors, code : {0, 200, 500}, success : BOOLEAN]

RulesInv ==
    /\ RulesTypeOK
    /\ checks \in Seq(Checks)
    /\ \A i \in 1..Len(checks) : checks[i].code = 500 => ~checks[i].success

\* The checks that an insert keeps.
LEMMA NewestIs ==
    ASSUME checks \in Seq(Checks), NEW n \in Nat
    PROVE  /\ Newest(n) \in Seq(Checks)
           /\ Len(Newest(n)) = IF Len(checks) < n THEN Len(checks) ELSE n
           /\ \A i \in 1..Len(Newest(n)) : i \in 1..Len(checks) /\ Newest(n)[i] = checks[i]
<1> DEFINE k == IF Len(checks) < n THEN Len(checks) ELSE n
<1>1. k \in Nat /\ k <= Len(checks) /\ Newest(n) = SubSeq(checks, 1, k) /\ Len(checks) \in Nat
  BY DEF Newest
<1> HIDE DEF k
<1>2. \A i \in 1..k : i \in 1..Len(checks) /\ checks[i] \in Checks
  BY <1>1
<1>3. SubSeq(checks, 1, k) = [i \in 1..k |-> checks[i]]
  BY <1>1, <1>2
<1>4. Newest(n) \in [1..k -> Checks]
  BY <1>1, <1>2, <1>3
<1>5. Newest(n) \in Seq(Checks)
  BY <1>1, <1>4, SeqDef
<1>6. Len(Newest(n)) = k
  BY <1>1, <1>4
<1>7. \A i \in 1..k : Newest(n)[i] = checks[i]
  BY <1>1, <1>3
<1> QED
  BY <1>2, <1>5, <1>6, <1>7 DEF k

LEMMA RulesInitInv == RulesInit => RulesInv
<1> SUFFICES ASSUME RulesInit PROVE RulesInv
  OBVIOUS
<1>1. checks = <<>> /\ windows = {} /\ Len(checks) = 0
  BY DEF RulesInit
<1> QED
  BY <1>1, RulesAssumption DEF RulesInv, RulesTypeOK, RulesAssumption

\* One more in front moves the others back by one.
LEMMA Prepended ==
    ASSUME NEW S, NEW c \in S, NEW r \in Seq(S), NEW s, s = <<c>> \o r
    PROVE  /\ s \in Seq(S) /\ Len(s) = Len(r) + 1 /\ s[1] = c
           /\ \A i \in 2..Len(s) : i - 1 \in 1..Len(r) /\ s[i] = r[i - 1]
<1>1. <<c>> \in Seq(S) /\ Len(<<c>>) = 1 /\ <<c>>[1] = c /\ Len(r) \in Nat
  OBVIOUS
<1>2. s \in Seq(S) /\ Len(s) = Len(r) + 1
  BY <1>1
<1>3. s[1] = c
  BY <1>1
<1>4. \A i \in 2..Len(s) : i - 1 \in 1..Len(r) /\ s[i] = r[i - 1]
  BY <1>1
<1> QED
  BY <1>2, <1>3, <1>4

LEMMA InsertStep ==
    ASSUME RulesInv, NEW m \in Monitors, InsertCheckOf(m)
    PROVE  RulesInv'
<1>1. PICK c \in Checks :
        /\ c.code = 500 => ~c.success
        /\ checks' = <<c>> \o Newest(MaxChecks - 1)
        /\ UNCHANGED windows
  <2>1. PICK code \in {0, 200, 500}, success \in BOOLEAN :
          /\ IF m \in Http THEN code # 200 => ~success ELSE code = 0
          /\ checks' = <<[monitor |-> m, code |-> code, success |-> success]>> \o Newest(MaxChecks - 1)
          /\ UNCHANGED windows
    BY DEF InsertCheckOf
  <2> DEFINE d == [monitor |-> m, code |-> code, success |-> success]
  <2>2. d \in Checks /\ (d.code = 500 => ~d.success)
    BY <2>1 DEF Checks
  <2>3. checks' = <<d>> \o Newest(MaxChecks - 1)
    BY <2>1
  <2> HIDE DEF d
  <2> QED
    BY <2>1, <2>2, <2>3
<1>2. MaxChecks \in Nat /\ MaxChecks - 1 \in Nat
  BY RulesAssumption DEF RulesAssumption
<1>3. /\ checks \in Seq(Checks) /\ windows \subseteq SUBSET Monitors
      /\ \A i \in 1..Len(checks) : checks[i].code = 500 => ~checks[i].success
  BY DEF RulesInv, RulesTypeOK
<1> PICK r : r = Newest(MaxChecks - 1)
  OBVIOUS
<1> PICK s : s = checks'
  OBVIOUS
<1>4. /\ s \in Seq(Checks) /\ Len(s) \in Nat /\ Len(s) <= MaxChecks /\ s[1] = c
      /\ \A i \in 2..Len(s) : i - 1 \in 1..Len(checks) /\ s[i] = checks[i - 1]
  <2>1. /\ r \in Seq(Checks)
        /\ Len(r) = IF Len(checks) < MaxChecks - 1 THEN Len(checks) ELSE MaxChecks - 1
        /\ \A i \in 1..Len(r) : i \in 1..Len(checks) /\ r[i] = checks[i]
    BY <1>2, <1>3, NewestIs
  <2>2. /\ s \in Seq(Checks) /\ Len(s) = Len(r) + 1 /\ s[1] = c
        /\ \A i \in 2..Len(s) : i - 1 \in 1..Len(r) /\ s[i] = r[i - 1]
    <3>1. s = <<c>> \o r
      BY <1>1
    <3>2. r \in Seq(Checks)
      BY <2>1
    <3> QED
      BY <3>1, <3>2, Prepended
  <2>3. Len(checks) \in Nat /\ Len(r) \in Nat /\ Len(s) \in Nat
    BY <1>3, <2>1, <2>2
  <2>4. Len(s) <= MaxChecks
    <3>1. Len(r) <= MaxChecks - 1
      BY <1>2, <2>1, <2>3
    <3>2. Len(s) = Len(r) + 1
      BY <2>2
    <3> QED
      BY <1>2, <2>3, <3>1, <3>2
  <2>5. ASSUME NEW i \in 2..Len(s) PROVE i - 1 \in 1..Len(checks) /\ s[i] = checks[i - 1]
    <3>1. i - 1 \in 1..Len(r) /\ s[i] = r[i - 1]
      BY <2>2
    <3> QED
      BY <2>1, <3>1
  <2> QED
    BY <2>2, <2>3, <2>4, <2>5
<1>5. MaxChecks \in Nat /\ Len(s) \in Nat
  BY <1>4, RulesAssumption DEF RulesAssumption
<1>6. RulesTypeOK'
  <2>1. \A i \in DOMAIN s : s[i].monitor \in Monitors
    <3> TAKE i \in DOMAIN s
    <3>1. s[i] \in Checks
      BY <1>4
    <3> QED
      BY <3>1 DEF Checks
  <2>2. Len(s) <= MaxChecks
    BY <1>4, <1>5
  <2> QED
    BY <1>1, <1>3, <2>1, <2>2 DEF RulesTypeOK
<1>7. \A i \in 1..Len(s) : s[i].code = 500 => ~s[i].success
  <2> TAKE i \in 1..Len(s)
  <2>1. CASE i = 1
    BY <1>1, <1>4, <2>1
  <2>2. CASE i # 1
    <3>1. i \in 2..Len(s)
      BY <1>5, <2>2
    <3> QED
      BY <1>3, <1>4, <3>1
  <2> QED
    BY <2>1, <2>2
<1> QED
  BY <1>4, <1>6, <1>7 DEF RulesInv

LEMMA RulesStep == RulesInv /\ [RulesNext]_rulesVars => RulesInv'
<1> SUFFICES ASSUME RulesInv, [RulesNext]_rulesVars PROVE RulesInv'
  OBVIOUS
<1>1. CASE UNCHANGED checks /\ windows' \subseteq SUBSET Monitors
  BY <1>1 DEF RulesInv, RulesTypeOK
<1>2. CASE UNCHANGED rulesVars
  BY <1>1, <1>2 DEF rulesVars, RulesInv, RulesTypeOK
<1>3. ASSUME NEW ms \in SUBSET Monitors, OpenWindow(ms) \/ CloseWindow(ms) PROVE RulesInv'
  <2>1. UNCHANGED checks /\ windows' \subseteq SUBSET Monitors
    BY <1>3 DEF OpenWindow, CloseWindow, RulesInv, RulesTypeOK
  <2> QED
    BY <1>1, <2>1
<1> QED
  BY <1>2, <1>3, InsertStep DEF RulesNext

\* The checks kept and the windows are well-formed.
THEOREM RulesTypeCorrect == RulesSpec => []RulesTypeOK
<1>1. RulesInv => RulesTypeOK
  BY DEF RulesInv
<1> QED
  BY <1>1, RulesInitInv, RulesStep, PTL DEF RulesSpec

\* The k smallest of a set of numbers.
LEMMA FirstOf ==
    ASSUME NEW S, S \subseteq Nat, IsFiniteSet(S), NEW n \in Nat, n <= Cardinality(S)
    PROVE  \E T \in SUBSET S : Cardinality(T) = n /\ \A x \in T, y \in S \ T : x < y
<1> DEFINE Has(k) == \E T \in SUBSET S : Cardinality(T) = k /\ \A x \in T, y \in S \ T : x < y
           None == {k \in 0..n : ~Has(k)}
<1>1. SUFFICES ASSUME None # {} PROVE FALSE
  OBVIOUS
<1>2. PICK k \in None : \A j \in None : k <= j
  <2>1. None \subseteq Nat
    OBVIOUS
  <2> HIDE DEF None
  <2> QED
    BY <1>1, <2>1, SmallestOf
<1>3. k \in 0..n /\ k \in Nat /\ ~Has(k)
  BY <1>2
<1>4. Has(0)
  BY FS_EmptySet
<1>5. k # 0
  BY <1>3, <1>4
<1>6. k - 1 \in 0..n /\ ~(k <= k - 1) /\ k - 1 \in Nat
  BY <1>3, <1>5
<1>7. Has(k - 1)
  <2>1. k - 1 \notin None
    <3> HIDE DEF None
    <3> QED
      BY <1>2, <1>6
  <2> QED
    BY <1>6, <2>1
<1>8. PICK T \in SUBSET S : Cardinality(T) = k - 1 /\ \A x \in T, y \in S \ T : x < y
  BY <1>7
<1>9. S \ T # {}
  <2>1. Cardinality(S) \in Nat
    BY FS_CardinalityType
  <2>2. Cardinality(T) < Cardinality(S)
    BY <1>3, <1>6, <1>8, <2>1
  <2>3. S \ T = {} => T = S
    BY <1>8
  <2> QED
    BY <1>6, <1>8, <2>1, <2>2, <2>3
<1>10. PICK y \in S \ T : \A z \in S \ T : y <= z
  <2>1. S \ T \subseteq Nat
    OBVIOUS
  <2> QED
    BY <1>9, <2>1, SmallestOf
<1>11. Cardinality(T \cup {y}) = k
  <2>1. IsFiniteSet(T)
    BY <1>8, FS_Subset
  <2>2. Cardinality(T \cup {y}) = Cardinality(T) + 1
    BY <1>10, <2>1, FS_AddElement
  <2> QED
    BY <1>3, <1>8, <2>2
<1>12. ASSUME NEW x \in T \cup {y}, NEW z \in S \ (T \cup {y}) PROVE x < z
  <2>1. CASE x \in T
    BY <1>8, <2>1
  <2>2. CASE x = y
    <3>1. z \in S \ T /\ z # y /\ z \in Nat /\ y \in Nat
      BY <1>10, <1>12
    <3> QED
      BY <1>10, <2>2, <3>1
  <2> QED
    BY <2>1, <2>2
<1>13. Has(k)
  <2>1. T \cup {y} \in SUBSET S
    BY <1>8, <1>10
  <2> QED
    BY <1>11, <1>12, <2>1
<1> QED
  BY <1>3, <1>13

\* A rule of one kind counts as failed what the other takes for down.
LEMMA FailureIs ==
    ASSUME RulesInv, NEW i \in 1..Len(checks)
    PROVE  Failure(checks[i]) <=> ~checks[i].success /\ checks[i].code # 200
<1>1. checks[i] \in Checks /\ (checks[i].code = 500 => ~checks[i].success)
  BY DEF RulesInv
<1> PICK c : c = checks[i]
  OBVIOUS
<1>2. c.code \in {0, 200, 500} /\ c.success \in BOOLEAN /\ (c.code = 500 => ~c.success)
  BY <1>1 DEF Checks
<1>3. CASE c.code = 0
  BY <1>3 DEF Failure
<1>4. CASE c.code = 200
  BY <1>4 DEF Failure
<1>5. CASE c.code = 500
  BY <1>2, <1>5 DEF Failure
<1> QED
  BY <1>2, <1>3, <1>4, <1>5

\* A monitor's checks are numbered from the newest; a check's place among all is its
\* number and the checks of others before it.
LEMMA PlaceIs ==
    ASSUME RulesInv, NEW m \in Monitors
    PROVE  /\ IsFiniteSet(Own(m, checks)) /\ Own(m, checks) \subseteq 1..Len(checks)
           /\ Cardinality(Own(m, checks)) \in Nat
           /\ \A i \in Own(m, checks) :
                /\ IsFiniteSet({j \in Own(m, checks) : j <= i}) /\ Rank(m, i) \in Nat
                /\ Cardinality({j \in 1..i : checks[j].monitor # m}) \in Nat
                /\ i = Rank(m, i) + Cardinality({j \in 1..i : checks[j].monitor # m})
<1> DEFINE own == Own(m, checks)
<1>1. checks \in Seq(Checks) /\ Len(checks) \in Nat /\ DOMAIN checks = 1..Len(checks)
  BY DEF RulesInv
<1>2. \A n \in Nat : IsFiniteSet(1..n) /\ Cardinality(1..n) = n
  <2> TAKE n \in Nat
  <2>1. 1 \in Int /\ n \in Int /\ (1 > n => n = 0) /\ n - 1 + 1 = n
    OBVIOUS
  <2>2. IsFiniteSet(1..n) /\ Cardinality(1..n) = IF 1 > n THEN 0 ELSE n - 1 + 1
    BY <2>1, FS_Interval
  <2> QED
    BY <2>1, <2>2
<1>3. own \subseteq 1..Len(checks) /\ \A i \in 1..Len(checks) : i \in own <=> checks[i].monitor = m
  BY <1>1 DEF Own
<1> HIDE DEF own
<1>4. IsFiniteSet(own) /\ Cardinality(own) \in Nat
  BY <1>1, <1>2, <1>3, FS_Subset, FS_CardinalityType
<1>5. ASSUME NEW i \in own
      PROVE  /\ IsFiniteSet({j \in own : j <= i}) /\ Rank(m, i) \in Nat
             /\ Cardinality({j \in 1..i : checks[j].monitor # m}) \in Nat
             /\ i = Rank(m, i) + Cardinality({j \in 1..i : checks[j].monitor # m})
  <2> DEFINE upto == {j \in own : j <= i}
             others == {j \in 1..i : checks[j].monitor # m}
  <2>1. i \in Nat /\ i \in 1..Len(checks)
    BY <1>1, <1>3
  <2>2. upto \cup others = 1..i
    <3>1. ASSUME NEW j \in 1..i PROVE j \in upto \/ j \in others
      BY <1>1, <1>3, <2>1, <3>1
    <3>2. \A j \in own : j <= i => j \in 1..i
      BY <1>1, <1>3, <2>1
    <3> QED
      BY <3>1, <3>2
  <2>3. upto \cap others = {}
    BY <1>3
  <2>4. Rank(m, i) = Cardinality(upto)
    BY DEF Rank, own
  <2> HIDE DEF upto, others
  <2>5. IsFiniteSet(upto) /\ IsFiniteSet(others)
    BY <1>2, <2>1, <2>2, FS_Subset
  <2>6. Cardinality(upto \cup others) = Cardinality(upto) + Cardinality(others) - Cardinality(upto \cap others)
    BY <2>5, FS_Union
  <2>7. Cardinality(upto) \in Nat /\ Cardinality(others) \in Nat /\ Cardinality({}) = 0
    BY <2>5, FS_CardinalityType, FS_EmptySet
  <2>8. i = Cardinality(upto) + Cardinality(others)
    <3>1. Cardinality(1..i) = i
      BY <1>2, <2>1
    <3>2. Cardinality(upto \cup others) = i /\ Cardinality(upto \cap others) = 0
      BY <2>2, <2>3, <2>7, <3>1
    <3> QED
      BY <2>1, <2>6, <2>7, <3>2
  <2> QED
    BY <2>4, <2>5, <2>7, <2>8 DEF upto, others
<1> QED
  BY <1>3, <1>4, <1>5 DEF own

\* Of two checks of a monitor the older has the higher number.
LEMMA RankGrows ==
    ASSUME RulesInv, NEW m \in Monitors, NEW i \in Own(m, checks), NEW k \in Own(m, checks), i < k
    PROVE  Rank(m, i) < Rank(m, k)
<1> DEFINE A == {j \in Own(m, checks) : j <= i}
           B == {j \in Own(m, checks) : j <= k}
<1>1. i \in Nat /\ k \in Nat /\ \A j \in Own(m, checks) : j \in Nat
  <2>1. Own(m, checks) \subseteq 1..Len(checks) /\ Len(checks) \in Nat
    BY PlaceIs DEF RulesInv
  <2> QED
    BY <2>1
<1>2. A \subseteq B /\ k \in B /\ k \notin A
  <2>1. \A j \in Own(m, checks) : j <= i => j <= k
    BY <1>1
  <2>2. k <= k /\ ~(k <= i)
    BY <1>1
  <2> QED
    BY <2>1, <2>2
<1>3. IsFiniteSet(B) /\ Rank(m, i) \in Nat /\ Rank(m, k) \in Nat
  BY PlaceIs
<1>4. Rank(m, i) = Cardinality(A) /\ Rank(m, k) = Cardinality(B)
  BY DEF Rank
<1> HIDE DEF A, B
<1>5. Cardinality(A) <= Cardinality(B) /\ (Cardinality(B) = Cardinality(A) => A = B)
  BY <1>2, <1>3, FS_Subset
<1> QED
  BY <1>2, <1>3, <1>4, <1>5

LEMMA FirstOwn ==
    ASSUME NEW m, NEW n \in Nat, n <= Cardinality(Own(m, checks)), Own(m, checks) \subseteq Nat,
           IsFiniteSet(Own(m, checks))
    PROVE  \E T \in SUBSET Own(m, checks) :
               Cardinality(T) = n /\ \A x \in T, y \in Own(m, checks) \ T : x < y
  BY FirstOf

\* Who has a number of checks has one of that number.
LEMMA NthIs ==
    ASSUME RulesInv, NEW m \in Monitors, Cardinality(Own(m, checks)) >= Failures
    PROVE  \E i \in Own(m, checks) : Rank(m, i) = Failures
<1> DEFINE own == Own(m, checks)
<1>1. Failures \in Nat /\ Failures # 0 /\ Failures - 1 \in Nat
  BY RulesAssumption DEF RulesAssumption
<1>2. IsFiniteSet(own) /\ own \subseteq Nat /\ Cardinality(own) \in Nat
  <2>1. IsFiniteSet(own) /\ own \subseteq 1..Len(checks) /\ Cardinality(own) \in Nat
    BY PlaceIs
  <2> QED
    BY <2>1
<1>3. PICK T \in SUBSET own : Cardinality(T) = Failures - 1 /\ \A x \in T, y \in own \ T : x < y
  <2>1. Failures - 1 <= Cardinality(own)
    BY <1>1, <1>2
  <2> QED
    BY <1>1, <1>2, <2>1, FirstOwn
<1>4. own \ T # {}
  <2>1. Cardinality(T) # Cardinality(own)
    BY <1>1, <1>2, <1>3
  <2> QED
    BY <1>3, <2>1
<1>5. PICK y \in own \ T : \A z \in own \ T : y <= z
  <2>1. own \ T \subseteq Nat
    BY <1>2
  <2> HIDE DEF own
  <2> QED
    BY <1>4, <2>1, SmallestOf
<1>6. {j \in own : j <= y} = T \cup {y}
  <2>1. ASSUME NEW j \in own, j <= y PROVE j \in T \cup {y}
    BY <1>2, <1>5, <2>1
  <2>2. \A x \in T : x \in own /\ x <= y
    BY <1>2, <1>3, <1>5
  <2>3. y <= y
    BY <1>2, <1>5
  <2> HIDE DEF own
  <2> QED
    BY <1>5, <2>1, <2>2, <2>3
<1>7. Cardinality(T \cup {y}) = Failures
  <2>1. IsFiniteSet(T)
    BY <1>2, <1>3, FS_Subset
  <2>2. Cardinality(T \cup {y}) = Cardinality(T) + 1
    BY <1>5, <2>1, FS_AddElement
  <2> QED
    BY <1>1, <1>3, <2>2
<1>8. Rank(m, y) = Failures
  BY <1>6, <1>7 DEF Rank
<1> QED
  BY <1>5, <1>8

\* The evaluator's count of a monitor reaches Failures exactly if it is down and not
\* outpaced.
LEMMA SeesDown ==
    ASSUME RulesInv, NEW m \in Monitors
    PROVE  Consecutive(m) \in Nat /\ (Consecutive(m) >= Failures <=> Down(m) /\ ~Outpaced(m))
<1> DEFINE own == Own(m, checks)
           recent == Own(m, Recent)
           bad == {i \in recent : \A j \in recent : j <= i => Failure(Recent[j])}
           read == Failures * PerFailure
           others(i) == Cardinality({j \in 1..i : checks[j].monitor # m})
<1>1. checks \in Seq(Checks) /\ Len(checks) \in Nat /\ DOMAIN checks = 1..Len(checks)
  BY DEF RulesInv
<1>2. /\ Failures \in Nat /\ Failures # 0 /\ PerFailure \in Nat /\ read \in Nat
      /\ Failures * (PerFailure - 1) = read - Failures
  BY RulesAssumption DEF RulesAssumption
<1>3. /\ Recent \in Seq(Checks) /\ Len(Recent) \in Nat /\ DOMAIN Recent = 1..Len(Recent)
      /\ Len(Recent) = IF Len(checks) < read THEN Len(checks) ELSE read
      /\ \A i \in 1..Len(Recent) : i \in 1..Len(checks) /\ Recent[i] = checks[i]
  <2> PICK n : n = read
    OBVIOUS
  <2>1. /\ Newest(n) \in Seq(Checks)
        /\ Len(Newest(n)) = IF Len(checks) < n THEN Len(checks) ELSE n
        /\ \A i \in 1..Len(Newest(n)) : i \in 1..Len(checks) /\ Newest(n)[i] = checks[i]
    BY <1>1, <1>2, NewestIs
  <2>2. Recent = Newest(n)
    BY DEF Recent
  <2> QED
    BY <2>1, <2>2
<1> HIDE DEF read
<1>4. \A i : i \in recent <=> i \in own /\ i \in 1..Len(Recent)
  BY <1>1, <1>3 DEF Own
<1>5. own \subseteq 1..Len(checks) /\ own \subseteq Nat /\ IsFiniteSet(own) /\ Cardinality(own) \in Nat
  <2>1. own \subseteq 1..Len(checks) /\ IsFiniteSet(own) /\ Cardinality(own) \in Nat
    BY PlaceIs
  <2> QED
    BY <2>1
<1>6. \A i \in own : Failure(checks[i]) <=> ~checks[i].success /\ checks[i].code # 200
  BY <1>5, FailureIs
<1>7. /\ \A i \in own : Rank(m, i) \in Nat /\ others(i) \in Nat /\ i = Rank(m, i) + others(i)
      /\ \A i, k \in own : i < k => Rank(m, i) < Rank(m, k)
  BY PlaceIs, RankGrows
<1>8. Consecutive(m) = Cardinality(bad)
  BY DEF Consecutive
<1>9. /\ Down(m) <=> /\ Cardinality(own) >= Failures
                     /\ \A i \in own : Rank(m, i) <= Failures => ~checks[i].success /\ checks[i].code # 200
      /\ Outpaced(m) <=> \E i \in own : Rank(m, i) = Failures /\ others(i) > read - Failures
  BY <1>2 DEF Down, Outpaced
<1>10. \A i \in bad : i \in recent /\ \A j \in recent : j <= i => Failure(checks[j])
  BY <1>3, <1>4
<1>11. \A i \in recent : (\A j \in recent : j <= i => Failure(checks[j])) => i \in bad
  BY <1>3, <1>4
<1>12. \A i \in own : Rank(m, i) = Cardinality({j \in own : j <= i}) /\ IsFiniteSet({j \in own : j <= i})
  BY PlaceIs DEF Rank
<1> HIDE DEF own, recent, bad, others
<1>13. bad \subseteq own /\ IsFiniteSet(bad)
  BY <1>4, <1>5, <1>10, FS_Subset
<1>14. Cardinality(bad) \in Nat /\ Cardinality(bad) <= Cardinality(own)
  BY <1>5, <1>13, FS_CardinalityType, FS_Subset
<1>15. ASSUME Down(m), ~Outpaced(m) PROVE Cardinality(bad) >= Failures
  <2>1. PICK n \in own : Rank(m, n) = Failures
    BY <1>9, <1>15, NthIs DEF own
  <2>2. n <= read /\ n \in 1..Len(Recent)
    <3>1. others(n) <= read - Failures
      BY <1>2, <1>7, <1>9, <1>15, <2>1
    <3>2. n \in 1..Len(checks) /\ n <= read
      BY <1>2, <1>5, <1>7, <2>1, <3>1
    <3> QED
      BY <1>1, <1>2, <1>3, <3>2
  <2>3. ASSUME NEW i \in own, i <= n PROVE i \in bad
    <3>1. \A j \in own : j <= n => j \in recent /\ Failure(checks[j])
      <4> TAKE j \in own
      <4> HAVE j <= n
      <4>1. j \in 1..Len(Recent)
        BY <1>1, <1>3, <1>5, <2>2
      <4>2. Rank(m, j) <= Failures
        BY <1>5, <1>7, <2>1
      <4> QED
        BY <1>4, <1>6, <1>9, <1>15, <4>1, <4>2
    <3>2. ASSUME NEW j \in recent, j <= i PROVE Failure(checks[j])
      <4>1. j \in own /\ j <= n
        BY <1>4, <1>5, <2>3, <3>2
      <4> QED
        BY <3>1, <4>1
    <3> QED
      BY <1>11, <2>3, <3>1, <3>2
  <2>4. {j \in own : j <= n} \subseteq bad
    BY <2>3
  <2>5. Cardinality({j \in own : j <= n}) <= Cardinality(bad)
    BY <1>13, <2>4, FS_Subset
  <2> QED
    BY <1>12, <1>14, <2>1, <2>5
<1>16. ASSUME Cardinality(bad) >= Failures PROVE Down(m) /\ ~Outpaced(m)
  <2>1. Cardinality(own) >= Failures
    BY <1>2, <1>5, <1>14, <1>16
  <2>2. ASSUME NEW i \in own, Rank(m, i) <= Failures, i \notin bad PROVE FALSE
    <3> DEFINE upto == {j \in own : j <= i}
    <3>1. bad \subseteq upto \ {i}
      <4> SUFFICES ASSUME NEW j \in bad PROVE j \in own /\ j <= i /\ j # i
        OBVIOUS
      <4>1. j \in own /\ j \in recent /\ i \in Nat /\ j \in Nat /\ i >= 1
        BY <1>5, <1>10, <1>13
      <4>2. ~(i <= j)
        <5> SUFFICES ASSUME i <= j PROVE FALSE
          OBVIOUS
        <5>1. i \in recent
          BY <1>3, <1>4, <2>2, <4>1
        <5>2. \A k \in recent : k <= i => Failure(checks[k])
          <6> TAKE k \in recent
          <6> HAVE k <= i
          <6>1. k \in Nat /\ k <= j
            BY <1>4, <1>5, <4>1
          <6> QED
            BY <1>10, <6>1
        <5> QED
          BY <1>11, <2>2, <5>1, <5>2
      <4> QED
        BY <4>1, <4>2
    <3>2. i \in upto /\ IsFiniteSet(upto) /\ Rank(m, i) = Cardinality(upto)
      BY <1>5, <1>12, <2>2
    <3> HIDE DEF upto
    <3>3. Cardinality(upto \ {i}) = Cardinality(upto) - 1 /\ IsFiniteSet(upto \ {i})
      BY <3>2, FS_RemoveElement
    <3>4. Cardinality(bad) <= Cardinality(upto \ {i})
      BY <3>1, <3>3, FS_Subset
    <3> QED
      BY <1>2, <1>7, <1>14, <1>16, <2>2, <3>2, <3>3, <3>4
  <2>3. Down(m)
    <3> SUFFICES ASSUME NEW i \in own, Rank(m, i) <= Failures PROVE Failure(checks[i])
      BY <1>6, <1>9, <2>1
    <3>1. i \in bad /\ i <= i
      BY <1>5, <2>2
    <3> QED
      BY <1>10, <3>1
  <2>4. ~Outpaced(m)
    <3> SUFFICES ASSUME NEW i \in own, Rank(m, i) = Failures, others(i) > read - Failures PROVE FALSE
      BY <1>9
    <3>1. i \in bad
      BY <1>2, <2>2
    <3>2. i \in 1..Len(Recent)
      BY <1>4, <1>10, <3>1
    <3>3. i <= read
      BY <1>1, <1>2, <1>3, <3>2
    <3> QED
      BY <1>2, <1>5, <1>7, <3>3
  <2> QED
    BY <2>3, <2>4
<1> QED
  BY <1>8, <1>14, <1>15, <1>16

\* The greatest of the counts.
LEMMA WorstIs ==
    ASSUME \A m \in Monitors : Consecutive(m) \in Nat, NEW n \in Nat \ {0}
    PROVE  WorstConsecutive >= n <=> \E m \in Monitors : Consecutive(m) >= n
<1> DEFINE S == {0} \cup {Consecutive(m) : m \in Monitors}
<1>1. S \subseteq Nat /\ 0 \in S
  OBVIOUS
<1>2. IsFiniteSet(S)
  <2> DEFINE counts == {Consecutive(m) : m \in Monitors}
             f == [m \in Monitors |-> Consecutive(m)]
  <2>1. f \in Surjection(Monitors, counts)
    BY DEF Surjection
  <2>2. IsFiniteSet(counts)
    <3> HIDE DEF f, counts
    <3> QED
      BY <2>1, RulesAssumption, FS_Surjection DEF RulesAssumption
  <2>3. S = counts \cup {0}
    OBVIOUS
  <2> HIDE DEF counts
  <2> QED
    BY <2>2, <2>3, FS_AddElement
<1>3. WorstConsecutive \in S /\ \A y \in S : WorstConsecutive >= y
  <2>1. WorstConsecutive = Max(S)
    BY DEF WorstConsecutive
  <2> HIDE DEF S
  <2> PICK c : c = Cardinality(S)
    OBVIOUS
  <2>2. c \in Nat /\ c - 1 \in Nat /\ c - 1 <= c /\ c - (c - 1) = 1
    <3>1. c \in Nat /\ c # 0
      BY <1>1, <1>2, FS_CardinalityType, FS_EmptySet
    <3> QED
      BY <3>1
  <2>3. PICK T \in SUBSET S : Cardinality(T) = c - 1 /\ \A x \in T, y \in S \ T : x < y
    BY <1>1, <1>2, <2>2, FirstOf
  <2>4. IsFiniteSet(S \ T) /\ Cardinality(S \ T) = 1
    <3>1. S \cap T = T
      BY <2>3
    <3>2. IsFiniteSet(S \ T) /\ Cardinality(S \ T) = Cardinality(S) - Cardinality(S \cap T)
      BY <1>2, FS_Difference
    <3> QED
      BY <2>2, <2>3, <3>1, <3>2
  <2>5. PICK y : S \ T = {y}
    BY <2>4, FS_Singleton
  <2>6. y \in S /\ \A x \in S : y >= x
    <3>1. y \in S /\ y \in Nat
      BY <1>1, <2>5
    <3>2. ASSUME NEW x \in S PROVE y >= x
      <4>1. x \in Nat /\ (x = y \/ x < y)
        BY <1>1, <2>3, <2>5
      <4> QED
        BY <3>1, <4>1
    <3> QED
      BY <3>1, <3>2
  <2> QED
    BY <2>1, <2>6 DEF Max
<1> QED
  BY <1>1, <1>3

\* For every number of monitors, failures and checks, in whatever order the checks come:
\* an uptime_down rule fires exactly if no window is open and some monitor is down that
\* the others do not outpace (evaluateUptimeDown).
THEOREM OutagesAreSeen == RulesSpec => []DownIsSeen
<1>1. ASSUME RulesInv PROVE DownIsSeen
  <2>1. \A m \in Monitors : Consecutive(m) \in Nat /\ (Consecutive(m) >= Failures <=> Down(m) /\ ~Outpaced(m))
    BY <1>1, SeesDown
  <2>2. WorstConsecutive >= Failures <=> \E m \in Monitors : Down(m) /\ ~Outpaced(m)
    BY <2>1, WorstIs, RulesAssumption DEF RulesAssumption
  <2>3. EvaluateUptimeDown("gte") <=> WorstConsecutive >= Failures
    BY DEF EvaluateUptimeDown, Compare
  <2>4. IsInMaintenanceWindow({}) <=> windows # {}
    BY DEF IsInMaintenanceWindow
  <2> QED
    BY <2>2, <2>3, <2>4 DEF EvaluateRules, DownIsSeen
<1> QED
  BY <1>1, RulesInitInv, RulesStep, PTL DEF RulesSpec
=============================================================================
