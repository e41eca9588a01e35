----------------------------- MODULE LogsProofs -----------------------------
(***************************************************************************)
(* Proofs about the parts that MCLogs runs: the checks of a monitor on the *)
(* wire (Probes), the live logs (LiveLogs), the log worker (LogWorker) and *)
(* the streamer's intake (LogIntake), for any number of redirects,         *)
(* connections, channels, subscriptions, containers, lines, insert slots,  *)
(* frames and bytes; and about the retention worker (Retention).           *)
(***************************************************************************)
EXTENDS MCLogs, FiniteSetTheorems, FunctionTheorems, SequenceTheorems, TLAPS

-----------------------------------------------------------------------------
(***************************************************************************)
(* Probes.                                                                 *)
(***************************************************************************)
\* A port that was not tried yet has no socket, a race is one of TCP or ping, and
\* the socket of the race under way is not one that came too late.
InItsRace ==
    /\ probe \in {"none", "tcp", "ping", "http", "dns", "grpc"}
    /\ \A p \in 1..2 : p > tried => socket[p] = "none"
    /\ at \in {"start", "guard"} \/ probe = "http" => tried = 0
    /\ at = "connect" => probe \in {"tcp", "ping"}
    /\ \A p \in tardy : ~Racing(p)

ProbesInv == ProbesTypeOK /\ InItsRace /\ NoStraySocket

LEMMA ProbesInitInv == ProbesInit => ProbesInv
<1> SUFFICES ASSUME ProbesInit PROVE ProbesInv
  OBVIOUS
<1>1. 0 \notin Ports
  BY DEF Ports
<1>2. ProbesTypeOK
  <2>1. socket \in [1..2 -> {"none", "pending", "open", "failed", "ended"}]
    BY DEF ProbesInit
  <2>2. hops \in 0..MaxRedirects /\ tried \in 0..2
    BY ProbesAssumption DEF ProbesInit, ProbesAssumption
  <2>3. at = "connect" <=> tried \in Ports /\ verdict = "none"
    BY <1>1 DEF ProbesInit
  <2> QED
    BY <2>1, <2>2, <2>3 DEF ProbesInit, ProbesTypeOK
<1> QED
  BY <1>2 DEF ProbesInit, ProbesInv, InItsRace, NoStraySocket

\* What a check does without a race leaves sockets and ports alone.
LEMMA NoRaceStep ==
    ASSUME ProbesInv, UNCHANGED <<probe, tried, socket, tardy>>, at \notin {"connect", "done"},
           at' \in {"guard", "fetch", "cert", "body", "resolve", "done"},
           at' = "guard" => tried = 0,
           timer' \in {"off", "on", "fired"}, hops' \in 0..MaxRedirects, good' \in BOOLEAN,
           verdict' \in {"none", "up", "down"}, verdict' # "none" <=> at' = "done"
    PROVE  ProbesInv'
  BY DEF ProbesInv, ProbesTypeOK, InItsRace, NoStraySocket, Racing, Ports

\* The first connect of a check.
LEMMA ConnectStep ==
    ASSUME ProbesInv, at \in {"start", "guard"}, probe \in {"tcp", "ping"}, Connect(1),
           UNCHANGED <<probe, hops, good, tardy>>
    PROVE  ProbesInv'
<1> USE DEF Connect, Enters, ProbesInv, ProbesTypeOK, InItsRace
<1>1. ProbesTypeOK'
  <2>1. 1 \in Ports /\ Ports' = Ports
    BY DEF Ports
  <2>2. tardy' = {}
    OBVIOUS
  <2> QED
    BY <2>1, <2>2
<1>2. InItsRace' /\ NoStraySocket'
  BY DEF NoStraySocket, Racing
<1> QED
  BY <1>1, <1>2

\* A connect is lost: the next port is tried, or the check ends.
LEMMA LosesStep ==
    ASSUME ProbesInv, at = "connect", NEW now, Loses(now),
           UNCHANGED <<probe, hops, good, tardy>>,
           now \in [1..2 -> {"none", "pending", "open", "failed", "ended"}],
           \A p \in 1..2 : p # tried => now[p] = socket[p],
           now[tried] # "open"
    PROVE  ProbesInv'
<1> USE DEF ProbesInv, InItsRace, NoStraySocket, Racing, Ports, Loses, Enters, Ends
<1>1. CASE tried + 1 \in Ports
  BY <1>1 DEF ProbesTypeOK
<1>2. CASE tried + 1 \notin Ports
  BY <1>2 DEF ProbesTypeOK
<1> QED
  BY <1>1, <1>2

LEMMA ProbesStep == ProbesInv /\ [ProbesNext]_probesVars => ProbesInv'
<1> SUFFICES ASSUME ProbesInv, [ProbesNext]_probesVars PROVE ProbesInv'
  OBVIOUS
<1> USE ProbesAssumption DEF ProbesAssumption
<1>1. ASSUME NEW p \in Ports, Opens(p) PROVE ProbesInv'
  BY <1>1 DEF Opens, ProbesInv, ProbesTypeOK, InItsRace, NoStraySocket, Racing, Ports
<1>2. ASSUME NEW p \in Ports, Refused(p) PROVE ProbesInv'
  <2> DEFINE now == [socket EXCEPT ![p] = "failed"]
  <2>1. CASE Racing(p)
    <3>1. Loses(now)
      BY <1>2, <2>1 DEF Refused
    <3>2. /\ at = "connect" /\ tried = p
          /\ now \in [1..2 -> {"none", "pending", "open", "failed", "ended"}]
          /\ \A q \in 1..2 : q # tried => now[q] = socket[q]
          /\ now[tried] # "open"
      BY <2>1 DEF Racing, Ports, ProbesInv, ProbesTypeOK
    <3> HIDE DEF now
    <3> QED
      BY <1>2, <3>1, <3>2, LosesStep DEF Refused
  <2>2. CASE ~Racing(p)
    BY <1>2, <2>2 DEF Refused, ProbesInv, ProbesTypeOK, InItsRace, NoStraySocket, Racing, Ports
  <2> QED
    BY <2>1, <2>2
<1>3. CASE TimesOut
  <2> DEFINE now == IF socket[tried] = "open" THEN [socket EXCEPT ![tried] = "ended"] ELSE socket
  <2>1. /\ Loses(now) /\ at = "connect"
        /\ UNCHANGED <<probe, hops, good, tardy>>
    BY <1>3 DEF TimesOut
  <2>2. /\ now \in [1..2 -> {"none", "pending", "open", "failed", "ended"}]
        /\ \A q \in 1..2 : q # tried => now[q] = socket[q]
        /\ now[tried] # "open"
    BY <2>1 DEF ProbesInv, ProbesTypeOK, Ports
  <2> HIDE DEF now
  <2> QED
    BY <2>1, <2>2, LosesStep
<1>4. CASE Wins
  BY <1>4 DEF Wins, Ends, ProbesInv, ProbesTypeOK, InItsRace, NoStraySocket, Racing, Ports
<1>5. CASE StartPing
  BY <1>5, ConnectStep DEF StartPing
<1>6. CASE Guard
  <2>1. CASE probe = "tcp" /\ Connect(1)
    BY <1>6, <2>1, ConnectStep DEF Guard
  <2>2. CASE ~(probe = "tcp" /\ Connect(1))
    BY <1>6, <2>2, NoRaceStep DEF Guard, Enters, Ends, ProbesInv, ProbesTypeOK, InItsRace
  <2> QED
    BY <2>1, <2>2
<1>7. CASE StartTcp \/ StartHttp \/ StartGrpc \/ StartDns
  BY <1>7, NoRaceStep DEF StartTcp, StartHttp, StartGrpc, StartDns, Enters, Ends, ProbesInv,
                          ProbesTypeOK, InItsRace
<1>8. CASE Abort
  BY <1>8, NoRaceStep DEF Abort, Ends, ProbesInv, ProbesTypeOK, InItsRace, NoStraySocket, Racing,
                          Ports
<1>9. CASE FetchFails \/ HttpResponds \/ GrpcResponds
  <2>1. timer' \in {"off", "on", "fired"} /\ good' \in BOOLEAN
    BY <1>9 DEF FetchFails, HttpResponds, GrpcResponds, ProbesInv, ProbesTypeOK
  <2> QED
    BY <1>9, <2>1, NoRaceStep DEF FetchFails, HttpResponds, GrpcResponds, After, Ends, Enters,
                                  ProbesInv, ProbesTypeOK
<1>12. CASE Redirected
  <2>1. tried = 0
    BY <1>12 DEF Redirected, ProbesInv, InItsRace, ProbesTypeOK
  <2> QED
    BY <1>12, <2>1, NoRaceStep DEF Redirected, Enters, ProbesInv, ProbesTypeOK
<1>10. CASE CertSettles \/ BodyEnds \/ Resolved
  BY <1>10, NoRaceStep DEF CertSettles, BodyEnds, Resolved, After, Ends, Enters, ProbesInv,
                           ProbesTypeOK, InItsRace
<1>11. CASE UNCHANGED probesVars
  BY <1>11 DEF probesVars, ProbesInv, ProbesTypeOK, InItsRace, NoStraySocket, Racing, Ports
<1> QED
  BY <1>1, <1>2, <1>3, <1>4, <1>5, <1>6, <1>7, <1>8, <1>9, <1>10, <1>11,
     <1>12 DEF ProbesNext, Starts

\* Type correctness of a check, for any number of redirects.
THEOREM ProbesTypeCorrect == ProbesSpec => []ProbesTypeOK
<1>1. ProbesInv => ProbesTypeOK
  BY DEF ProbesInv
<1> QED
  BY <1>1, ProbesInitInv, ProbesStep, PTL DEF ProbesSpec

\* Whatever the order in which connections open, are refused and time out, a check
\* leaves a socket open only when it opened after its race was over: the timer
\* that wins closes what opened in time (tcp-check.ts, ping-check.ts).
THEOREM SocketsClosed == ProbesSpec => []NoStraySocket
<1>1. ProbesInv => NoStraySocket
  BY DEF ProbesInv
<1> QED
  BY <1>1, ProbesInitInv, ProbesStep, PTL DEF ProbesSpec
-----------------------------------------------------------------------------
(***************************************************************************)
(* LiveLogs.                                                               *)
(***************************************************************************)
\* SetToSeq lists the members of a finite set and nothing else.
LEMMA SetToSeqLists ==
    ASSUME NEW S, IsFiniteSet(S)
    PROVE  /\ SetToSeq(S) \in Seq(S)
           /\ \A x \in S : \E i \in 1..Len(SetToSeq(S)) : SetToSeq(S)[i] = x
<1> DEFINE n == Cardinality(S)
           f == SetToSeq(S)
<1>1. n \in Nat /\ ExistsBijection(1..n, S)
  BY FS_CardinalityType
<1>2. \E g \in [1..n -> S] : IsInjective(g)
  BY <1>1 DEF ExistsBijection, Bijection, Injection
<1>3. f \in [1..n -> S] /\ IsInjective(f)
  BY <1>2 DEF SetToSeq
<1>4. f \in Injection(1..n, S)
  BY <1>3 DEF Injection
<1>5. IsFiniteSet(1..n) /\ Cardinality(1..n) = n
  BY <1>1, FS_Interval
<1>6. f \in Surjection(1..n, S)
  BY <1>4, <1>5, FS_Injection
<1>7. \A x \in S : \E i \in 1..n : f[i] = x
  BY <1>6 DEF Surjection
<1>8. f \in Seq(S) /\ Len(f) = n
  BY <1>1, <1>3
<1> QED
  BY <1>7, <1>8

Commands == {Sub(h) : h \in Handlers} \cup {Unsub(ch) : ch \in Channels}

\* The type invariant of the connections, and of the subscriptions.
ConnTypes ==
    /\ conn \in [Clients -> {"new", "open", "gone"}]
    /\ auth \subseteq Sockets /\ late \subseteq Sockets
    /\ lookups \in [Sockets -> 0..MaxLookups]
    /\ ping \subseteq Clients
    /\ IsFiniteSet(Open) /\ Cardinality(Open) <= MaxClients
SubTypes ==
    /\ handler \in [Handlers -> Subscriptions]
    /\ \A h \in Handlers :
         handler[h].at # "unused" => handler[h].of \in Clients /\ handler[h].ch \in Channels
    /\ commands \in Seq(Commands)
    /\ subscribed \subseteq Channels

\* A SUBSCRIBE on its way belongs to one pending handler; an UNSUBSCRIBE on its way
\* will take the channel from no handler that has it and was not cut, nor from one
\* whose SUBSCRIBE is ahead of it; and a channel nobody listens to is about to go.
InOrderOfIssue ==
    /\ \A i \in 1..Len(commands) :
         commands[i].do = "sub" => handler[commands[i].of].at = "pending"
    /\ \A i, j \in 1..Len(commands) :
         commands[i].do = "sub" /\ commands[i] = commands[j] => i = j
    /\ \A i \in 1..Len(commands), h \in Handlers :
         commands[i].do = "unsub" /\ handler[h].ch = commands[i].of /\ ~handler[h].cut
           => /\ handler[h].at # "held"
              /\ \A j \in 1..(i - 1) : commands[j] # Sub(h)
    /\ \A h \in Handlers :
         handler[h].at = "held" /\ ~handler[h].cut => handler[h].ch \in subscribed
    /\ \A ch \in subscribed :
         \/ \E h \in Handlers : Registered(h) /\ handler[h].ch = ch
         \/ \E i \in 1..Len(commands) : commands[i] = Unsub(ch)

\* Who has not come yet has left nothing, and what a socket that is gone may still
\* get was under way when it closed.
LeftBehind ==
    /\ \A c \in Clients : conn[c] = "new" =>
         /\ \A h \in Handlers : handler[h].of # c
         /\ c \notin ping /\ (c \in Sockets => lookups[c] = 0)
    /\ \A c \in Sockets : conn[c] = "gone" =>
         /\ \A h \in Handlers :
              handler[h].of = c /\ handler[h].at \in {"pending", "held"} => handler[h].missed
         /\ c \in ping \/ lookups[c] > 0 => c \in late

SubInv == SubTypes /\ InOrderOfIssue
LiveInv == serving \in BOOLEAN /\ ConnTypes /\ SubInv /\ LeftBehind

LEMMA LiveInitInv == LiveInit => LiveInv
<1> SUFFICES ASSUME LiveInit PROVE LiveInv
  OBVIOUS
<1>1. Open = {}
  BY LiveAssumption DEF LiveInit, Open, Clients
<1>2. ConnTypes
  BY <1>1, FS_EmptySet, LiveAssumption DEF LiveInit, ConnTypes, LiveAssumption
<1>3. SubTypes
  BY DEF LiveInit, SubTypes, Unused, Subscriptions
<1>4. InOrderOfIssue
  BY DEF LiveInit, InOrderOfIssue, Unused
<1>5. LeftBehind
  BY LiveAssumption DEF LiveInit, LeftBehind, Unused, Clients, LiveAssumption
<1> QED
  BY <1>2, <1>3, <1>4, <1>5 DEF LiveInit, LiveInv, SubInv

\* What Release adds to the queue: an UNSUBSCRIBE of each channel it gives up.
LEMMA ReleaseSends ==
    ASSUME SubTypes, NEW c \in Clients, NEW leaving \in BOOLEAN, Release(c, leaving)
    PROVE  \E s \in Seq(Commands) :
             /\ commands' = commands \o s
             /\ \A i \in 1..Len(s) : \E h \in HeldBy(c) : s[i] = Unsub(handler[h].ch)
             /\ \A h \in HeldBy(c) : \E i \in 1..Len(s) : s[i] = Unsub(handler[h].ch)
<1> DEFINE mine == HeldBy(c)
           chs == {handler[h].ch : h \in mine}
           S == {Unsub(ch) : ch \in chs}
           f == [h \in mine |-> Unsub(handler[h].ch)]
<1>1. IsFiniteSet(mine)
  <2>1. IsFiniteSet(Handlers)
    BY FS_Interval, LiveAssumption DEF Handlers, LiveAssumption
  <2> QED
    BY <2>1, FS_Subset DEF HeldBy
<1>2. f \in Surjection(mine, S)
  BY Fun_IsSurj
<1>3. IsFiniteSet(S)
  BY <1>1, <1>2, FS_Surjection
<1>4. S \subseteq Commands
  BY DEF SubTypes, HeldBy, Commands
<1>9. \A x : x \in S <=> \E h \in mine : x = Unsub(handler[h].ch)
  OBVIOUS
<1>5. commands' = commands \o SetToSeq(S)
  BY DEF Release
<1> HIDE DEF S
<1>6. /\ SetToSeq(S) \in Seq(S)
      /\ \A x \in S : \E i \in 1..Len(SetToSeq(S)) : SetToSeq(S)[i] = x
  BY <1>3, SetToSeqLists
<1>7. SetToSeq(S) \in Seq(Commands)
  BY <1>4, <1>6, SeqMonotonic
<1>8. \A i \in 1..Len(SetToSeq(S)) : SetToSeq(S)[i] \in S
  BY <1>6, ElementOfSeq
<1>10. \A i \in 1..Len(SetToSeq(S)) : \E h \in HeldBy(c) : SetToSeq(S)[i] = Unsub(handler[h].ch)
  BY <1>8, <1>9, Zenon
<1>11. \A h \in HeldBy(c) : \E i \in 1..Len(SetToSeq(S)) : SetToSeq(S)[i] = Unsub(handler[h].ch)
  BY <1>6, <1>9, Zenon
<1> QED
  BY <1>5, <1>7, <1>10, <1>11
\* The handler h is not of c, which unsubscribes its channel.
LosesChannel(c, h) ==
    /\ Registered(h) /\ h \notin HeldBy(c)
    /\ \E g \in HeldBy(c) : handler[g].ch = handler[h].ch

\* What Release makes of each handler.
LEMMA ReleaseHandlers ==
    ASSUME SubTypes, NEW c \in Clients, NEW leaving \in BOOLEAN, Release(c, leaving)
    PROVE  /\ handler' \in [Handlers -> Subscriptions]
           /\ \A h \in Handlers :
                /\ handler'[h].of = handler[h].of /\ handler'[h].ch = handler[h].ch
                /\ handler'[h].at = IF h \in HeldBy(c) THEN "off" ELSE handler[h].at
                /\ handler'[h].cut = (handler[h].cut \/ LosesChannel(c, h))
                /\ handler'[h].missed = (handler[h].missed
                     \/ (leaving /\ handler[h].of = c /\ handler[h].at = "pending"))
<1> DEFINE chs == {handler[g].ch : g \in HeldBy(c)}
<1>1. handler' = [h \in Handlers |->
         [handler[h] EXCEPT
            !.at = IF h \in HeldBy(c) THEN "off" ELSE @,
            !.cut = @ \/ (Registered(h) /\ h \notin HeldBy(c) /\ handler[h].ch \in chs),
            !.missed = @ \/ (leaving /\ handler[h].of = c /\ handler[h].at = "pending")]]
  BY DEF Release
<1>2. \A h \in Handlers : handler[h] \in Subscriptions
  BY DEF SubTypes
<1>3. \A h \in Handlers : LosesChannel(c, h) =
         (Registered(h) /\ h \notin HeldBy(c) /\ handler[h].ch \in chs)
  BY DEF LosesChannel
<1> HIDE DEF chs
<1>4. ASSUME NEW h \in Handlers
      PROVE  /\ handler'[h] \in Subscriptions
             /\ handler'[h].of = handler[h].of /\ handler'[h].ch = handler[h].ch
             /\ handler'[h].at = IF h \in HeldBy(c) THEN "off" ELSE handler[h].at
             /\ handler'[h].cut = (handler[h].cut
                  \/ (Registered(h) /\ h \notin HeldBy(c) /\ handler[h].ch \in chs))
             /\ handler'[h].missed = (handler[h].missed
                  \/ (leaving /\ handler[h].of = c /\ handler[h].at = "pending"))
  BY <1>1, <1>2 DEF Subscriptions
<1>5. \A h \in Handlers : handler'[h] \in Subscriptions
  BY <1>4
<1>6. handler' \in [Handlers -> Subscriptions]
  BY <1>1, <1>5
<1> QED
  BY <1>3, <1>4, <1>6

LEMMA ReleaseSub ==
    ASSUME SubInv, NEW c \in Clients, NEW leaving \in BOOLEAN, Release(c, leaving),
           UNCHANGED subscribed
    PROVE  SubInv'
<1> USE DEF SubInv
<1>1. PICK s \in Seq(Commands) :
             /\ commands' = commands \o s
             /\ \A i \in 1..Len(s) : \E h \in HeldBy(c) : s[i] = Unsub(handler[h].ch)
             /\ \A h \in HeldBy(c) : \E i \in 1..Len(s) : s[i] = Unsub(handler[h].ch)
  BY ReleaseSends
<1>2. /\ handler' \in [Handlers -> Subscriptions]
      /\ \A h \in Handlers :
           /\ handler'[h].of = handler[h].of /\ handler'[h].ch = handler[h].ch
           /\ handler'[h].at = IF h \in HeldBy(c) THEN "off" ELSE handler[h].at
           /\ handler'[h].cut = (handler[h].cut \/ LosesChannel(c, h))
  <2>1. SubTypes
    OBVIOUS
  <2> QED
    BY <2>1, ReleaseHandlers
<1>3. /\ commands' \in Seq(Commands) /\ Len(commands') = Len(commands) + Len(s)
      /\ Len(commands) \in Nat /\ Len(s) \in Nat
      /\ \A i \in 1..Len(commands') :
           commands'[i] = IF i <= Len(commands) THEN commands[i] ELSE s[i - Len(commands)]
  BY <1>1, ConcatProperties, LenProperties DEF SubTypes
<1>4. \A i \in 1..Len(commands') :
         \/ i \in 1..Len(commands) /\ commands'[i] = commands[i]
         \/ i > Len(commands) /\ \E h \in HeldBy(c) : commands'[i] = Unsub(handler[h].ch)
  <2>1. ASSUME NEW i \in 1..Len(commands'), i > Len(commands)
        PROVE  \E h \in HeldBy(c) : commands'[i] = Unsub(handler[h].ch)
    <3>1. i - Len(commands) \in 1..Len(s) /\ commands'[i] = s[i - Len(commands)]
      BY <1>3, <2>1
    <3> QED
      BY <1>1, <3>1
  <2>2. ASSUME NEW i \in 1..Len(commands'), ~(i > Len(commands))
        PROVE  i \in 1..Len(commands) /\ commands'[i] = commands[i]
    BY <1>3, <2>2
  <2> QED
    BY <2>1, <2>2
<1>5. SubTypes'
  BY <1>2, <1>3 DEF SubTypes, HeldBy
<1>6. \A i \in 1..Len(commands) : commands[i].do = "sub" => commands[i].of \in Handlers
  BY DEF SubTypes, Commands, Sub, Unsub
<1>7. ASSUME NEW i \in 1..Len(commands'), commands'[i].do = "sub"
      PROVE  /\ i \in 1..Len(commands) /\ commands'[i] = commands[i]
             /\ handler'[commands'[i].of].at = "pending"
  <2>1. i \in 1..Len(commands) /\ commands'[i] = commands[i]
    <3>1. \A ch : commands'[i] # Unsub(ch)
      BY <1>7 DEF Unsub
    <3> QED
      BY <1>4, <3>1
  <2>2. commands[i].of \in Handlers /\ handler[commands[i].of].at = "pending"
    BY <1>6, <1>7, <2>1 DEF InOrderOfIssue
  <2> QED
    BY <1>2, <2>1, <2>2 DEF HeldBy
<1>8. ASSUME NEW i \in 1..Len(commands'), NEW j \in 1..Len(commands'),
             commands'[i].do = "sub", commands'[i] = commands'[j]
      PROVE  i = j
  BY <1>7, <1>8 DEF InOrderOfIssue
<1>9. ASSUME NEW i \in 1..Len(commands'), NEW h \in Handlers, commands'[i].do = "unsub",
             handler'[h].ch = commands'[i].of, ~handler'[h].cut
      PROVE  /\ handler'[h].at # "held"
             /\ \A j \in 1..(i - 1) : commands'[j] # Sub(h)
  <2>1. ASSUME NEW j \in 1..(i - 1), commands'[j] = Sub(h)
        PROVE  j \in 1..Len(commands) /\ commands[j] = Sub(h) /\ handler[h].at = "pending"
    <3>1. j \in 1..Len(commands') /\ commands'[j].do = "sub"
      BY <1>3, <2>1 DEF Sub
    <3> QED
      BY <1>7, <2>1, <3>1 DEF Sub, InOrderOfIssue
  <2>2. CASE i \in 1..Len(commands) /\ commands'[i] = commands[i]
    <3>1. handler[h].ch = commands[i].of /\ ~handler[h].cut /\ commands[i].do = "unsub"
      BY <1>2, <1>9, <2>2
    <3>2. /\ handler[h].at # "held"
          /\ \A j \in 1..(i - 1) : commands[j] # Sub(h)
      BY <2>2, <3>1 DEF InOrderOfIssue
    <3>3. handler'[h].at # "held"
      BY <1>2, <3>2
    <3> QED
      BY <2>1, <3>2, <3>3
  <2>3. CASE i > Len(commands) /\ \E g \in HeldBy(c) : commands'[i] = Unsub(handler[g].ch)
    <3>1. PICK g \in HeldBy(c) : commands'[i] = Unsub(handler[g].ch)
      BY <2>3
    <3>2. handler[g].ch = handler[h].ch
      BY <1>2, <1>9, <3>1 DEF Unsub
    <3>3. h \in HeldBy(c) \/ ~Registered(h)
      BY <1>2, <1>9, <3>2 DEF LosesChannel
    <3>4. handler'[h].at # "held" /\ handler[h].at # "pending"
      BY <1>2, <3>3 DEF Registered, HeldBy
    <3> QED
      BY <2>1, <3>4
  <2> QED
    BY <1>4, <2>2, <2>3
<1>10. ASSUME NEW h \in Handlers, handler'[h].at = "held", ~handler'[h].cut
       PROVE  handler'[h].ch \in subscribed'
  BY <1>2, <1>10 DEF InOrderOfIssue
<1>11. ASSUME NEW ch \in subscribed'
       PROVE  \/ \E h \in Handlers : Registered(h)' /\ handler'[h].ch = ch
              \/ \E i \in 1..Len(commands') : commands'[i] = Unsub(ch)
  <2>1. CASE \E i \in 1..Len(commands) : commands[i] = Unsub(ch)
    BY <1>3, <2>1
  <2>2. ASSUME NEW h \in Handlers, Registered(h), handler[h].ch = ch
        PROVE  \/ Registered(h)' /\ handler'[h].ch = ch
               \/ \E i \in 1..Len(commands') : commands'[i] = Unsub(ch)
    <3>1. CASE h \in HeldBy(c)
      <4>1. PICK i \in 1..Len(s) : s[i] = Unsub(ch)
        BY <1>1, <2>2, <3>1
      <4>2. Len(commands) + i \in 1..Len(commands') /\ commands'[Len(commands) + i] = s[i]
        <5>1. Len(commands) + i \in 1..Len(commands') /\ ~(Len(commands) + i <= Len(commands))
              /\ (Len(commands) + i) - Len(commands) = i
          BY <1>3, <4>1
        <5> QED
          BY <1>3, <5>1
      <4> QED
        BY <4>1, <4>2
    <3>2. CASE h \notin HeldBy(c)
      BY <1>2, <2>2, <3>2 DEF Registered
    <3> QED
      BY <3>1, <3>2
  <2> QED
    BY <2>1, <2>2 DEF InOrderOfIssue
<1>12. InOrderOfIssue'
  BY <1>7, <1>8, <1>9, <1>10, <1>11 DEF InOrderOfIssue
<1> QED
  BY <1>5, <1>12

LEMMA RegisterSub ==
    ASSUME SubInv, NEW c \in Clients, NEW ch \in Channels, NEW h \in Handlers,
           Register(c, ch, h), UNCHANGED subscribed
    PROVE  SubInv'
<1> USE DEF SubInv
<1>1. /\ handler[h].at = "unused"
      /\ handler' \in [Handlers -> Subscriptions]
      /\ handler'[h].of = c /\ handler'[h].ch = ch /\ handler'[h].at = "pending"
      /\ \A g \in Handlers : g # h => handler'[g] = handler[g]
  BY DEF Register, Unused, SubTypes, Subscriptions
<1>2. /\ Len(commands) \in Nat /\ Len(commands') = Len(commands) + 1
      /\ commands' \in Seq(Commands)
      /\ \A i \in 1..Len(commands) : commands'[i] = commands[i]
      /\ commands'[Len(commands) + 1] = Sub(h)
  <2>1. Sub(h) \in Commands
    BY DEF Commands
  <2> QED
    BY <2>1, AppendProperties, LenProperties DEF SubTypes, Register
<1>3. \A i \in 1..Len(commands) : commands[i] # Sub(h)
                                 /\ (commands[i].do = "sub" => commands[i].of \in Handlers)
  BY <1>1 DEF SubTypes, InOrderOfIssue, Commands, Sub, Unsub
<1>4. SubTypes'
  BY <1>1, <1>2 DEF SubTypes
<1>5. \A i \in 1..Len(commands') :
         \/ i \in 1..Len(commands) /\ commands'[i] = commands[i]
         \/ i = Len(commands) + 1 /\ commands'[i] = Sub(h)
  BY <1>2
<1>6. ASSUME NEW i \in 1..Len(commands'), commands'[i].do = "sub"
      PROVE  handler'[commands'[i].of].at = "pending"
  BY <1>1, <1>3, <1>5, <1>6 DEF InOrderOfIssue, Sub
<1>7. ASSUME NEW i \in 1..Len(commands'), NEW j \in 1..Len(commands'),
             commands'[i].do = "sub", commands'[i] = commands'[j]
      PROVE  i = j
  BY <1>3, <1>5, <1>7 DEF InOrderOfIssue
<1>8. ASSUME NEW i \in 1..Len(commands'), NEW g \in Handlers, commands'[i].do = "unsub",
             handler'[g].ch = commands'[i].of, ~handler'[g].cut
      PROVE  /\ handler'[g].at # "held"
             /\ \A j \in 1..(i - 1) : commands'[j] # Sub(g)
  <2>1. i \in 1..Len(commands) /\ commands'[i] = commands[i]
    BY <1>5, <1>8 DEF Sub
  <2>2. \A j \in 1..(i - 1) : j \in 1..Len(commands) /\ commands'[j] = commands[j]
    BY <1>2, <2>1
  <2>3. CASE g = h
    BY <1>1, <1>3, <2>2, <2>3
  <2>4. CASE g # h
    BY <1>1, <1>8, <2>1, <2>2, <2>4 DEF InOrderOfIssue
  <2> QED
    BY <2>3, <2>4
<1>9. ASSUME NEW g \in Handlers, handler'[g].at = "held", ~handler'[g].cut
      PROVE  handler'[g].ch \in subscribed'
  BY <1>1, <1>9 DEF InOrderOfIssue
<1>10. ASSUME NEW x \in subscribed'
       PROVE  \/ \E g \in Handlers : Registered(g)' /\ handler'[g].ch = x
              \/ \E i \in 1..Len(commands') : commands'[i] = Unsub(x)
  <2>1. CASE \E i \in 1..Len(commands) : commands[i] = Unsub(x)
    BY <1>2, <2>1
  <2>2. CASE \E g \in Handlers : Registered(g) /\ handler[g].ch = x
    BY <1>1, <2>2 DEF Registered
  <2> QED
    BY <2>1, <2>2 DEF InOrderOfIssue
<1>11. InOrderOfIssue'
  BY <1>6, <1>7, <1>8, <1>9, <1>10 DEF InOrderOfIssue
<1> QED
  BY <1>4, <1>11

\* The first command leaves the queue.
LEMMA QueueAdvances ==
    ASSUME SubTypes, commands # <<>>, commands' = Tail(commands)
    PROVE  /\ commands' \in Seq(Commands)
           /\ Len(commands) \in Nat \ {0} /\ Len(commands') = Len(commands) - 1
           /\ Head(commands) = commands[1]
           /\ \A i \in 1..Len(commands') : i + 1 \in 1..Len(commands)
                                          /\ commands'[i] = commands[i + 1]
<1>1. commands \in Seq(Commands)
  BY DEF SubTypes
<1>2. Len(commands) \in Nat \ {0}
  BY <1>1, EmptySeq
<1>3. /\ commands' \in Seq(Commands) /\ Len(commands') = Len(commands) - 1
      /\ \A i \in 1..Len(commands') : commands'[i] = commands[i + 1]
  BY <1>1, HeadTailProperties
<1> QED
  BY <1>1, <1>2, <1>3

\* SUBSCRIBE of the handler h is answered, or fails.
LEMMA AnswerSub ==
    ASSUME SubInv, commands # <<>>, commands' = Tail(commands), Head(commands).do = "sub",
           NEW to \in {"held", "orphan"}, NEW h, h = Head(commands).of,
           handler' = [handler EXCEPT ![h].at = to],
           subscribed' = IF to = "held" THEN subscribed \cup {handler[h].ch} ELSE subscribed
    PROVE  SubInv'
<1> USE DEF SubInv
<1>1. /\ commands' \in Seq(Commands)
      /\ Len(commands) \in Nat \ {0} /\ Len(commands') = Len(commands) - 1
      /\ Head(commands) = commands[1]
      /\ \A i \in 1..Len(commands') : i + 1 \in 1..Len(commands)
                                     /\ commands'[i] = commands[i + 1]
  BY QueueAdvances
<1>2. h \in Handlers /\ commands[1] = Sub(h) /\ handler[h].at = "pending"
  BY <1>1 DEF SubTypes, InOrderOfIssue, Commands, Sub, Unsub
<1>3. /\ handler' \in [Handlers -> Subscriptions] /\ handler'[h].at = to
      /\ handler'[h].ch = handler[h].ch /\ handler'[h].of = handler[h].of
      /\ handler'[h].cut = handler[h].cut /\ handler[h].ch \in Channels
      /\ \A g \in Handlers : g # h => handler'[g] = handler[g]
  BY <1>2 DEF SubTypes, Subscriptions
<1>4. SubTypes'
  BY <1>1, <1>2, <1>3 DEF SubTypes
<1>5. \A i \in 1..Len(commands') : commands'[i] # Sub(h)
  BY <1>1, <1>2 DEF InOrderOfIssue, Sub
<1>6. ASSUME NEW i \in 1..Len(commands'), commands'[i].do = "sub"
      PROVE  handler'[commands'[i].of].at = "pending"
  <2>1. PICK g \in Handlers : commands'[i] = Sub(g)
    BY <1>1, <1>6 DEF Commands, Unsub
  <2>2. g # h /\ handler[g].at = "pending"
    BY <1>1, <1>5, <1>6, <2>1 DEF InOrderOfIssue, Sub
  <2> QED
    BY <1>3, <2>1, <2>2 DEF Sub
<1>7. ASSUME NEW i \in 1..Len(commands'), NEW j \in 1..Len(commands'),
             commands'[i].do = "sub", commands'[i] = commands'[j]
      PROVE  i = j
  BY <1>1, <1>7 DEF InOrderOfIssue
<1>8. ASSUME NEW i \in 1..Len(commands'), NEW g \in Handlers, commands'[i].do = "unsub",
             handler'[g].ch = commands'[i].of, ~handler'[g].cut
      PROVE  /\ handler'[g].at # "held"
             /\ \A j \in 1..(i - 1) : commands'[j] # Sub(g)
  <2>1. i + 1 \in 1..Len(commands) /\ commands'[i] = commands[i + 1]
    BY <1>1
  <2>2. handler[g].ch = commands[i + 1].of /\ ~handler[g].cut
    BY <1>3, <1>8, <2>1
  <2>3. handler[g].at # "held" /\ \A j \in 1..i : commands[j] # Sub(g)
    BY <1>8, <2>1, <2>2 DEF InOrderOfIssue
  <2>4. g # h
    BY <1>1, <1>2, <2>3
  <2>5. ASSUME NEW j \in 1..(i - 1) PROVE commands'[j] # Sub(g)
    <3>1. j \in 1..Len(commands') /\ j + 1 \in 1..i
      BY <1>1
    <3> QED
      BY <1>1, <2>3, <3>1
  <2> QED
    BY <1>3, <2>3, <2>4, <2>5
<1>9. ASSUME NEW g \in Handlers, handler'[g].at = "held", ~handler'[g].cut
      PROVE  handler'[g].ch \in subscribed'
  BY <1>3, <1>9 DEF InOrderOfIssue
<1>10. ASSUME NEW x \in subscribed'
       PROVE  \/ \E g \in Handlers : Registered(g)' /\ handler'[g].ch = x
              \/ \E i \in 1..Len(commands') : commands'[i] = Unsub(x)
  <2>1. CASE x = handler[h].ch
    BY <1>2, <1>3, <2>1 DEF Registered
  <2>2. ASSUME NEW i \in 1..Len(commands), commands[i] = Unsub(x)
        PROVE  \E j \in 1..Len(commands') : commands'[j] = Unsub(x)
    <3>1. i # 1
      BY <1>2, <2>2 DEF Sub, Unsub
    <3>2. i - 1 \in 1..Len(commands') /\ (i - 1) + 1 = i
      BY <1>1, <3>1
    <3> QED
      BY <1>1, <2>2, <3>2
  <2>3. CASE \E g \in Handlers : Registered(g) /\ handler[g].ch = x
    BY <1>2, <1>3, <2>3 DEF Registered
  <2> QED
    BY <2>1, <2>2, <2>3 DEF InOrderOfIssue
<1>11. InOrderOfIssue'
  BY <1>6, <1>7, <1>8, <1>9, <1>10 DEF InOrderOfIssue
<1> QED
  BY <1>4, <1>11

\* UNSUBSCRIBE is answered: it takes the channel from nobody who should hear it.
LEMMA AnswerUnsub ==
    ASSUME SubInv, commands # <<>>, commands' = Tail(commands), Head(commands).do # "sub",
           subscribed' = subscribed \ {Head(commands).of}, UNCHANGED handler
    PROVE  SubInv'
<1> USE DEF SubInv
<1>1. /\ commands' \in Seq(Commands)
      /\ Len(commands) \in Nat \ {0} /\ Len(commands') = Len(commands) - 1
      /\ Head(commands) = commands[1]
      /\ \A i \in 1..Len(commands') : i + 1 \in 1..Len(commands)
                                     /\ commands'[i] = commands[i + 1]
  BY QueueAdvances
<1>2. PICK gone \in Channels : commands[1] = Unsub(gone)
  BY <1>1 DEF SubTypes, Commands, Sub
<1>3. SubTypes'
  BY <1>1 DEF SubTypes
<1>4. \A h \in Handlers : handler[h].at = "held" /\ ~handler[h].cut => handler[h].ch # gone
  BY <1>1, <1>2 DEF InOrderOfIssue, Unsub
<1>5. subscribed' = subscribed \ {gone}
  BY <1>1, <1>2 DEF Unsub
<1>6. ASSUME NEW i \in 1..Len(commands'), NEW g \in Handlers, commands'[i].do = "unsub",
             handler'[g].ch = commands'[i].of, ~handler'[g].cut
      PROVE  /\ handler'[g].at # "held"
             /\ \A j \in 1..(i - 1) : commands'[j] # Sub(g)
  <2>1. handler[g].at # "held" /\ \A j \in 1..i : commands[j] # Sub(g)
    BY <1>1, <1>6 DEF InOrderOfIssue
  <2>2. ASSUME NEW j \in 1..(i - 1) PROVE commands'[j] # Sub(g)
    <3>1. j \in 1..Len(commands') /\ j + 1 \in 1..i
      BY <1>1
    <3> QED
      BY <1>1, <2>1, <3>1
  <2> QED
    BY <2>1, <2>2
<1>7. ASSUME NEW x \in subscribed'
      PROVE  \/ \E g \in Handlers : Registered(g)' /\ handler'[g].ch = x
             \/ \E i \in 1..Len(commands') : commands'[i] = Unsub(x)
  <2>1. ASSUME NEW i \in 1..Len(commands), commands[i] = Unsub(x)
        PROVE  \E j \in 1..Len(commands') : commands'[j] = Unsub(x)
    <3>1. i # 1
      BY <1>2, <1>5, <1>7, <2>1 DEF Unsub
    <3>2. i - 1 \in 1..Len(commands') /\ (i - 1) + 1 = i
      BY <1>1, <3>1
    <3> QED
      BY <1>1, <2>1, <3>2
  <2> QED
    BY <1>5, <1>7, <2>1 DEF InOrderOfIssue, Registered
<1>8. \A i \in 1..Len(commands') :
         commands'[i].do = "sub" => handler'[commands'[i].of].at = "pending"
  BY <1>1 DEF InOrderOfIssue
<1>9. \A i, j \in 1..Len(commands') :
         commands'[i].do = "sub" /\ commands'[i] = commands'[j] => i = j
  BY <1>1 DEF InOrderOfIssue
<1>10. InOrderOfIssue'
  BY <1>4, <1>5, <1>6, <1>7, <1>8, <1>9 DEF InOrderOfIssue
<1> QED
  BY <1>3, <1>10

\* Sockets that close make room.
LEMMA FewerOpen ==
    ASSUME ConnTypes, Open' \subseteq Open
    PROVE  IsFiniteSet(Open)' /\ (Cardinality(Open) <= MaxClients)'
<1>1. IsFiniteSet(Open) /\ Cardinality(Open) <= MaxClients
  BY DEF ConnTypes
<1>2. IsFiniteSet(Open') /\ Cardinality(Open') <= Cardinality(Open)
  BY <1>1, FS_Subset
<1>3. Cardinality(Open) \in Nat /\ Cardinality(Open') \in Nat
  BY <1>1, <1>2, FS_CardinalityType
<1> QED
  BY <1>1, <1>2, <1>3, LiveAssumption DEF LiveAssumption

LEMMA OpenStep == ASSUME LiveInv, NEW c \in Sockets, OpenSocket(c) PROVE LiveInv'
<1> USE DEF LiveInv, OpenSocket, Goes
<1>1. c \in Clients /\ conn[c] = "new" /\ conn' \in [Clients -> {"new", "open", "gone"}]
  BY DEF Clients, ConnTypes
<1>2. SubInv'
  BY DEF SubInv, SubTypes, InOrderOfIssue, Registered
<1>3. IsFiniteSet(Open)' /\ (Cardinality(Open) <= MaxClients)'
  <2>1. CASE Cardinality(Open) >= MaxClients
    <3>1. Open' \subseteq Open
      BY <1>1, <2>1 DEF Open, ConnTypes, Clients
    <3> QED
      BY <3>1, FewerOpen
  <2>2. CASE ~(Cardinality(Open) >= MaxClients)
    <3>1. Open' = Open \cup {c}
      BY <1>1, <2>2 DEF Open, ConnTypes, Clients
    <3>2. IsFiniteSet(Open) /\ Cardinality(Open) \in Nat
      BY FS_CardinalityType DEF ConnTypes
    <3>3. IsFiniteSet(Open') /\ Cardinality(Open') <= Cardinality(Open) + 1
      BY <3>1, <3>2, FS_AddElement
    <3>4. Cardinality(Open') \in Nat
      BY <3>3, FS_CardinalityType
    <3> QED
      BY <2>2, <3>2, <3>3, <3>4, LiveAssumption DEF LiveAssumption
  <2> QED
    BY <2>1, <2>2
<1>4. ConnTypes'
  <2>1. ping' \subseteq Clients
    BY <1>1 DEF ConnTypes
  <2> QED
    BY <1>1, <1>3, <2>1 DEF ConnTypes
<1>5. LeftBehind'
  BY <1>1, LiveAssumption DEF LeftBehind, ConnTypes, Clients, LiveAssumption
<1> QED
  BY <1>2, <1>4, <1>5

\* A connection closes: what it holds is released, what is pending is marked.
LEMMA ClosedStep ==
    ASSUME LiveInv, NEW c \in Clients, conn[c] = "open", Goes(c, "gone"), Release(c, TRUE),
           ping' = ping \ {c}, UNCHANGED <<serving, auth, subscribed>>,
           lookups' \in [Sockets -> 0..MaxLookups],
           \A d \in Sockets : d # c => lookups'[d] = lookups[d],
           late \subseteq late', late' \subseteq Sockets,
           c \in Sockets /\ lookups'[c] > 0 => c \in late'
    PROVE  LiveInv'
<1> USE DEF LiveInv, Goes
<1>1. SubTypes /\ SubInv'
  BY ReleaseSub DEF SubInv
<1>2. \A h \in Handlers :
         /\ handler'[h].of = handler[h].of /\ handler'[h].ch = handler[h].ch
         /\ handler'[h].at = IF h \in HeldBy(c) THEN "off" ELSE handler[h].at
         /\ handler'[h].missed = (handler[h].missed
              \/ (handler[h].of = c /\ handler[h].at = "pending"))
  BY <1>1, ReleaseHandlers
<1>3. Open' \subseteq Open
  BY DEF Open, ConnTypes, Clients
<1>4. ConnTypes'
  <2>1. conn' \in [Clients -> {"new", "open", "gone"}] /\ ping' \subseteq Clients
    BY DEF ConnTypes
  <2> QED
    BY <1>3, <2>1, FewerOpen DEF ConnTypes
<1>5. LeftBehind'
  <2>1. conn'[c] = "gone" /\ \A d \in Clients : d # c => conn'[d] = conn[d]
    BY DEF ConnTypes
  <2>2. ASSUME NEW d \in Clients, conn'[d] = "new"
        PROVE  /\ \A h \in Handlers : handler'[h].of # d
               /\ d \notin ping' /\ (d \in Sockets => lookups'[d] = 0)
    BY <1>2, <2>1, <2>2 DEF LeftBehind
  <2>3. ASSUME NEW d \in Sockets, conn'[d] = "gone", NEW h \in Handlers,
               handler'[h].of = d, handler'[h].at \in {"pending", "held"}
        PROVE  handler'[h].missed
    <3>1. d \in Clients
      BY DEF Clients
    <3>2. CASE d = c
      <4>1. handler[h].of = c /\ handler[h].at = "pending"
        BY <1>2, <2>3, <3>2 DEF HeldBy
      <4> QED
        BY <1>2, <4>1
    <3>3. CASE d # c
      <4>1. handler[h].missed
        BY <1>2, <2>1, <2>3, <3>1, <3>3 DEF LeftBehind, HeldBy
      <4> QED
        BY <1>2, <4>1
    <3> QED
      BY <3>2, <3>3
  <2>4. ASSUME NEW d \in Sockets, conn'[d] = "gone", d \in ping' \/ lookups'[d] > 0
        PROVE  d \in late'
    BY <2>1, <2>4 DEF LeftBehind, Clients
  <2> QED
    BY <2>2, <2>3, <2>4 DEF LeftBehind
<1> QED
  BY <1>1, <1>4, <1>5

\* A connection stays and gives up its subscriptions.
LEMMA ReleasedStep ==
    ASSUME LiveInv, NEW c \in Clients, Release(c, FALSE), ping' \subseteq ping,
           UNCHANGED <<serving, conn, auth, lookups, subscribed, late>>
    PROVE  LiveInv'
<1> USE DEF LiveInv
<1>1. SubTypes /\ SubInv'
  BY ReleaseSub DEF SubInv
<1>2. \A h \in Handlers :
         /\ handler'[h].of = handler[h].of
         /\ handler'[h].at = IF h \in HeldBy(c) THEN "off" ELSE handler[h].at
         /\ handler'[h].missed = handler[h].missed
  <2>1. \A h \in Handlers :
           /\ handler'[h].of = handler[h].of
           /\ handler'[h].at = IF h \in HeldBy(c) THEN "off" ELSE handler[h].at
           /\ handler'[h].missed = (handler[h].missed \/ (FALSE /\ handler[h].of = c
                                                        /\ handler[h].at = "pending"))
    BY <1>1, ReleaseHandlers
  <2>2. \A h \in Handlers : handler[h].missed \in BOOLEAN
    BY <1>1 DEF SubTypes, Subscriptions
  <2> QED
    BY <2>1, <2>2
<1>3. ConnTypes'
  BY DEF ConnTypes, Open
<1>4. LeftBehind'
  BY <1>2 DEF LeftBehind
<1> QED
  BY <1>1, <1>3, <1>4

\* A subscription of a connection that is open, or opens with it.
LEMMA RegisteredStep ==
    ASSUME LiveInv, NEW c \in Clients, NEW ch \in Channels, NEW h \in Handlers,
           Register(c, ch, h), UNCHANGED <<serving, auth, lookups, ping, subscribed, late>>,
           \/ conn[c] = "open" /\ UNCHANGED conn
           \/ c \in Streams /\ Goes(c, "open")
    PROVE  LiveInv'
<1> USE DEF LiveInv
<1>1. SubTypes /\ SubInv'
  BY RegisterSub DEF SubInv
<1>2. /\ conn' \in [Clients -> {"new", "open", "gone"}] /\ conn'[c] = "open"
      /\ \A d \in Clients : d # c => conn'[d] = conn[d]
  BY DEF ConnTypes, Goes
<1>3. Open' = Open
  BY <1>2, LiveAssumption DEF Open, ConnTypes, Clients, Goes, LiveAssumption
<1>4. ConnTypes'
  BY <1>2, <1>3 DEF ConnTypes
<1>5. /\ handler'[h].of = c
      /\ \A g \in Handlers : g # h => handler'[g] = handler[g]
  BY <1>1 DEF Register, SubTypes
<1>6. LeftBehind'
  BY <1>2, <1>5 DEF LeftBehind, Clients
<1> QED
  BY <1>1, <1>4, <1>6

LEMMA AnsweredStep == ASSUME LiveInv, Answer \/ AnswerFails PROVE LiveInv'
<1> USE DEF LiveInv
<1>1. SubTypes
  BY DEF SubInv
<1>2. CASE Answer /\ Head(commands).do # "sub"
  <2>1. SubInv'
    BY <1>2, AnswerUnsub DEF Answer
  <2>2. UNCHANGED <<serving, conn, auth, lookups, ping, late, handler>>
    BY <1>2 DEF Answer
  <2> QED
    BY <2>1, <2>2 DEF ConnTypes, Open, LeftBehind
<1>3. ASSUME commands # <<>>, Head(commands).do = "sub", NEW to \in {"held", "orphan"}, NEW h,
             h = Head(commands).of, commands' = Tail(commands),
             handler' = [handler EXCEPT ![h].at = to],
             subscribed' = IF to = "held" THEN subscribed \cup {handler[h].ch} ELSE subscribed,
             ping' = IF to = "held" THEN ping \cup ({handler[h].of} \cap Streams) ELSE ping,
             UNCHANGED <<serving, conn, auth, lookups, late>>
      PROVE  LiveInv'
  <2>1. SubInv'
    BY <1>3, AnswerSub
  <2>2. h \in Handlers /\ handler[h].at = "pending"
    <3>1. Len(commands) \in Nat \ {0} /\ Head(commands) = commands[1] /\ commands \in Seq(Commands)
      BY <1>1, <1>3, EmptySeq DEF SubTypes
    <3>2. commands[1] \in Commands
      BY <3>1
    <3> QED
      BY <1>3, <3>1, <3>2 DEF SubInv, InOrderOfIssue, Commands, Sub, Unsub
  <2>3. \A g \in Handlers :
          /\ handler'[g].of = handler[g].of /\ handler'[g].missed = handler[g].missed
          /\ handler'[g].at = IF g = h THEN to ELSE handler[g].at
    BY <1>1, <1>3, <2>2 DEF SubTypes, Subscriptions
  <2>4. handler[h].of \in Clients /\ \A d \in ping' : d \in ping \/ (d = handler[h].of /\ d \in Streams)
    BY <1>1, <1>3, <2>2 DEF SubTypes
  <2>5. ConnTypes'
    <3>1. ping' \subseteq Clients
      BY <2>4 DEF ConnTypes
    <3> QED
      BY <1>3, <3>1 DEF ConnTypes, Open
  <2>6. LeftBehind'
    <3>1. ASSUME NEW d \in Clients, conn'[d] = "new"
          PROVE  /\ \A g \in Handlers : handler'[g].of # d
                 /\ d \notin ping' /\ (d \in Sockets => lookups'[d] = 0)
      BY <1>3, <2>2, <2>3, <2>4, <3>1 DEF LeftBehind
    <3>2. ASSUME NEW d \in Sockets, conn'[d] = "gone"
          PROVE  /\ \A g \in Handlers :
                       handler'[g].of = d /\ handler'[g].at \in {"pending", "held"}
                         => handler'[g].missed
                 /\ d \in ping' \/ lookups'[d] > 0 => d \in late'
      <4>1. d \notin Streams
        BY LiveAssumption DEF LiveAssumption
      <4> QED
        BY <1>3, <2>2, <2>3, <2>4, <3>2, <4>1 DEF LeftBehind
    <3> QED
      BY <3>1, <3>2 DEF LeftBehind
  <2> QED
    BY <1>3, <2>1, <2>5, <2>6
<1>4. CASE Answer /\ Head(commands).do = "sub"
  BY <1>3, <1>4 DEF Answer
<1>5. CASE AnswerFails
  BY <1>3, <1>5 DEF AnswerFails
<1> QED
  BY <1>2, <1>4, <1>5

LEMMA LookedUpStep ==
    ASSUME LiveInv, NEW c \in Sockets, NEW valid \in BOOLEAN, LookedUp(c, valid)
    PROVE  LiveInv'
<1> USE DEF LiveInv
<1>1. /\ lookups[c] \in 0..MaxLookups /\ lookups[c] > 0 /\ conn[c] # "new" /\ c \in Clients
      /\ conn[c] \in {"new", "open", "gone"}
  BY LiveAssumption DEF LookedUp, ConnTypes, LeftBehind, Clients, LiveAssumption
<1>2. /\ lookups' \in [Sockets -> 0..MaxLookups] /\ lookups'[c] = lookups[c] - 1
      /\ \A d \in Sockets : d # c => lookups'[d] = lookups[d]
  BY <1>1, LiveAssumption DEF LookedUp, ConnTypes, LiveAssumption
<1>3. CASE ~valid /\ conn[c] = "open"
  <2>1. /\ Goes(c, "gone") /\ Release(c, TRUE) /\ ping' = ping \ {c}
        /\ UNCHANGED <<serving, auth, subscribed>>
        /\ late' = IF lookups[c] > 1 THEN late \cup {c} ELSE late
    BY <1>3 DEF LookedUp
  <2>2. late \subseteq late' /\ late' \subseteq Sockets /\ (lookups'[c] > 0 => c \in late')
    BY <1>1, <1>2, <2>1 DEF ConnTypes
  <2> QED
    BY <1>1, <1>2, <1>3, <2>1, <2>2, ClosedStep
<1>4. CASE valid \/ conn[c] # "open"
  <2>1. /\ UNCHANGED <<serving, conn, handler, commands, subscribed, late>>
        /\ auth' \subseteq auth \cup {c} /\ ping' \subseteq ping \cup {c}
    BY <1>4 DEF LookedUp
  <2>2. SubInv'
    BY <2>1 DEF SubInv, SubTypes, InOrderOfIssue, Registered
  <2>3. ConnTypes'
    BY <1>1, <1>2, <2>1 DEF ConnTypes, Open
  <2>4. LeftBehind'
    BY <1>1, <1>2, <2>1 DEF LeftBehind
  <2> QED
    BY <2>1, <2>2, <2>3, <2>4
<1> QED
  BY <1>3, <1>4

LEMMA LiveStep == LiveInv /\ [LiveNext]_liveVars => LiveInv'
<1> SUFFICES ASSUME LiveInv, [LiveNext]_liveVars PROVE LiveInv'
  OBVIOUS
<1>1. Sockets \subseteq Clients /\ Streams \subseteq Clients /\ LiveInv
  BY DEF Clients
<1>2. ASSUME NEW c \in Sockets, OpenSocket(c) PROVE LiveInv'
  BY <1>2, OpenStep
<1>3. ASSUME NEW c \in Sockets, AuthAdmin(c) PROVE LiveInv'
  <2>1. SubInv'
    BY <1>3 DEF LiveInv, AuthAdmin, SubInv, SubTypes, InOrderOfIssue, Registered
  <2>2. ConnTypes' /\ LeftBehind'
    BY <1>1, <1>3 DEF LiveInv, AuthAdmin, ConnTypes, Open, LeftBehind
  <2> QED
    BY <1>3, <2>1, <2>2 DEF LiveInv, AuthAdmin
<1>4. ASSUME NEW c \in Sockets, AuthKey(c) PROVE LiveInv'
  <2>1. SubInv'
    BY <1>4 DEF LiveInv, AuthKey, SubInv, SubTypes, InOrderOfIssue, Registered
  <2>2. /\ lookups' \in [Sockets -> 0..MaxLookups]
        /\ \A d \in Sockets : d # c => lookups'[d] = lookups[d]
    BY <1>4, LiveAssumption DEF LiveInv, AuthKey, ConnTypes, LiveAssumption
  <2>3. ConnTypes'
    BY <1>4, <2>2 DEF LiveInv, AuthKey, ConnTypes, Open
  <2>4. LeftBehind'
    BY <1>1, <1>4, <2>2 DEF LiveInv, AuthKey, LeftBehind
  <2> QED
    BY <1>4, <2>1, <2>3, <2>4 DEF LiveInv, AuthKey
<1>5. ASSUME NEW c \in Clients, conn[c] = "open", Closing(c),
             UNCHANGED <<serving, auth, lookups, subscribed>>
      PROVE  LiveInv'
  <2>1. /\ late \subseteq late' /\ late' \subseteq Sockets
        /\ lookups' \in [Sockets -> 0..MaxLookups] /\ lookups' = lookups
        /\ (c \in Sockets /\ lookups'[c] > 0 => c \in late')
    BY <1>5 DEF LiveInv, Closing, ConnTypes
  <2>2. Goes(c, "gone") /\ Release(c, TRUE) /\ ping' = ping \ {c}
    BY <1>5 DEF Closing
  <2> QED
    BY <1>5, <2>1, <2>2, ClosedStep
<1>6. ASSUME NEW c \in Sockets, CloseSocket(c) \/ Refuse(c) PROVE LiveInv'
  BY <1>1, <1>5, <1>6 DEF CloseSocket, Refuse
<1>7. ASSUME NEW c \in Streams, CancelStream(c) PROVE LiveInv'
  BY <1>1, <1>5, <1>7 DEF CancelStream
<1>8. ASSUME NEW c \in Sockets, Unsubscribe(c) PROVE LiveInv'
  BY <1>1, <1>8, ReleasedStep DEF Unsubscribe
<1>9. ASSUME NEW c \in Streams, PingThrows(c) PROVE LiveInv'
  BY <1>1, <1>9, ReleasedStep DEF PingThrows
<1>10. ASSUME NEW c \in Clients, NEW ch \in Channels, NEW h \in Handlers,
              Subscribe(c, ch, h) \/ StartStream(c, ch, h)
       PROVE  LiveInv'
  BY <1>1, <1>10, RegisteredStep DEF Subscribe, StartStream
<1>11. CASE UNCHANGED liveVars
  BY <1>11 DEF liveVars, LiveInv, ConnTypes, SubInv, SubTypes, InOrderOfIssue, Registered,
               LeftBehind, Open
<1> QED
  BY <1>2, <1>3, <1>4, <1>6, <1>7, <1>8, <1>9, <1>10, <1>11, AnsweredStep, LookedUpStep
     DEF LiveNext

\* Type correctness of the live logs, for any number of connections, channels and
\* subscriptions: no more sockets are open than MAX_WS_CLIENTS (logs-ws.ts).
THEOREM LiveTypeCorrect == LiveSpec => []LiveTypeOK
<1>1. LiveInv => LiveTypeOK
  BY DEF LiveInv, ConnTypes, SubInv, SubTypes, LiveTypeOK, Commands
<1> QED
  BY <1>1, LiveInitInv, LiveStep, PTL DEF LiveSpec

\* Sharing one Redis subscriber loses nobody's lines, unless somebody else left the
\* same channel after the subscription was sent, and leaks no channel: commands
\* arrive in the order of their issue (log-pubsub.ts).
THEOREM SubscribersHear == LiveSpec => []HearsItsChannel
<1>1. LiveInv => HearsItsChannel
  <2> SUFFICES ASSUME LiveInv PROVE HearsItsChannel
    OBVIOUS
  <2>1. ASSUME commands = <<>>, NEW ch \in subscribed
        PROVE  \E h \in Handlers : Registered(h) /\ handler[h].ch = ch
    BY <2>1 DEF LiveInv, SubInv, InOrderOfIssue
  <2> QED
    BY <2>1 DEF LiveInv, SubInv, InOrderOfIssue, HearsItsChannel
<1> QED
  BY <1>1, LiveInitInv, LiveStep, PTL DEF LiveSpec

\* A socket that closed leaves behind only what was waiting for an answer when it
\* closed, through any interleaving with lookups and subscriptions (logs-ws.ts).
THEOREM ClosingCleansUp == LiveSpec => []OnlyLateLeftovers
<1>1. LiveInv => OnlyLateLeftovers
  BY DEF LiveInv, LeftBehind, OnlyLateLeftovers, HeldBy
<1> QED
  BY <1>1, LiveInitInv, LiveStep, PTL DEF LiveSpec

-----------------------------------------------------------------------------
(***************************************************************************)
(* The log worker.  Smallest stands in for the induction on a read of k    *)
(* lines: PushedIs and ReadKeeps look at the least number that goes wrong. *)
(***************************************************************************)

\* A set of numbers that is not empty has a smallest one.
LEMMA Smallest ==
    ASSUME NEW S, S \subseteq Nat, S # {}
    PROVE  \E n \in S : \A m \in S : n <= m
<1> DEFINE T == {1..n : n \in S}
<1>1. \A n \in S : 1..n \in FiniteSubsetsOf(Nat)
  <2> TAKE n \in S
  <2>1. n \in Int /\ 1 \in Int /\ 1..n \subseteq Nat
    OBVIOUS
  <2>2. IsFiniteSet(1..n)
    BY <2>1, FS_Interval
  <2> QED
    BY <2>1, <2>2 DEF FiniteSubsetsOf
<1>2. T \subseteq FiniteSubsetsOf(Nat) /\ T # {}
  BY <1>1
<1>3. PICK x \in T : \A y \in T : ~(<<y, x>> \in StrictSubsetOrdering(Nat))
  BY <1>2, FS_StrictSubsetOrderingWellFounded, WFMin
<1>4. PICK n \in S : x = 1..n
  BY <1>3
<1>5. ASSUME NEW m \in S, m < n PROVE FALSE
  <2>1. 1..m \in T /\ 1..m \subseteq 1..n /\ n \in 1..n /\ n \notin 1..m
    BY <1>5
  <2>2. 1..m \in SUBSET Nat /\ 1..n \in SUBSET Nat
    OBVIOUS
  <2>3. <<1..m, 1..n>> \in StrictSubsetOrdering(Nat)
    BY <2>1, <2>2 DEF StrictSubsetOrdering
  <2> QED
    BY <1>3, <1>4, <2>1, <2>3
<1> QED
  BY <1>5

\* What Pushed is defined to be.
LEMMA PushedIs ==
    /\ Pushed[0] = buffer
    /\ \A n \in 1..Chunk : Pushed[n] = Push(Pushed[n - 1])
<1> DEFINE Is(f, k) == f = [n \in 0..k |-> IF n = 0 THEN buffer ELSE Push(f[n - 1])]
           None == {k \in Nat : ~\E f : Is(f, k)}
<1>1. None = {}
  <2> SUFFICES ASSUME None # {} PROVE FALSE
    OBVIOUS
  <2>1. PICK k \in None : \A m \in None : k <= m
    BY Smallest
  <2>2. CASE k = 0
    <3> DEFINE g == [n \in 0..0 |-> buffer]
    <3>1. Is(g, 0)
      OBVIOUS
    <3> QED
      BY <2>1, <2>2, <3>1
  <2>3. CASE k # 0
    <3>1. k - 1 \in Nat /\ k - 1 \notin None
      <4>1. k \in Nat
        OBVIOUS
      <4> HIDE DEF None
      <4>2. k - 1 \in Nat /\ ~(k <= k - 1)
        BY <2>3, <4>1
      <4> QED
        BY <2>1, <4>2
    <3>2. PICK f : Is(f, k - 1)
      BY <3>1
    <3> DEFINE g == [n \in 0..k |-> IF n = 0 THEN buffer ELSE Push(f[n - 1])]
    <3>3. \A n \in 0..(k - 1) : f[n] = IF n = 0 THEN buffer ELSE Push(f[n - 1])
      BY <3>2
    <3>4. \A n \in 0..k : n # 0 => n - 1 \in 0..(k - 1) /\ n - 1 \in 0..k
      BY <3>1
    <3>5. \A n \in 0..(k - 1) : g[n] = f[n]
      BY <3>1, <3>3
    <3>6. \A n \in 0..k : n # 0 => g[n - 1] = f[n - 1]
      BY <3>4, <3>5
    <3>7. g = [n \in 0..k |-> IF n = 0 THEN buffer ELSE Push(g[n - 1])]
      BY <3>6
    <3> QED
      BY <2>1, <3>7
  <2> QED
    BY <2>2, <2>3
<1>2. \E f : Is(f, Chunk)
  BY <1>1, LogAssumption DEF LogAssumption
<1>3. Is(Pushed, Chunk)
  BY <1>2 DEF Pushed
<1> HIDE DEF None
<1> QED
  BY <1>3, LogAssumption DEF LogAssumption

\* The inserts that carry line l, and those that hold a slot.
In(b, l) == {i \in b.inserts : l \in Range(i.lines)}
Holding(b) == {i \in b.inserts : i.at \in Held}

\* A line that was accepted is in the batch, or it was published and is in one
\* insert at most.
Placed(b, l) ==
    /\ \A i, j \in In(b, l) : i = j
    /\ l \in Range(b.batch) => In(b, l) = {} /\ l \notin b.published /\ l < b.next
    /\ In(b, l) # {} => l \in b.published
    /\ l \in b.published => l < b.next
    /\ l < b.next => l \in Range(b.batch) \/ l \in b.published

BufferType == [batch : Seq(1..Lines), inserts : SUBSET Inserts, inFlight : Nat,
               published : SUBSET (1..Lines), next : 1..(Lines + 1)]

\* The slots are counted.
Counted(b) ==
    /\ IsFiniteSet(b.inserts) /\ b.inFlight = Cardinality(Holding(b))
    /\ MaxInserts > 0 => b.inFlight <= MaxInserts

\* What the table holds of a line, where it is.
Told(b, l) ==
    /\ l \in Range(b.batch) \/ l >= b.next => stored[l] = 0 /\ failures[l] = 0
    /\ \A i \in In(b, l) :
         /\ i.at \in {"waiting", "insert"} => stored[l] = 0 /\ failures[l] = 0
         /\ i.at \in {"pause", "retry"} => failures[l] = 1 /\ (stored[l] = 0 \/ (stored[l] = 1 /\ l \in unanswered))
    /\ l \in b.published /\ In(b, l) = {} =>
         (stored[l] > 0 \/ failures[l] = 2) /\ (stored[l] = 2 => l \in unanswered)

Sound(b) ==
    /\ b \in BufferType /\ Counted(b)
    /\ \A l \in 1..Lines : Placed(b, l) /\ Told(b, l)

LogInv ==
    /\ phase \in {"off", "listing", "on", "exited"}
    /\ stopping \in BOOLEAN /\ interval \in BOOLEAN
    /\ stream \in [Containers -> {"none", "attaching", "checking", "reading", "ended"}]
    /\ aborts \subseteq Containers
    /\ stored \in [1..Lines -> 0..2] /\ failures \in [1..Lines -> 0..2]
    /\ unanswered \subseteq 1..Lines
    /\ Sound(buffer)

LEMMA BufferIs ==
    ASSUME NEW b \in BufferType
    PROVE  /\ b.batch \in Seq(1..Lines) /\ DOMAIN b.batch = 1..Len(b.batch) /\ Len(b.batch) \in Nat
           /\ b.inserts \subseteq Inserts /\ b.inFlight \in Nat /\ b.published \subseteq 1..Lines
           /\ b.next \in Nat /\ b.next >= 1 /\ b.next <= Lines + 1
           /\ Range(b.batch) \subseteq 1..Lines
           /\ b.batch = <<>> <=> Range(b.batch) = {}
           /\ \A i \in b.inserts : /\ i.lines \in Seq(1..Lines) /\ i.lines # <<>> /\ i = [lines |-> i.lines, at |-> i.at]
                                   /\ i.at \in {"waiting", "insert", "pause", "retry"}
                                   /\ Range(i.lines) \subseteq 1..Lines /\ Range(i.lines) # {}
           /\ Lines \in Nat
<1>1. ASSUME NEW q \in Seq(1..Lines)
      PROVE  /\ DOMAIN q = 1..Len(q) /\ Len(q) \in Nat /\ Range(q) \subseteq 1..Lines
             /\ q = <<>> <=> Range(q) = {}
  <2> DEFINE L == 1..Lines
  <2>0. q \in Seq(L)
    OBVIOUS
  <2> HIDE DEF L
  <2>4. DOMAIN q = 1..Len(q) /\ Len(q) \in Nat /\ \A k \in 1..Len(q) : q[k] \in L
    BY <2>0
  <2>1. DOMAIN q = 1..Len(q) /\ Len(q) \in Nat /\ \A k \in 1..Len(q) : q[k] \in 1..Lines
    BY <2>4 DEF L
  <2>2. q = <<>> => Range(q) = {}
    BY DEF Range
  <2>3. q # <<>> => 1 \in DOMAIN q
    BY <2>1
  <2> QED
    BY <2>1, <2>2, <2>3 DEF Range
<1>2. b.inserts \subseteq Inserts /\ b.batch \in Seq(1..Lines)
  BY DEF BufferType
<1>3. \A i \in b.inserts : i.lines \in Seq(1..Lines) /\ i.lines # <<>> /\ i = [lines |-> i.lines, at |-> i.at]
                           /\ i.at \in {"waiting", "insert", "pause", "retry"}
  BY <1>2 DEF Inserts
<1> QED
  BY <1>1, <1>2, <1>3, LogAssumption DEF BufferType, LogAssumption

\* A line goes into the batch.
LEMMA PushedKeeps ==
    ASSUME NEW b, Sound(b), b.next <= Lines,
           NEW c, c = [b EXCEPT !.batch = Append(b.batch, b.next), !.next = b.next + 1]
    PROVE  Sound(c) /\ c.next = b.next + 1
<1> DEFINE n == b.next
<1>1. b \in BufferType /\ n \in Nat /\ n >= 1 /\ n <= Lines /\ Lines \in Nat
      /\ b.batch \in Seq(1..Lines) /\ Range(b.batch) \subseteq 1..Lines
  BY BufferIs DEF Sound
<1>2. c.batch = Append(b.batch, n) /\ c.next = n + 1 /\ c.inserts = b.inserts
      /\ c.inFlight = b.inFlight /\ c.published = b.published
  BY <1>1 DEF BufferType
<1>3. n \in 1..Lines /\ n + 1 \in 1..(Lines + 1) /\ Append(b.batch, n) \in Seq(1..Lines)
  BY <1>1
<1>4. c \in BufferType
  BY <1>1, <1>3 DEF BufferType
<1>5. Range(c.batch) = Range(b.batch) \cup {n}
  <2> DEFINE q == b.batch
             a == Append(q, n)
  <2>1. DOMAIN q = 1..Len(q) /\ Len(q) \in Nat /\ DOMAIN a = 1..(Len(q) + 1)
        /\ a[Len(q) + 1] = n /\ \A k \in 1..Len(q) : a[k] = q[k]
    BY <1>1
  <2> HIDE DEF a, q
  <2>2. \A k \in 1..(Len(q) + 1) : k = Len(q) + 1 \/ k \in 1..Len(q)
    BY <2>1
  <2>3. \A k \in 1..Len(q) : k \in 1..(Len(q) + 1)
    BY <2>1
  <2>4. Len(q) + 1 \in 1..(Len(q) + 1)
    BY <2>1
  <2>5. Range(a) = Range(q) \cup {n}
    BY <2>1, <2>2, <2>3, <2>4 DEF Range
  <2> QED
    BY <1>2, <2>5 DEF a, q
<1>6. \A l : In(c, l) = In(b, l)
  BY <1>2 DEF In
<1>7. Counted(c)
  BY <1>2 DEF Sound, Counted, Holding
<1>8. ASSUME NEW l \in 1..Lines PROVE Placed(c, l) /\ Told(c, l)
  <2>1. Placed(b, l) /\ Told(b, l) /\ l \in Nat /\ (l < n + 1 <=> l < n \/ l = n) /\ (l >= n + 1 => l >= n)
    BY <1>1 DEF Sound
  <2>2. CASE l = n
    <3>1. In(b, l) = {} /\ l \notin b.published /\ ~(l < n) /\ l < n + 1 /\ l >= n
      BY <1>1, <2>1, <2>2 DEF Placed
    <3>2. Placed(c, l)
      BY <1>2, <1>5, <1>6, <2>2, <3>1 DEF Placed
    <3>3. stored[l] = 0 /\ failures[l] = 0
      BY <2>1, <2>2, <3>1 DEF Told
    <3> QED
      BY <1>2, <1>6, <3>1, <3>2, <3>3 DEF Told
  <2>3. CASE l # n
    <3>1. l \in Range(c.batch) <=> l \in Range(b.batch)
      BY <1>5, <2>3
    <3>2. Placed(c, l)
      BY <1>2, <1>6, <2>1, <2>3, <3>1 DEF Placed
    <3>3. Told(c, l)
      BY <1>2, <1>6, <2>1, <2>3, <3>1 DEF Told
    <3> QED
      BY <3>2, <3>3
  <2> QED
    BY <2>2, <2>3
<1> QED
  BY <1>2, <1>4, <1>7, <1>8 DEF Sound

\* The batch becomes an insert.
LEMMA FlushKeeps ==
    ASSUME NEW b, Sound(b)
    PROVE  Sound(Flush(b)) /\ Flush(b).next = b.next
<1>1. CASE b.batch = <<>>
  BY <1>1 DEF Flush
<1>2. CASE b.batch # <<>>
  <2> DEFINE free == SlotFree(b)
             i == [lines |-> b.batch, at |-> IF free THEN "insert" ELSE "waiting"]
             c == [b EXCEPT !.batch = <<>>, !.inserts = b.inserts \cup {i},
                            !.inFlight = IF free THEN b.inFlight + 1 ELSE b.inFlight,
                            !.published = b.published \cup Range(b.batch)]
  <2>1. Flush(b) = c
    BY <1>2 DEF Flush
  <2>2. b \in BufferType /\ Counted(b)
    BY DEF Sound
  <2>3. /\ b.batch \in Seq(1..Lines) /\ b.inFlight \in Nat /\ b.next \in Nat
        /\ b.inserts \subseteq Inserts /\ b.published \subseteq 1..Lines /\ Range(b.batch) \subseteq 1..Lines
        /\ Range(b.batch) # {} /\ \A j \in b.inserts : Range(j.lines) \subseteq 1..Lines
    BY <1>2, <2>2, BufferIs
  <2>4. i.lines = b.batch /\ i.at = IF free THEN "insert" ELSE "waiting"
    OBVIOUS
  <2>5. i \in Inserts
    BY <1>2, <2>3 DEF Inserts
  <2> HIDE DEF i
  <2>6. /\ c.batch = <<>> /\ c.inserts = b.inserts \cup {i} /\ c.next = b.next
        /\ c.inFlight = IF free THEN b.inFlight + 1 ELSE b.inFlight
        /\ c.published = b.published \cup Range(b.batch)
    BY <2>2 DEF BufferType
  <2>7. c \in BufferType
    <3>1. <<>> \in Seq(1..Lines) /\ b.inserts \cup {i} \in SUBSET Inserts
          /\ (IF free THEN b.inFlight + 1 ELSE b.inFlight) \in Nat
          /\ b.published \cup Range(b.batch) \in SUBSET (1..Lines)
      BY <2>3, <2>5
    <3> HIDE DEF free
    <3> QED
      BY <2>2, <3>1 DEF BufferType
  <2> HIDE DEF c
  <2>8. i \notin b.inserts
    <3> SUFFICES ASSUME i \in b.inserts PROVE FALSE
      OBVIOUS
    <3>1. PICK l \in 1..Lines : l \in Range(b.batch)
      BY <2>3
    <3>2. i \in In(b, l)
      BY <2>4, <3>1 DEF In
    <3> QED
      BY <3>1, <3>2 DEF Sound, Placed
  <2>9. Counted(c)
    <3>1. IsFiniteSet(c.inserts)
      <4>1. IsFiniteSet(b.inserts)
        BY <2>2 DEF Counted
      <4>2. IsFiniteSet(b.inserts \cup {i})
        BY <4>1, FS_AddElement
      <4> QED
        BY <2>6, <4>2
    <3>2. CASE free
      <4>1. Holding(c) = Holding(b) \cup {i} /\ i \notin Holding(b)
        BY <2>4, <2>6, <2>8, <3>2 DEF Holding, Held
      <4>2. IsFiniteSet(Holding(b))
        BY <2>2, FS_Subset DEF Counted, Holding
      <4>3. Cardinality(Holding(c)) = Cardinality(Holding(b)) + 1
        BY <4>1, <4>2, FS_AddElement
      <4>4. MaxInserts > 0 => b.inFlight + 1 <= MaxInserts
        BY <2>3, <3>2, LogAssumption DEF SlotFree, LogAssumption
      <4> QED
        BY <2>2, <2>6, <3>1, <3>2, <4>3, <4>4 DEF Counted
    <3>3. CASE ~free
      <4>1. Holding(c) = Holding(b)
        BY <2>4, <2>6, <3>3 DEF Holding, Held
      <4> QED
        BY <2>2, <2>6, <3>1, <3>3, <4>1 DEF Counted
    <3> QED
      BY <3>2, <3>3
  <2>10. Range(c.batch) = {}
    BY <2>6 DEF Range
  <2>11. ASSUME NEW l \in 1..Lines PROVE Placed(c, l) /\ Told(c, l)
    <3>1. Placed(b, l) /\ Told(b, l)
      BY DEF Sound
    <3>2. CASE l \in Range(b.batch)
      <4>1. In(c, l) = {i}
        BY <2>4, <2>6, <3>1, <3>2 DEF In, Placed
      <4>2. Placed(c, l)
        BY <2>6, <2>10, <3>1, <3>2, <4>1 DEF Placed
      <4>3. stored[l] = 0 /\ failures[l] = 0 /\ i.at \in {"waiting", "insert"}
        BY <2>4, <3>1, <3>2 DEF Told
      <4> QED
        BY <2>6, <2>10, <4>1, <4>2, <4>3 DEF Told
    <3>3. CASE l \notin Range(b.batch)
      <4>1. In(c, l) = In(b, l)
        BY <2>4, <2>6, <3>3 DEF In
      <4> QED
        BY <2>6, <2>10, <3>1, <3>3, <4>1 DEF Placed, Told
    <3> QED
      BY <3>2, <3>3
  <2> QED
    BY <2>1, <2>6, <2>7, <2>9, <2>11 DEF Sound
<1> QED
  BY <1>1, <1>2

LEMMA PushKeeps ==
    ASSUME NEW b, Sound(b), b.next <= Lines
    PROVE  Sound(Push(b)) /\ Push(b).next = b.next + 1
<1> DEFINE c == [b EXCEPT !.batch = Append(b.batch, b.next), !.next = b.next + 1]
<1>1. Sound(c) /\ c.next = b.next + 1
  BY PushedKeeps
<1>2. Push(b) = IF Len(c.batch) >= BatchMax THEN Flush(c) ELSE c
  BY DEF Push
<1> HIDE DEF c
<1> QED
  BY <1>1, <1>2, FlushKeeps

\* However many lines a read brings.
LEMMA ReadKeeps ==
    ASSUME Sound(buffer), NEW k \in 0..Chunk, buffer.next + k <= Lines + 1
    PROVE  Sound(Pushed[k])
<1> DEFINE Wrong == {n \in 0..k : ~(Sound(Pushed[n]) /\ Pushed[n].next = buffer.next + n)}
<1>1. Chunk \in Nat /\ Lines \in Nat /\ buffer.next \in Nat
  BY LogAssumption, BufferIs DEF LogAssumption, Sound
<1>2. SUFFICES ASSUME Wrong # {} PROVE FALSE
  BY <1>1
<1>3. PICK n \in Wrong : \A m \in Wrong : n <= m
  <2>1. Wrong \subseteq Nat
    BY <1>1
  <2> HIDE DEF Wrong
  <2> QED
    BY <1>2, <2>1, Smallest
<1>4. n \in 0..k /\ n \in Nat
  BY <1>1, <1>3
<1>5. n # 0
  BY <1>1, <1>3, PushedIs
<1>6. n - 1 \in 0..k /\ n \in 1..Chunk /\ ~(n <= n - 1)
  BY <1>1, <1>4, <1>5
<1>7. n - 1 \notin Wrong
  BY <1>3, <1>6
<1>8. Sound(Pushed[n - 1]) /\ Pushed[n - 1].next = buffer.next + (n - 1)
  BY <1>6, <1>7
<1>9. buffer.next + (n - 1) <= Lines /\ (buffer.next + (n - 1)) + 1 = buffer.next + n
  BY <1>1, <1>4
<1>10. Pushed[n] = Push(Pushed[n - 1])
  BY <1>6, PushedIs
<1>11. Sound(Pushed[n]) /\ Pushed[n].next = buffer.next + n
  BY <1>8, <1>9, <1>10, PushKeeps
<1> QED
  BY <1>3, <1>11

\* The insert i comes to another point.
LEMMA MovesIs ==
    ASSUME LogInv, NEW i \in buffer.inserts, NEW to \in {"waiting", "insert", "pause", "retry"},
           NEW c, c.inserts = Moves(i, to)
    PROVE  \E j \in Inserts :
             /\ j.lines = i.lines /\ j.at = to
             /\ c.inserts \subseteq Inserts /\ IsFiniteSet(c.inserts)
             /\ \A l \in 1..Lines : In(c, l) = IF l \in Range(i.lines) THEN {j} ELSE In(buffer, l)
             /\ i.at \in Held /\ to \in Held => Cardinality(Holding(c)) = Cardinality(Holding(buffer))
             /\ i.at \notin Held /\ to \in Held => Cardinality(Holding(c)) = Cardinality(Holding(buffer)) + 1
<1> DEFINE b == buffer
           j == [i EXCEPT !.at = to]
<1>1. b \in BufferType /\ Counted(b) /\ \A l \in 1..Lines : Placed(b, l)
  BY DEF LogInv, Sound
<1>2. i \in Inserts /\ b.inserts \subseteq Inserts /\ Range(i.lines) \subseteq 1..Lines /\ Range(i.lines) # {}
  BY <1>1, BufferIs
<1>3. j \in Inserts /\ j.lines = i.lines /\ j.at = to
  BY <1>2 DEF Inserts
<1>4. c.inserts = (b.inserts \ {i}) \cup {j}
  BY DEF Moves
<1> HIDE DEF j
<1>5. j \notin b.inserts \ {i}
  <2> SUFFICES ASSUME j \in b.inserts, j # i PROVE FALSE
    OBVIOUS
  <2>1. PICK l \in 1..Lines : l \in Range(i.lines)
    BY <1>2
  <2>2. i \in In(b, l) /\ j \in In(b, l)
    BY <1>3, <2>1 DEF In
  <2> QED
    BY <1>1, <2>2 DEF Placed
<1>6. ASSUME NEW l \in 1..Lines PROVE In(c, l) = IF l \in Range(i.lines) THEN {j} ELSE In(b, l)
  <2>1. CASE l \in Range(i.lines)
    <3>1. i \in In(b, l)
      BY <2>1 DEF In
    <3>2. In(b, l) = {i}
      BY <1>1, <3>1 DEF Placed
    <3> QED
      BY <1>3, <1>4, <2>1, <3>2 DEF In
  <2>2. CASE l \notin Range(i.lines)
    BY <1>3, <1>4, <2>2 DEF In
  <2> QED
    BY <2>1, <2>2
<1>7. IsFiniteSet(b.inserts) /\ IsFiniteSet(b.inserts \ {i})
  BY <1>1, FS_Subset DEF Counted
<1>8. IsFiniteSet(c.inserts)
  <2> DEFINE I == b.inserts \ {i}
  <2>1. IsFiniteSet(I) /\ c.inserts = I \cup {j}
    BY <1>4, <1>7
  <2> HIDE DEF I
  <2>2. IsFiniteSet(I \cup {j})
    BY <2>1, FS_AddElement
  <2> QED
    BY <2>1, <2>2
<1>9. IsFiniteSet(Holding(b)) /\ Cardinality(Holding(b)) \in Nat
  BY <1>7, FS_Subset, FS_CardinalityType DEF Holding
<1>10. ASSUME i.at \in Held, to \in Held PROVE Cardinality(Holding(c)) = Cardinality(Holding(b))
  <2> DEFINE H == Holding(b) \ {i}
  <2>1. i \in Holding(b) /\ Holding(c) = H \cup {j} /\ j \notin H
    BY <1>3, <1>4, <1>5, <1>10 DEF Holding
  <2>2. IsFiniteSet(H) /\ Cardinality(H) = Cardinality(Holding(b)) - 1
    BY <1>9, <2>1, FS_RemoveElement
  <2>3. Cardinality(Holding(c)) = Cardinality(H) + 1
    BY <2>1, <2>2, FS_AddElement
  <2> QED
    BY <1>9, <2>2, <2>3
<1>11. ASSUME i.at \notin Held, to \in Held PROVE Cardinality(Holding(c)) = Cardinality(Holding(b)) + 1
  <2>1. Holding(c) = Holding(b) \cup {j} /\ j \notin Holding(b)
    BY <1>3, <1>4, <1>5, <1>11 DEF Holding
  <2> QED
    BY <1>9, <2>1, FS_AddElement
<1> QED
  BY <1>2, <1>3, <1>4, <1>6, <1>8, <1>10, <1>11

\* The insert i is over.
LEMMA OverIs ==
    ASSUME LogInv, NEW i \in buffer.inserts, i.at \in Held, NEW c, c = Over(i)
    PROVE  /\ c \in BufferType /\ Counted(c)
           /\ c.batch = buffer.batch /\ c.published = buffer.published /\ c.next = buffer.next
           /\ \A l \in 1..Lines : In(c, l) = IF l \in Range(i.lines) THEN {} ELSE In(buffer, l)
<1> DEFINE b == buffer
<1>1. b \in BufferType /\ Counted(b) /\ \A l \in 1..Lines : Placed(b, l)
  BY DEF LogInv, Sound
<1>2. b.inserts \subseteq Inserts /\ b.inFlight \in Nat
  BY <1>1, BufferIs
<1>3. i \in Holding(b) /\ IsFiniteSet(b.inserts) /\ IsFiniteSet(Holding(b))
  BY <1>1, FS_Subset DEF Counted, Holding
<1>4. Cardinality(Holding(b) \ {i}) = b.inFlight - 1 /\ Cardinality(Holding(b) \ {i}) \in Nat
  BY <1>1, <1>3, FS_RemoveElement, FS_Subset, FS_CardinalityType DEF Counted
<1>5. c = [b EXCEPT !.inserts = b.inserts \ {i}, !.inFlight = b.inFlight - 1]
  BY DEF Over
<1>6. /\ c.inserts = b.inserts \ {i} /\ c.inFlight = b.inFlight - 1
      /\ c.batch = b.batch /\ c.published = b.published /\ c.next = b.next
  BY <1>1, <1>5 DEF BufferType
<1>7. c \in BufferType
  BY <1>1, <1>2, <1>4, <1>5 DEF BufferType
<1>8. Holding(c) = Holding(b) \ {i} /\ IsFiniteSet(c.inserts)
  BY <1>3, <1>6, FS_Subset DEF Holding
<1>9. Counted(c)
  BY <1>1, <1>2, <1>4, <1>6, <1>8, LogAssumption DEF Counted, LogAssumption
<1>10. ASSUME NEW l \in 1..Lines PROVE In(c, l) = IF l \in Range(i.lines) THEN {} ELSE In(b, l)
  <2>1. CASE l \in Range(i.lines)
    <3>1. i \in In(b, l)
      BY <2>1 DEF In
    <3> QED
      BY <1>1, <1>6, <2>1, <3>1 DEF In, Placed
  <2>2. CASE l \notin Range(i.lines)
    BY <1>6, <2>2 DEF In
  <2> QED
    BY <2>1, <2>2
<1> QED
  BY <1>6, <1>7, <1>9, <1>10

\* A step that touches neither the table nor what is known of it.
LEMMA SoundAgain ==
    ASSUME Sound(buffer'), UNCHANGED <<stored, failures, unanswered>>
    PROVE  Sound(buffer)'
  BY DEF Sound, BufferType, Counted, Holding, Placed, In, Told, Held, Inserts

\* A step after which the insert i is at another point, or over.
LEMMA PlacedAgain ==
    ASSUME LogInv, NEW i \in buffer.inserts, NEW new, NEW c,
           \A j, k \in new : j = k,
           c.batch = buffer.batch, c.published = buffer.published, c.next = buffer.next,
           NEW l \in 1..Lines, In(c, l) = IF l \in Range(i.lines) THEN new ELSE In(buffer, l)
    PROVE  /\ Placed(c, l)
           /\ l \in Range(i.lines) => i \in In(buffer, l) /\ In(buffer, l) = {i} /\ l \notin Range(buffer.batch)
                                      /\ l \in buffer.published /\ l < buffer.next
<1>1. Placed(buffer, l) /\ (l \in Range(i.lines) => i \in In(buffer, l))
  BY DEF LogInv, Sound, In
<1>2. l \in Range(i.lines) => i \in In(buffer, l) /\ In(buffer, l) = {i} /\ l \notin Range(buffer.batch)
                              /\ l \in buffer.published /\ l < buffer.next
  BY <1>1 DEF Placed
<1>3. CASE l \in Range(i.lines)
  BY <1>2, <1>3 DEF Placed
<1>4. CASE l \notin Range(i.lines)
  BY <1>1, <1>4 DEF Placed
<1> QED
  BY <1>2, <1>3, <1>4

LEMMA TakeOrAgain ==
    ASSUME LogInv, NEW i \in buffer.inserts, TakeSlot(i) \/ InsertAgain(i) PROVE LogInv'
<1> DEFINE b == buffer
<1>1. PICK to, slots : /\ \/ i.at = "waiting" /\ to = "insert" /\ slots = b.inFlight + 1 /\ SlotFree(b)
                          \/ i.at = "pause" /\ to = "retry" /\ slots = b.inFlight
                       /\ buffer' = [b EXCEPT !.inserts = Moves(i, to), !.inFlight = slots]
                       /\ UNCHANGED <<phase, stopping, interval, stream, aborts, stored, failures, unanswered>>
  <2>1. CASE TakeSlot(i)
    BY <2>1 DEF TakeSlot
  <2>2. CASE InsertAgain(i)
    <3>1. [b EXCEPT !.inserts = Moves(i, "retry"), !.inFlight = b.inFlight] = [b EXCEPT !.inserts = Moves(i, "retry")]
      BY DEF LogInv, Sound, BufferType
    <3> QED
      BY <2>2, <3>1 DEF InsertAgain
  <2> QED
    BY <2>1, <2>2
<1>2. b \in BufferType /\ Counted(b) /\ b.inFlight \in Nat /\ slots \in Nat
  BY <1>1, BufferIs DEF LogInv, Sound
<1> DEFINE c == [b EXCEPT !.inserts = Moves(i, to), !.inFlight = slots]
<1>3. /\ c.inserts = Moves(i, to) /\ c.inFlight = slots
      /\ c.batch = b.batch /\ c.published = b.published /\ c.next = b.next
  BY <1>2 DEF BufferType
<1>4. to \in {"waiting", "insert", "pause", "retry"}
  BY <1>1
<1>10. c = [b EXCEPT !.inserts = Moves(i, to), !.inFlight = slots] /\ buffer' = c
  BY <1>1
<1> HIDE DEF c
<1>5. PICK j \in Inserts :
             /\ j.lines = i.lines /\ j.at = to
             /\ c.inserts \subseteq Inserts /\ IsFiniteSet(c.inserts)
             /\ \A l \in 1..Lines : In(c, l) = IF l \in Range(i.lines) THEN {j} ELSE In(buffer, l)
             /\ i.at \in Held /\ to \in Held => Cardinality(Holding(c)) = Cardinality(Holding(buffer))
             /\ i.at \notin Held /\ to \in Held => Cardinality(Holding(c)) = Cardinality(Holding(buffer)) + 1
  BY <1>3, <1>4, MovesIs
<1>6. c \in BufferType
  BY <1>2, <1>3, <1>5, <1>10 DEF BufferType
<1>8. Counted(c)
  BY <1>1, <1>2, <1>3, <1>5, LogAssumption DEF Counted, Held, SlotFree, LogAssumption
<1>9. ASSUME NEW l \in 1..Lines PROVE Placed(c, l) /\ Told(c, l)
  <2>1. Placed(c, l) /\ (l \in Range(i.lines) => i \in In(buffer, l) /\ l \notin Range(buffer.batch) /\ l < buffer.next)
    <3> DEFINE new == {j}
    <3>1. In(c, l) = IF l \in Range(i.lines) THEN new ELSE In(buffer, l)
      BY <1>5
    <3>2. \A k, m \in new : k = m
      OBVIOUS
    <3>3. c.batch = buffer.batch /\ c.published = buffer.published /\ c.next = buffer.next
      BY <1>3
    <3> HIDE DEF new
    <3> QED
      BY <3>1, <3>2, <3>3, PlacedAgain
  <2>2. Told(b, l) /\ b.next \in Nat /\ l \in Nat
    BY <1>2, BufferIs DEF LogInv, Sound
  <2>3. CASE l \in Range(i.lines)
    <3>1. In(c, l) = {j}
      BY <1>5, <2>3
    <3>2. /\ i.at \in {"waiting", "insert"} => stored[l] = 0 /\ failures[l] = 0
          /\ i.at \in {"pause", "retry"} => failures[l] = 1 /\ (stored[l] = 0 \/ (stored[l] = 1 /\ l \in unanswered))
      BY <2>1, <2>2, <2>3 DEF Told
    <3>3. \/ j.at = "insert" /\ i.at = "waiting"
          \/ j.at = "retry" /\ i.at = "pause"
      BY <1>1, <1>5
    <3>4. ~(l >= b.next)
      BY <2>1, <2>2, <2>3
    <3> QED
      BY <1>3, <2>1, <2>3, <3>1, <3>2, <3>3, <3>4 DEF Told
  <2>4. CASE l \notin Range(i.lines)
    <3>1. In(c, l) = In(b, l)
      BY <1>5, <2>4
    <3> QED
      BY <1>3, <2>1, <2>2, <3>1 DEF Told
  <2> QED
    BY <2>3, <2>4
<1>11. Sound(buffer')
  BY <1>6, <1>8, <1>9, <1>10 DEF Sound
<1> QED
  BY <1>1, <1>11, SoundAgain DEF LogInv


\* What the history says of a line of an insert that is under way.
LEMMA LineIs ==
    ASSUME LogInv, NEW i \in buffer.inserts, NEW l \in Range(i.lines), i.at \in {"insert", "retry"}
    PROVE  /\ l \in 1..Lines /\ l \notin Range(buffer.batch) /\ l \in buffer.published /\ l < buffer.next
           /\ i.at = "insert" => stored[l] = 0 /\ failures[l] = 0
           /\ i.at = "retry" => failures[l] = 1 /\ (stored[l] = 0 \/ (stored[l] = 1 /\ l \in unanswered))
<1>1. buffer \in BufferType /\ Range(i.lines) \subseteq 1..Lines
  BY BufferIs DEF LogInv, Sound
<1>2. Placed(buffer, l) /\ Told(buffer, l) /\ i \in In(buffer, l)
  BY <1>1 DEF LogInv, Sound, In
<1> QED
  BY <1>1, <1>2 DEF Placed, Told

\* An insert ends, or fails for the first time.
LEMMA EndKeeps ==
    ASSUME LogInv, NEW i \in buffer.inserts, i.at \in {"insert", "retry"},
           UNCHANGED <<phase, stopping, interval, stream, aborts>>,
           NEW c \in BufferType, buffer' = c, Counted(c),
           c.batch = buffer.batch, c.published = buffer.published, c.next = buffer.next,
           NEW new, \A j, k \in new : j = k, \A j \in new : j.at = "pause",
           \A l \in 1..Lines : In(c, l) = IF l \in Range(i.lines) THEN new ELSE In(buffer, l),
           stored' \in [1..Lines -> 0..2], failures' \in [1..Lines -> 0..2], unanswered' \subseteq 1..Lines,
           \A l \in 1..Lines \ Range(i.lines) :
               stored'[l] = stored[l] /\ failures'[l] = failures[l] /\ (l \in unanswered' <=> l \in unanswered),
           \A l \in Range(i.lines) :
               /\ new # {} => failures'[l] = 1 /\ (stored'[l] = 0 \/ (stored'[l] = 1 /\ l \in unanswered'))
               /\ new = {} => (stored'[l] > 0 \/ failures'[l] = 2) /\ (stored'[l] = 2 => l \in unanswered')
    PROVE  LogInv'
<1>1. ASSUME NEW l \in 1..Lines PROVE Placed(buffer, l)' /\ Told(buffer, l)'
  <2>1. In(c, l) = IF l \in Range(i.lines) THEN new ELSE In(buffer, l)
    OBVIOUS
  <2>2. Placed(c, l)
    BY <2>1, PlacedAgain
  <2>3. In(buffer, l)' = In(c, l)
    BY DEF In
  <2>4. Placed(buffer, l)'
    BY <2>2, <2>3 DEF Placed
  <2>5. CASE l \in Range(i.lines)
    <3>1. l \notin Range(buffer.batch) /\ l \in buffer.published /\ l < buffer.next /\ buffer.next \in Nat
      BY <2>5, LineIs, BufferIs DEF LogInv, Sound
    <3>2. ~(l >= c.next) /\ l \notin Range(c.batch)
      BY <3>1
    <3>3. In(c, l) = new
      BY <2>1, <2>5
    <3> QED
      BY <2>3, <2>4, <2>5, <3>2, <3>3 DEF Told
  <2>6. CASE l \notin Range(i.lines)
    <3>1. Told(buffer, l) /\ In(c, l) = In(buffer, l)
      BY <2>1, <2>6 DEF LogInv, Sound
    <3>2. stored'[l] = stored[l] /\ failures'[l] = failures[l] /\ (l \in unanswered' <=> l \in unanswered)
      BY <2>6
    <3> QED
      BY <2>3, <2>4, <3>1, <3>2 DEF Told
  <2> QED
    BY <2>5, <2>6
<1>2. buffer' \in BufferType /\ Counted(buffer)'
  BY DEF Counted, Holding
<1>3. Sound(buffer)'
  BY <1>1, <1>2 DEF Sound, BufferType, Inserts
<1> QED
  BY <1>3 DEF LogInv

LEMMA InsertedStep == ASSUME LogInv, NEW i \in buffer.inserts, Inserted(i) PROVE LogInv'
<1> DEFINE c == Over(i)
<1>1. /\ i.at \in {"insert", "retry"} /\ stored' = Rows(i) /\ buffer' = c
      /\ UNCHANGED <<phase, stopping, interval, stream, aborts, failures, unanswered>>
  BY DEF Inserted
<1>2. i.at \in Held
  BY <1>1 DEF Held
<1>3. /\ c \in BufferType /\ Counted(c)
      /\ c.batch = buffer.batch /\ c.published = buffer.published /\ c.next = buffer.next
      /\ \A l \in 1..Lines : In(c, l) = IF l \in Range(i.lines) THEN {} ELSE In(buffer, l)
  BY <1>2, OverIs
<1> HIDE DEF c
<1>4. Range(i.lines) \subseteq 1..Lines
  BY BufferIs DEF LogInv, Sound
<1>5. \A l \in 1..Lines : stored[l] \in 0..2 /\ stored'[l] = stored[l] + IF l \in Range(i.lines) THEN 1 ELSE 0
  BY <1>1 DEF Rows, LogInv
<1>6. \A l \in Range(i.lines) : stored'[l] = stored[l] + 1 /\ (stored[l] = 0 \/ (stored[l] = 1 /\ l \in unanswered))
  BY <1>1, <1>4, <1>5, LineIs
<1>7. \A l \in 1..Lines \ Range(i.lines) : stored'[l] = stored[l]
  BY <1>5
<1>8. stored' \in [1..Lines -> 0..2]
  <2>1. stored' = [l \in 1..Lines |-> stored'[l]]
    BY <1>1 DEF Rows
  <2>2. \A l \in 1..Lines : stored'[l] \in 0..2
    BY <1>5, <1>6, <1>7
  <2> QED
    BY <2>1, <2>2
<1>9. \A l \in Range(i.lines) : stored'[l] > 0 /\ (stored'[l] = 2 => l \in unanswered')
  BY <1>1, <1>6
<1>10. failures' \in [1..Lines -> 0..2] /\ unanswered' \subseteq 1..Lines
  BY <1>1 DEF LogInv
<1> DEFINE new == {}
<1>11. /\ \A j, k \in new : j = k
       /\ \A j \in new : j.at = "pause"
       /\ \A l \in 1..Lines : In(c, l) = IF l \in Range(i.lines) THEN new ELSE In(buffer, l)
  BY <1>3
<1>12. \A l \in Range(i.lines) :
         /\ new # {} => failures'[l] = 1 /\ (stored'[l] = 0 \/ (stored'[l] = 1 /\ l \in unanswered'))
         /\ new = {} => (stored'[l] > 0 \/ failures'[l] = 2) /\ (stored'[l] = 2 => l \in unanswered')
  BY <1>9
<1>13. \A l \in 1..Lines \ Range(i.lines) :
         stored'[l] = stored[l] /\ failures'[l] = failures[l] /\ (l \in unanswered' <=> l \in unanswered)
  BY <1>1, <1>7
<1>14. buffer' = c /\ UNCHANGED <<phase, stopping, interval, stream, aborts>>
  BY <1>1 DEF c
<1>15. i.at \in {"insert", "retry"}
  BY <1>1
<1> HIDE DEF new
<1> QED
  BY <1>3, <1>8, <1>10, <1>11, <1>12, <1>13, <1>14, <1>15, EndKeeps

LEMMA InsertFailsStep == ASSUME LogInv, NEW i \in buffer.inserts, NEW kept \in BOOLEAN, InsertFails(i, kept) PROVE LogInv'
<1> DEFINE b == buffer
<1>1. /\ i.at \in {"insert", "retry"}
      /\ stored' = IF kept THEN Rows(i) ELSE stored
      /\ unanswered' = IF kept THEN unanswered \cup Range(i.lines) ELSE unanswered
      /\ failures' = [l \in 1..Lines |-> failures[l] + IF l \in Range(i.lines) THEN 1 ELSE 0]
      /\ buffer' = IF i.at = "insert" THEN [b EXCEPT !.inserts = Moves(i, "pause")] ELSE Over(i)
      /\ UNCHANGED <<phase, stopping, interval, stream, aborts>>
  BY DEF InsertFails
<1>2. b \in BufferType /\ Counted(b) /\ Range(i.lines) \subseteq 1..Lines
  BY BufferIs DEF LogInv, Sound
<1>3. \A l \in 1..Lines : /\ stored[l] \in 0..2 /\ failures[l] \in 0..2
                          /\ stored'[l] = stored[l] + IF l \in Range(i.lines) /\ kept THEN 1 ELSE 0
                          /\ failures'[l] = failures[l] + IF l \in Range(i.lines) THEN 1 ELSE 0
  BY <1>1 DEF Rows, LogInv
<1>4. \A l \in Range(i.lines) :
        /\ i.at = "insert" => stored[l] = 0 /\ failures[l] = 0
        /\ i.at = "retry" => failures[l] = 1 /\ (stored[l] = 0 \/ (stored[l] = 1 /\ l \in unanswered))
        /\ stored'[l] = stored[l] + (IF kept THEN 1 ELSE 0) /\ failures'[l] = failures[l] + 1
        /\ kept => l \in unanswered'
        /\ l \in unanswered => l \in unanswered'
  BY <1>1, <1>2, <1>3, LineIs
<1>5. \A l \in 1..Lines \ Range(i.lines) :
        stored'[l] = stored[l] /\ failures'[l] = failures[l] /\ (l \in unanswered' <=> l \in unanswered)
  BY <1>1, <1>3
<1>6. stored' \in [1..Lines -> 0..2] /\ failures' \in [1..Lines -> 0..2] /\ unanswered' \subseteq 1..Lines
  <2>1. stored' = [l \in 1..Lines |-> stored'[l]] /\ failures' = [l \in 1..Lines |-> failures'[l]]
    BY <1>1 DEF Rows, LogInv
  <2>2. \A l \in 1..Lines : stored'[l] \in 0..2 /\ failures'[l] \in 0..2
    BY <1>1, <1>3, <1>4, <1>5
  <2>3. unanswered' \subseteq 1..Lines
    BY <1>1, <1>2 DEF LogInv
  <2> QED
    BY <2>1, <2>2, <2>3
<1>7. CASE i.at = "insert"
  <2> DEFINE c == [b EXCEPT !.inserts = Moves(i, "pause")]
  <2>1. /\ c.inserts = Moves(i, "pause") /\ c.inFlight = b.inFlight
        /\ c.batch = b.batch /\ c.published = b.published /\ c.next = b.next
    BY <1>2 DEF BufferType
  <2>2. buffer' = c /\ c = [b EXCEPT !.inserts = Moves(i, "pause")]
    BY <1>1, <1>7
  <2> HIDE DEF c
  <2>3. PICK j \in Inserts :
             /\ j.lines = i.lines /\ j.at = "pause"
             /\ c.inserts \subseteq Inserts /\ IsFiniteSet(c.inserts)
             /\ \A l \in 1..Lines : In(c, l) = IF l \in Range(i.lines) THEN {j} ELSE In(buffer, l)
             /\ i.at \in Held /\ "pause" \in Held => Cardinality(Holding(c)) = Cardinality(Holding(buffer))
    BY <2>1, MovesIs
  <2>4. c \in BufferType
    BY <1>2, <2>1, <2>2, <2>3 DEF BufferType
  <2>5. Counted(c)
    BY <1>2, <1>7, <2>1, <2>3 DEF Counted, Held
  <2>6. \A l \in Range(i.lines) : failures'[l] = 1 /\ (stored'[l] = 0 \/ (stored'[l] = 1 /\ l \in unanswered'))
    BY <1>4, <1>7
  <2> DEFINE new == {j}
  <2>7. /\ \A k, m \in new : k = m
        /\ \A k \in new : k.at = "pause"
        /\ new # {}
        /\ \A l \in 1..Lines : In(c, l) = IF l \in Range(i.lines) THEN new ELSE In(buffer, l)
    BY <2>3
  <2> HIDE DEF new
  <2>8. \A l \in Range(i.lines) :
          /\ new # {} => failures'[l] = 1 /\ (stored'[l] = 0 \/ (stored'[l] = 1 /\ l \in unanswered'))
          /\ new = {} => (stored'[l] > 0 \/ failures'[l] = 2) /\ (stored'[l] = 2 => l \in unanswered')
    BY <2>6, <2>7
  <2>9. c.batch = buffer.batch /\ c.published = buffer.published /\ c.next = buffer.next
    BY <2>1
  <2>10. i.at \in {"insert", "retry"} /\ UNCHANGED <<phase, stopping, interval, stream, aborts>>
    BY <1>1
  <2>11. buffer' = c
    BY <2>2
  <2>12. (\A k, m \in new : k = m) /\ (\A k \in new : k.at = "pause")
    BY <2>7
  <2>13. \A l \in 1..Lines : In(c, l) = IF l \in Range(i.lines) THEN new ELSE In(buffer, l)
    BY <2>7
  <2> QED
    BY <1>5, <1>6, <2>4, <2>5, <2>8, <2>9, <2>10, <2>11, <2>12, <2>13, EndKeeps
<1>8. CASE i.at = "retry"
  <2> DEFINE c == Over(i)
  <2>1. buffer' = c /\ i.at \in Held
    BY <1>1, <1>8 DEF Held
  <2>2. /\ c \in BufferType /\ Counted(c)
        /\ c.batch = buffer.batch /\ c.published = buffer.published /\ c.next = buffer.next
        /\ \A l \in 1..Lines : In(c, l) = IF l \in Range(i.lines) THEN {} ELSE In(buffer, l)
    BY <2>1, OverIs
  <2> HIDE DEF c
  <2>3. \A l \in Range(i.lines) : failures'[l] = 2 /\ (stored'[l] = 2 => l \in unanswered')
    BY <1>4, <1>8
  <2> DEFINE new == {}
  <2>4. /\ \A j, k \in new : j = k
        /\ \A j \in new : j.at = "pause"
        /\ \A l \in 1..Lines : In(c, l) = IF l \in Range(i.lines) THEN new ELSE In(buffer, l)
    BY <2>2
  <2>5. \A l \in Range(i.lines) :
          /\ new # {} => failures'[l] = 1 /\ (stored'[l] = 0 \/ (stored'[l] = 1 /\ l \in unanswered'))
          /\ new = {} => (stored'[l] > 0 \/ failures'[l] = 2) /\ (stored'[l] = 2 => l \in unanswered')
    BY <2>3
  <2>6. i.at \in {"insert", "retry"} /\ UNCHANGED <<phase, stopping, interval, stream, aborts>>
    BY <1>1
  <2> HIDE DEF new
  <2> QED
    BY <1>5, <1>6, <2>1, <2>2, <2>4, <2>5, <2>6, EndKeeps
<1> QED
  BY <1>1, <1>7, <1>8

-----------------------------------------------------------------------------
LEMMA LogInitInv == LogInit => LogInv
<1> SUFFICES ASSUME LogInit PROVE LogInv
  OBVIOUS
<1>1. Lines \in Nat /\ MaxInserts \in Nat
  BY LogAssumption DEF LogAssumption
<1> DEFINE b == buffer
<1>2. /\ b.batch = <<>> /\ b.inserts = {} /\ b.inFlight = 0 /\ b.published = {} /\ b.next = 1
      /\ b \in BufferType
  BY <1>1 DEF LogInit, BufferType
<1> HIDE DEF b
<1>3. Holding(b) = {} /\ \A l : In(b, l) = {}
  BY <1>2 DEF Holding, In
<1>4. Counted(b)
  BY <1>1, <1>2, <1>3, FS_EmptySet DEF Counted
<1>5. Range(b.batch) = {}
  BY <1>2 DEF Range
<1>6. \A l \in 1..Lines : stored[l] = 0 /\ failures[l] = 0 /\ ~(l < 1)
  BY <1>1 DEF LogInit
<1>7. \A l \in 1..Lines : Placed(b, l) /\ Told(b, l)
  BY <1>2, <1>3, <1>5, <1>6 DEF Placed, Told
<1>8. Sound(buffer)
  BY <1>2, <1>4, <1>7 DEF Sound, b
<1>9. stored \in [1..Lines -> 0..2] /\ failures \in [1..Lines -> 0..2]
  BY <1>1 DEF LogInit
<1> QED
  BY <1>8, <1>9 DEF LogInit, LogInv

\* Steps of the worker, the pumps and the timer.
LEMMA WorkerStep ==
    ASSUME LogInv,
           \/ \E found \in SUBSET Containers : Listed(found)
           \/ StopLogWorker \/ Exit \/ FlushTimer
           \/ \E c \in Containers :
                \/ Accept(c) \/ StreamEnds(c)
                \/ \E ok \in BOOLEAN : Attached(c, ok)
                \/ \E k \in 0..Chunk : Read(c, k)
    PROVE  LogInv'
<1>1. /\ phase' \in {"off", "listing", "on", "exited"} /\ stopping' \in BOOLEAN /\ interval' \in BOOLEAN
      /\ UNCHANGED <<stored, failures, unanswered>>
  BY DEF LogInv, Listed, StopLogWorker, Exit, FlushTimer, Accept, StreamEnds, Attached, Read
<1>2. stream' \in [Containers -> {"none", "attaching", "checking", "reading", "ended"}]
  <2> DEFINE At == {"none", "attaching", "checking", "reading", "ended"}
  <2>1. stream \in [Containers -> At]
    BY DEF LogInv
  <2>2. \/ stream' = stream
        \/ \E found : stream' = [c \in Containers |-> IF c \in found THEN "attaching" ELSE "none"]
        \/ stream' = [c \in Containers |-> IF c \in aborts THEN "ended" ELSE stream[c]]
        \/ \E c \in Containers, to \in At : stream' = [stream EXCEPT ![c] = to]
    BY DEF Listed, StopLogWorker, Exit, FlushTimer, Accept, StreamEnds, Attached, Read, Reading
  <2> QED
    BY <2>1, <2>2
<1>3. aborts' \subseteq Containers
  BY DEF LogInv, Listed, StopLogWorker, Exit, FlushTimer, Accept, StreamEnds, Attached, Read
<1>4. Sound(buffer')
  <2>1. Sound(buffer)
    BY DEF LogInv
  <2>2. \/ buffer' = buffer \/ buffer' = Flush(buffer)
        \/ \E k \in 0..Chunk : buffer' = Pushed[k] /\ buffer.next + k <= Lines + 1
    BY DEF Listed, StopLogWorker, Exit, FlushTimer, Accept, StreamEnds, Attached, Read
  <2> QED
    BY <2>1, <2>2, FlushKeeps, ReadKeeps
<1> QED
  BY <1>1, <1>2, <1>3, <1>4, SoundAgain DEF LogInv

LEMMA LogNextInv == LogInv /\ [LogNext]_logVars => LogInv'
<1> SUFFICES ASSUME LogInv, [LogNext]_logVars PROVE LogInv'
  OBVIOUS
<1>1. ASSUME NEW i \in buffer.inserts, InsertStep(i) PROVE LogInv'
  BY <1>1, TakeOrAgain, InsertedStep, InsertFailsStep DEF InsertStep
<1>2. CASE UNCHANGED logVars
  <2>1. Sound(buffer') /\ UNCHANGED <<stored, failures, unanswered>>
    BY <1>2 DEF logVars, LogInv
  <2> QED
    BY <1>2, <2>1, SoundAgain DEF logVars, LogInv
<1> QED
  BY <1>1, <1>2, WorkerStep DEF LogNext

LEMMA LogKeeps == LogSpec => []LogInv
  BY LogInitInv, LogNextInv, PTL DEF LogSpec

\* No more slots are held than lines were accepted: the inserts share no line.
LEMMA HoldersBounded ==
    ASSUME LogInv
    PROVE  buffer.inFlight \in 0..Lines
<1> DEFINE H == Holding(buffer)
           f == [i \in H |-> i.lines[1]]
<1>1. buffer \in BufferType /\ Counted(buffer) /\ \A l \in 1..Lines : Placed(buffer, l)
  BY DEF LogInv, Sound
<1>2. \A i \in H : i \in buffer.inserts /\ i.lines \in Seq(1..Lines) /\ i.lines # <<>>
  BY <1>1, BufferIs DEF Holding
<1>3. ASSUME NEW i \in H PROVE 1 \in DOMAIN i.lines /\ i.lines[1] \in 1..Lines
  <2> DEFINE L == 1..Lines
             q == i.lines
  <2>1. q \in Seq(L) /\ q # <<>>
    BY <1>2
  <2> HIDE DEF H, L, q
  <2>2. 1 \in DOMAIN q /\ q[1] \in L
    BY <2>1
  <2> QED
    BY <2>2 DEF L, q
<1>4. \A i \in H : i.lines[1] \in Range(i.lines)
  BY <1>3 DEF Range
<1>5. \A i, j \in H : i.lines[1] = j.lines[1] => i = j
  BY <1>1, <1>2, <1>3, <1>4 DEF In, Placed
<1> HIDE DEF H
<1>6. f \in Injection(H, 1..Lines)
  BY <1>3, <1>5 DEF Injection, IsInjective
<1>7. IsFiniteSet(1..Lines) /\ Cardinality(1..Lines) = Lines /\ Lines \in Nat
  BY LogAssumption, FS_Interval DEF LogAssumption
<1>8. Cardinality(H) <= Cardinality(1..Lines)
  BY <1>6, <1>7, FS_Injection
<1>9. buffer.inFlight = Cardinality(H) /\ buffer.inFlight \in Nat
  BY <1>1, BufferIs DEF Counted, H
<1> QED
  BY <1>7, <1>8, <1>9

\* Type correctness of the log worker: no more slots are held than lines were accepted.
THEOREM LogTypeCorrect == LogSpec => []LogTypeOK
<1>1. ASSUME LogInv PROVE LogTypeOK
  <2>1. buffer \in BufferType
    BY <1>1 DEF LogInv, Sound
  <2>2. /\ buffer.batch \in Seq(1..Lines) /\ buffer.inserts \subseteq Inserts
        /\ buffer.published \subseteq 1..Lines /\ buffer.next \in 1..(Lines + 1)
    BY <2>1 DEF BufferType
  <2> QED
    BY <1>1, <2>2, HoldersBounded DEF LogInv, LogTypeOK
<1> QED
  BY <1>1, LogKeeps, PTL

\* The semaphore counts the calls that hold a slot through pauses and retries, for any
\* number of streams, lines and slots (insertWithSemaphore in monitoring/log-worker.ts).
THEOREM SlotsAreCounted == LogSpec => []SlotsHeld
<1>1. LogInv => SlotsHeld
  BY DEF LogInv, Sound, Counted, Holding, SlotsHeld
<1> QED
  BY <1>1, LogKeeps, PTL

\* A line the worker accepted is never lost without two failures, nor stored twice
\* unless an answer was lost, and the live tail gets it once it leaves the batch.
THEOREM LinesAreKept == LogSpec => []NoLineLost
<1>1. ASSUME LogInv PROVE NoLineLost
  <2>1. buffer.next \in Nat /\ buffer.next <= Lines + 1 /\ Lines \in Nat
    BY <1>1, BufferIs DEF LogInv, Sound
  <2> SUFFICES ASSUME NEW l \in 1..(buffer.next - 1)
               PROVE  /\ l \in Range(buffer.batch) => In(buffer, l) = {} /\ stored[l] = 0
                      /\ Cardinality(In(buffer, l)) <= 1
                      /\ l \notin Range(buffer.batch) /\ In(buffer, l) = {} => stored[l] > 0 \/ failures[l] = 2
                      /\ stored[l] = 2 => l \in unanswered
                      /\ l \in buffer.published <=> l \notin Range(buffer.batch)
    BY DEF NoLineLost, In
  <2>2. l \in 1..Lines /\ l < buffer.next
    BY <2>1
  <2>3. Placed(buffer, l) /\ Told(buffer, l)
    BY <1>1, <2>2 DEF LogInv, Sound
  <2>4. l \in buffer.published <=> l \notin Range(buffer.batch)
    BY <2>2, <2>3 DEF Placed
  <2>5. Cardinality(In(buffer, l)) <= 1
    <3>1. CASE In(buffer, l) = {}
      BY <3>1, FS_EmptySet
    <3>2. ASSUME NEW i \in In(buffer, l) PROVE Cardinality(In(buffer, l)) = 1
      <4>1. In(buffer, l) = {i}
        BY <2>3 DEF Placed
      <4> QED
        BY <4>1, FS_Singleton
    <3> QED
      BY <3>1, <3>2
  <2>6. stored[l] = 2 => l \in unanswered
    <3>1. CASE l \in Range(buffer.batch)
      BY <2>3, <3>1 DEF Told
    <3>2. CASE l \in buffer.published /\ In(buffer, l) = {}
      BY <2>3, <3>2 DEF Told
    <3>3. ASSUME NEW i \in In(buffer, l) PROVE stored[l] # 2
      <4>1. i.at \in {"waiting", "insert", "pause", "retry"}
        BY <1>1, BufferIs DEF LogInv, Sound, In
      <4> QED
        BY <2>3, <4>1 DEF Told
    <3> QED
      BY <2>4, <3>1, <3>2, <3>3
  <2> QED
    BY <2>3, <2>4, <2>5, <2>6 DEF Placed, Told
<1> QED
  BY <1>1, LogKeeps, PTL

-----------------------------------------------------------------------------
(***************************************************************************)
(* The streamer's intake.                                                  *)
(***************************************************************************)
\* What FrameEnds is defined to be.
LEMMA EndsAre ==
    ASSUME NEW w, Len(w) \in Nat
    PROVE  /\ FrameEnds(w)[0] = 0
           /\ \A k \in 1..Len(w) : FrameEnds(w)[k] = FrameEnds(w)[k - 1] + Header + w[k]
<1> DEFINE Is(f, n) == f = [k \in 0..n |-> IF k = 0 THEN 0 ELSE f[k - 1] + Header + w[k]]
           None == {n \in Nat : ~\E f : Is(f, n)}
<1>1. None = {}
  <2> SUFFICES ASSUME None # {} PROVE FALSE
    OBVIOUS
  <2>1. PICK n \in None : \A m \in None : n <= m
    BY Smallest
  <2>2. CASE n = 0
    <3> DEFINE g == [k \in 0..0 |-> 0]
    <3>1. Is(g, 0)
      OBVIOUS
    <3> QED
      BY <2>1, <2>2, <3>1
  <2>3. CASE n # 0
    <3>1. n - 1 \in Nat /\ n - 1 \notin None
      <4>1. n \in Nat
        OBVIOUS
      <4> HIDE DEF None
      <4>2. n - 1 \in Nat /\ ~(n <= n - 1)
        BY <2>3, <4>1
      <4> QED
        BY <2>1, <4>2
    <3>2. PICK f : Is(f, n - 1)
      BY <3>1
    <3> DEFINE g == [k \in 0..n |-> IF k = 0 THEN 0 ELSE f[k - 1] + Header + w[k]]
    <3>3. \A k \in 0..(n - 1) : f[k] = IF k = 0 THEN 0 ELSE f[k - 1] + Header + w[k]
      BY <3>2
    <3>4. \A k \in 0..n : k # 0 => k - 1 \in 0..(n - 1) /\ k - 1 \in 0..n
      BY <3>1
    <3>5. \A k \in 0..(n - 1) : g[k] = f[k]
      BY <3>1, <3>3
    <3>6. \A k \in 0..n : k # 0 => g[k - 1] = f[k - 1]
      BY <3>4, <3>5
    <3>7. g = [k \in 0..n |-> IF k = 0 THEN 0 ELSE g[k - 1] + Header + w[k]]
      BY <3>6
    <3> QED
      BY <2>1, <3>7
  <2> QED
    BY <2>2, <2>3
<1>2. \E f : Is(f, Len(w))
  BY <1>1
<1>3. Is(FrameEnds(w), Len(w))
  BY <1>2 DEF FrameEnds
<1> HIDE DEF None
<1> QED
  BY <1>3

\* The wire, its frames one after the other.
LEMMA EndsGrow ==
    ASSUME wire \in Seq(Nat)
    PROVE  /\ EndOf(0) = 0
           /\ \A k \in 0..Len(wire) : EndOf(k) \in Nat
           /\ \A k \in 1..Len(wire) : EndOf(k) = EndOf(k - 1) + Header + wire[k]
           /\ \A j, k \in 0..Len(wire) : j < k => EndOf(j) < EndOf(k)
<1>1. Len(wire) \in Nat /\ \A k \in 1..Len(wire) : wire[k] \in Nat
  OBVIOUS
<1>2. EndOf(0) = 0 /\ \A k \in 1..Len(wire) : EndOf(k) = EndOf(k - 1) + Header + wire[k]
  BY <1>1, EndsAre DEF EndOf
<1> DEFINE Wrong == {k \in 0..Len(wire) :
                       ~(EndOf(k) \in Nat /\ \A j \in 0..Len(wire) : j < k => EndOf(j) < EndOf(k))}
<1>3. SUFFICES Wrong = {}
  BY <1>2
<1>4. SUFFICES ASSUME Wrong # {} PROVE FALSE
  OBVIOUS
<1>5. PICK k \in Wrong : \A m \in Wrong : k <= m
  <2>1. Wrong \subseteq Nat
    BY <1>1
  <2> HIDE DEF Wrong
  <2> QED
    BY <1>4, <2>1, Smallest
<1>6. k \in 0..Len(wire) /\ k \in Nat
  BY <1>1, <1>5
<1>7. k # 0
  BY <1>1, <1>2, <1>5
<1>8. k - 1 \in 0..Len(wire) /\ k \in 1..Len(wire) /\ ~(k <= k - 1)
  BY <1>1, <1>6, <1>7
<1>9. k - 1 \notin Wrong
  BY <1>5, <1>8
<1>10. EndOf(k - 1) \in Nat /\ \A j \in 0..Len(wire) : j < k - 1 => EndOf(j) < EndOf(k - 1)
  BY <1>8, <1>9
<1>11. EndOf(k) = EndOf(k - 1) + Header + wire[k] /\ wire[k] \in Nat
  BY <1>1, <1>2, <1>8
<1>12. EndOf(k) \in Nat /\ EndOf(k - 1) < EndOf(k)
  BY <1>10, <1>11 DEF Header
<1>13. ASSUME NEW j \in 0..Len(wire), j < k PROVE EndOf(j) < EndOf(k)
  <2>1. CASE j = k - 1
    BY <1>12, <2>1
  <2>2. CASE j # k - 1
    <3>1. j < k - 1
      BY <1>1, <1>6, <1>13, <2>2
    <3>2. EndOf(j) < EndOf(k - 1)
      BY <1>10, <3>1
    <3>3. EndOf(j) \in Nat
      <4>1. j \notin Wrong
        BY <1>1, <1>5, <1>6, <1>13
      <4> QED
        BY <4>1
    <3> QED
      BY <1>10, <1>12, <3>2, <3>3
  <2> QED
    BY <2>1, <2>2
<1> QED
  BY <1>5, <1>12, <1>13

\* What the loop's rounds are defined to be.
LEMMA RoundsAre ==
    ASSUME NEW b
    PROVE  \E after :
             /\ after[0] = b /\ \A k \in 1..Frames : after[k] = CutFrame(after[k - 1])
             /\ ProcessBuffer(b) = after[Frames]
<1> DEFINE Is(f, n) == f = [k \in 0..n |-> IF k = 0 THEN b ELSE CutFrame(f[k - 1])]
           None == {n \in Nat : ~\E f : Is(f, n)}
<1>1. None = {}
  <2> SUFFICES ASSUME None # {} PROVE FALSE
    OBVIOUS
  <2>1. PICK n \in None : \A m \in None : n <= m
    BY Smallest
  <2>2. CASE n = 0
    <3> DEFINE g == [k \in 0..0 |-> b]
    <3>1. Is(g, 0)
      OBVIOUS
    <3> QED
      BY <2>1, <2>2, <3>1
  <2>3. CASE n # 0
    <3>1. n - 1 \in Nat /\ n - 1 \notin None
      <4>1. n \in Nat
        OBVIOUS
      <4> HIDE DEF None
      <4>2. n - 1 \in Nat /\ ~(n <= n - 1)
        BY <2>3, <4>1
      <4> QED
        BY <2>1, <4>2
    <3>2. PICK f : Is(f, n - 1)
      BY <3>1
    <3> DEFINE g == [k \in 0..n |-> IF k = 0 THEN b ELSE CutFrame(f[k - 1])]
    <3>3. \A k \in 0..(n - 1) : f[k] = IF k = 0 THEN b ELSE CutFrame(f[k - 1])
      BY <3>2
    <3>4. \A k \in 0..n : k # 0 => k - 1 \in 0..(n - 1) /\ k - 1 \in 0..n
      BY <3>1
    <3>5. \A k \in 0..(n - 1) : g[k] = f[k]
      BY <3>1, <3>3
    <3>6. \A k \in 0..n : k # 0 => g[k - 1] = f[k - 1]
      BY <3>4, <3>5
    <3>7. g = [k \in 0..n |-> IF k = 0 THEN b ELSE CutFrame(g[k - 1])]
      BY <3>6
    <3> QED
      BY <2>1, <3>7
  <2> QED
    BY <2>2, <2>3
<1> DEFINE after == CHOOSE f : Is(f, Frames)
<1>2. Is(after, Frames)
  BY <1>1, IntakeAssumption DEF IntakeAssumption
<1>3. ProcessBuffer(b) = after[Frames]
  BY DEF ProcessBuffer
<1> HIDE DEF None, after
<1>4. after[0] = b /\ \A k \in 1..Frames : after[k] = CutFrame(after[k - 1])
  BY <1>2, IntakeAssumption DEF IntakeAssumption
<1> QED
  BY <1>3, <1>4

\* The bytes in the buffer are those that arrived after the last frame cut off.
Framed(b, n) ==
    /\ b.held \in Nat /\ b.cut \in 0..Len(wire)
    /\ b.held = n - EndOf(b.cut)

\* The tokens are what the bucket holds since any line that passed: those that
\* passed from then on are paid for.
Metered(b) ==
    /\ b.tokens \in Nat /\ b.tokens <= Rate * Second
    /\ b.refilled \in Nat /\ b.refilled <= clock
    /\ b.passed \in Seq(Nat)
    /\ \A i \in 1..Len(b.passed) :
         /\ b.passed[i] <= b.refilled
         /\ (Len(b.passed) - i + 1) * Second + b.tokens
              <= Rate * Second + (b.refilled - b.passed[i]) * Rate
    /\ \A i, j \in 1..Len(b.passed) :
         i <= j => /\ b.passed[i] <= b.passed[j]
                   /\ (j - i + 1) * Second <= Rate * Second + (b.passed[j] - b.passed[i]) * Rate

\* No whole frame is in the buffer.
NothingWhole(b) == ~(b.held >= Header /\ b.held >= Header + wire[b.cut + 1])

Intake == [held |-> held, cut |-> cut, tokens |-> tokens, refilled |-> refilled,
           passed |-> passed]

Intakes == [held : Nat, cut : Nat, tokens : Nat, refilled : Nat, passed : Seq(Nat)]

IntakeInv ==
    /\ wire \in Seq(Nat) /\ Len(wire) <= Frames
    /\ got \in Nat /\ got <= EndOf(Len(wire)) /\ clock \in 0..Horizon
    /\ Framed(Intake, got) /\ NothingWhole(Intake)
    /\ Metered(Intake)

\* What was refilled from p to r and from r to c was refilled from p to c.
LEMMA Stretches ==
    ASSUME NEW p \in Nat, NEW r \in Nat, NEW c \in Nat, p <= r, r <= c, NEW k \in Nat
    PROVE  /\ (c - p) * k = (c - r) * k + (r - p) * k
           /\ (c - r) * k \in Nat /\ (r - p) * k \in Nat
<1>1. (c - p) * k = (c - r) * k + (r - p) * k
  OBVIOUS
<1>2. \A x \in Nat : x * k \in Nat
  OBVIOUS
<1>3. c - r \in Nat /\ r - p \in Nat
  OBVIOUS
<1> QED
  BY <1>1, <1>2, <1>3

\* A line more: n lines and one.
LEMMA OneLineMore ==
    ASSUME NEW n \in Nat
    PROVE  (n + 1) * Second = n * Second + Second /\ n * Second \in Nat
BY IntakeAssumption DEF IntakeAssumption


\* What consume makes of the bucket.
LEMMA ConsumeMeters ==
    ASSUME NEW b \in Intakes, Metered(b), clock \in Nat
    PROVE  /\ Consume(b) \in Intakes /\ Metered(Consume(b))
           /\ Consume(b).held = b.held /\ Consume(b).cut = b.cut
<1> DEFINE full == Rate * Second
           gained == (clock - b.refilled) * Rate
           filled == Smaller(full, b.tokens + gained)
           n == Len(b.passed)
           c == Consume(b)
<1>1. Rate \in Nat /\ Second \in Nat /\ full \in Nat
  BY IntakeAssumption DEF IntakeAssumption
<1>2. /\ b.tokens \in Nat /\ b.tokens <= full
      /\ b.refilled \in Nat /\ b.refilled <= clock
      /\ b.passed \in Seq(Nat) /\ n \in Nat
  BY DEF Metered
<1>3. gained \in Nat
  BY <1>1, <1>2, Stretches
<1>4. filled \in Nat /\ filled <= full /\ filled <= b.tokens + gained
  <2> HIDE DEF full, gained
  <2> QED
    BY <1>1, <1>2, <1>3 DEF Smaller
<1>5. /\ filled >= Second => c.tokens = filled - Second /\ c.passed = Append(b.passed, clock)
      /\ ~(filled >= Second) => c.tokens = filled /\ c.passed = b.passed
      /\ c.refilled = clock /\ c.held = b.held /\ c.cut = b.cut
      /\ c = [held |-> c.held, cut |-> c.cut, tokens |-> c.tokens,
              refilled |-> c.refilled, passed |-> c.passed]
  BY DEF Consume, Metered, Intakes
<1>6. \A i \in 1..n :
        /\ b.passed[i] \in Nat /\ b.passed[i] <= b.refilled
        /\ (n - i + 1) * Second + b.tokens <= full + (b.refilled - b.passed[i]) * Rate
  <2>1. \A i \in 1..n : b.passed[i] \in Nat
    BY <1>2
  <2> QED
    BY <2>1 DEF Metered
<1>7. \A i, j \in 1..n :
        i <= j => /\ b.passed[i] <= b.passed[j]
                  /\ (j - i + 1) * Second <= full + (b.passed[j] - b.passed[i]) * Rate
  BY DEF Metered
<1> HIDE DEF c
<1>8. ASSUME NEW i \in 1..n
      PROVE  /\ b.passed[i] \in Nat /\ b.passed[i] <= clock
             /\ (n - i + 1) * Second + filled <= full + (clock - b.passed[i]) * Rate
             /\ (n - i + 1) * Second \in Nat /\ (n + 1 - i + 1) * Second = (n - i + 1) * Second + Second
             /\ (clock - b.passed[i]) * Rate \in Nat
  <2>1. b.passed[i] \in Nat /\ b.passed[i] <= b.refilled /\ b.passed[i] <= clock
    BY <1>2, <1>6
  <2>2. /\ (clock - b.passed[i]) * Rate = gained + (b.refilled - b.passed[i]) * Rate
        /\ (b.refilled - b.passed[i]) * Rate \in Nat
    <3> HIDE DEF full
    <3>1. b.passed[i] \in Nat /\ b.refilled \in Nat /\ clock \in Nat /\ Rate \in Nat
      BY <1>1, <1>2, <2>1
    <3>2. b.passed[i] <= b.refilled /\ b.refilled <= clock
      BY <1>2, <2>1
    <3> QED
      BY <3>1, <3>2, Stretches
  <2>3. n - i + 1 \in Nat /\ n + 1 - i + 1 = (n - i + 1) + 1
    BY <1>2
  <2>4. (n - i + 1) * Second \in Nat /\ (n + 1 - i + 1) * Second = (n - i + 1) * Second + Second
    BY <2>3, OneLineMore
  <2>5. (n - i + 1) * Second + b.tokens <= full + (b.refilled - b.passed[i]) * Rate
    BY <1>6
  <2> DEFINE x == (n - i + 1) * Second
             y == (b.refilled - b.passed[i]) * Rate
             z == (clock - b.passed[i]) * Rate
  <2>6. x + filled <= full + z /\ z \in Nat
    <3>1. x \in Nat /\ x + b.tokens <= full + y /\ y \in Nat /\ z = gained + y
      BY <2>2, <2>4, <2>5
    <3> HIDE DEF x, y, z, full, gained, filled
    <3> QED
      BY <1>1, <1>2, <1>3, <1>4, <3>1
  <2> QED
    BY <2>1, <2>4, <2>6
<1> HIDE DEF full, gained, filled
<1>9. ASSUME ~(filled >= Second) PROVE Metered(c)
  <2>1. c.tokens = filled /\ c.passed = b.passed /\ c.refilled = clock
    BY <1>5, <1>9
  <2>2. Metered(c)
    BY <1>2, <1>4, <1>7, <1>8, <2>1 DEF Metered, full, n
  <2> QED
    BY <2>2
<1>10. ASSUME filled >= Second PROVE Metered(c)
  <2>1. c.tokens = filled - Second /\ c.passed = Append(b.passed, clock) /\ c.refilled = clock
    BY <1>5, <1>10
  <2>2. c.tokens \in Nat /\ c.tokens <= full /\ Second <= full /\ filled = c.tokens + Second
    BY <1>1, <1>4, <1>10, <2>1
  <2>3. /\ c.passed \in Seq(Nat) /\ Len(c.passed) = n + 1 /\ c.passed[n + 1] = clock
        /\ \A i \in 1..n : c.passed[i] = b.passed[i]
    BY <1>2, <2>1
  <2>4. (clock - clock) * Rate = 0 /\ (n + 1 - (n + 1) + 1) * Second = Second
    BY <1>1, <1>2
  <2>5. ASSUME NEW i \in 1..(n + 1)
        PROVE  /\ c.passed[i] \in Nat /\ c.passed[i] <= clock
               /\ (n + 1 - i + 1) * Second + c.tokens <= full + (clock - c.passed[i]) * Rate
               /\ (n + 1 - i + 1) * Second \in Nat
               /\ (clock - c.passed[i]) * Rate \in Nat
    <3>1. CASE i = n + 1
      <4>1. c.passed[i] = clock /\ (clock - c.passed[i]) * Rate = 0
        BY <2>3, <2>4, <3>1
      <4>2. (n + 1 - i + 1) * Second = Second
        BY <2>4, <3>1
      <4>3. c.passed[i] \in Nat /\ c.passed[i] <= clock
        BY <1>2, <4>1
      <4>4. Second + c.tokens <= full + 0
        BY <1>1, <2>2, <1>4
      <4> QED
        BY <1>1, <4>1, <4>2, <4>3, <4>4
    <3>2. CASE i # n + 1
      <4>1. i \in 1..n
        BY <1>2, <3>2
      <4> DEFINE x == (n - i + 1) * Second
                 y == (n + 1 - i + 1) * Second
                 z == (clock - b.passed[i]) * Rate
      <4>2. x \in Nat /\ y = x + Second /\ z \in Nat /\ x + filled <= full + z
        BY <1>8, <4>1
      <4>3. c.passed[i] = b.passed[i] /\ b.passed[i] \in Nat /\ b.passed[i] <= clock
        BY <1>8, <2>3, <4>1
      <4>4. y \in Nat /\ y + c.tokens <= full + z
        <5> HIDE DEF x, y, z
        <5> QED
          BY <1>1, <1>4, <2>2, <4>2
      <4> QED
        BY <4>2, <4>3, <4>4
    <3> QED
      BY <3>1, <3>2
  <2>6. ASSUME NEW i \in 1..(n + 1), NEW j \in 1..(n + 1), i <= j
        PROVE  /\ c.passed[i] <= c.passed[j]
               /\ (j - i + 1) * Second <= full + (c.passed[j] - c.passed[i]) * Rate
    <3>1. CASE j = n + 1
      <4>1. c.passed[j] = clock
        BY <2>3, <3>1
      <4> DEFINE y == (n + 1 - i + 1) * Second
                 z == (clock - c.passed[i]) * Rate
      <4>2. y \in Nat /\ z \in Nat /\ y + c.tokens <= full + z /\ c.passed[i] <= clock
        BY <2>5
      <4>3. y <= full + z
        <5> HIDE DEF y, z
        <5> QED
          BY <1>1, <2>2, <4>2
      <4> QED
        BY <3>1, <4>1, <4>2, <4>3
    <3>2. CASE j # n + 1
      <4>1. i \in 1..n /\ j \in 1..n
        BY <1>2, <2>6, <3>2
      <4> QED
        BY <1>7, <2>3, <2>6, <4>1
    <3> QED
      BY <3>1, <3>2
  <2>7. Metered(c)
    <3>1. c.refilled \in Nat /\ c.refilled <= clock
      BY <1>2, <2>1
    <3>2. \A i \in 1..Len(c.passed) :
            /\ c.passed[i] <= c.refilled
            /\ (Len(c.passed) - i + 1) * Second + c.tokens
                 <= Rate * Second + (c.refilled - c.passed[i]) * Rate
      <4> TAKE i \in 1..Len(c.passed)
      <4>1. i \in 1..(n + 1) /\ Len(c.passed) = n + 1 /\ c.refilled = clock
        BY <2>1, <2>3
      <4>2. /\ c.passed[i] <= clock
            /\ (n + 1 - i + 1) * Second + c.tokens <= full + (clock - c.passed[i]) * Rate
        BY <2>5, <4>1
      <4>3. /\ c.passed[i] <= c.refilled
            /\ (Len(c.passed) - i + 1) * Second + c.tokens
                 <= full + (c.refilled - c.passed[i]) * Rate
        <5>1. /\ Len(c.passed) - i + 1 = n + 1 - i + 1
              /\ c.refilled - c.passed[i] = clock - c.passed[i]
          BY <4>1
        <5>2. /\ (Len(c.passed) - i + 1) * Second = (n + 1 - i + 1) * Second
              /\ (c.refilled - c.passed[i]) * Rate = (clock - c.passed[i]) * Rate
          BY <5>1, Zenon
        <5> QED
          BY <4>1, <4>2, <5>2, Zenon
      <4> QED
        BY <4>3, Zenon DEF full
    <3>3. \A i, j \in 1..Len(c.passed) :
            i <= j => /\ c.passed[i] <= c.passed[j]
                      /\ (j - i + 1) * Second <= Rate * Second + (c.passed[j] - c.passed[i]) * Rate
      BY <2>3, <2>6 DEF full
    <3>4. c.tokens \in Nat /\ c.tokens <= Rate * Second /\ c.passed \in Seq(Nat)
      BY <2>2, <2>3 DEF full
    <3> QED
      BY <3>1, <3>2, <3>3, <3>4 DEF Metered
  <2> QED
    BY <2>7
<1>11. c \in Intakes
  <2>1. c.held \in Nat /\ c.cut \in Nat
    BY <1>5 DEF Intakes
  <2>2. c.tokens \in Nat /\ c.refilled \in Nat /\ c.passed \in Seq(Nat)
    BY <1>9, <1>10 DEF Metered
  <2> QED
    BY <1>5, <2>1, <2>2 DEF Intakes
<1> QED
  BY <1>5, <1>9, <1>10, <1>11 DEF c


\* A round of the loop cuts off the frame whose bytes are next, or finds none.
LEMMA CutKeeps ==
    ASSUME wire \in Seq(Nat), clock \in Nat, NEW n \in Nat, n <= EndOf(Len(wire)),
           NEW b \in Intakes, Framed(b, n), Metered(b)
    PROVE  /\ CutFrame(b) \in Intakes /\ Framed(CutFrame(b), n) /\ Metered(CutFrame(b))
           /\ IF NothingWhole(b) THEN CutFrame(b) = b ELSE CutFrame(b).cut = b.cut + 1
<1>1. Len(wire) \in Nat /\ \A k \in 1..Len(wire) : wire[k] \in Nat
  OBVIOUS
<1>2. CASE NothingWhole(b)
  BY <1>2 DEF CutFrame, NothingWhole
<1>3. ASSUME b.held >= Header, b.held >= Header + wire[b.cut + 1]
      PROVE  /\ CutFrame(b) \in Intakes /\ Framed(CutFrame(b), n) /\ Metered(CutFrame(b))
             /\ CutFrame(b).cut = b.cut + 1
  <2> DEFINE c == [b EXCEPT !.held = b.held - (Header + wire[b.cut + 1]), !.cut = b.cut + 1]
  <2>1. b.held \in Nat /\ b.cut \in 0..Len(wire) /\ b.held = n - EndOf(b.cut)
    BY DEF Framed
  <2>2. b.cut # Len(wire)
    <3>1. EndOf(Len(wire)) \in Nat
      BY <1>1, EndsGrow
    <3> QED
      BY <1>3, <2>1, <3>1 DEF Header
  <2>3. b.cut + 1 \in 1..Len(wire) /\ (b.cut + 1) - 1 = b.cut
    BY <1>1, <2>1, <2>2
  <2>4. wire[b.cut + 1] \in Nat /\ EndOf(b.cut) \in Nat /\ EndOf(b.cut + 1) \in Nat
    BY <1>1, <2>1, <2>3, EndsGrow
  <2>5. EndOf(b.cut + 1) = EndOf(b.cut) + Header + wire[b.cut + 1]
    BY <2>3, EndsGrow
  <2>6. /\ c.held \in Nat /\ c.cut \in Nat /\ c.cut = b.cut + 1 /\ c.held = n - EndOf(b.cut + 1)
    <3>1. c.held = b.held - (Header + wire[b.cut + 1]) /\ c.cut = b.cut + 1
      BY DEF Intakes
    <3> HIDE DEF c
    <3>2. \A e, f, x \in Nat : f = e + Header + x => (n - e) - (Header + x) = n - f
      BY DEF Header
    <3>3. c.held = n - EndOf(b.cut + 1)
      BY <2>1, <2>4, <2>5, <3>1, <3>2
    <3> QED
      <4>1. c.held \in Nat
        <5>1. \A h, w \in Nat : h >= Header + w => h - (Header + w) \in Nat
          BY DEF Header
        <5> QED
          BY <1>3, <2>1, <2>4, <3>1, <5>1
      <4>2. c.cut \in Nat
        BY <1>1, <2>1, <3>1
      <4> QED
        BY <3>1, <3>3, <4>1, <4>2
  <2>7. c \in Intakes /\ c.tokens = b.tokens /\ c.refilled = b.refilled /\ c.passed = b.passed
    BY <2>6 DEF Intakes
  <2> HIDE DEF c
  <2>8. Metered(c)
    BY <2>7, Zenon DEF Metered
  <2>9. Framed(c, n)
    <3>1. c.cut \in 0..Len(wire)
      BY <1>1, <2>3, <2>6
    <3> QED
      BY <2>6, <3>1 DEF Framed
  <2>10. CutFrame(b) = Consume(c)
    BY <1>3 DEF CutFrame, c
  <2>11. /\ Consume(c) \in Intakes /\ Metered(Consume(c))
         /\ Consume(c).held = c.held /\ Consume(c).cut = c.cut
    BY <2>7, <2>8, ConsumeMeters
  <2>12. Framed(Consume(c), n)
    BY <2>9, <2>11 DEF Framed
  <2> QED
    BY <2>6, <2>10, <2>11, <2>12
<1> QED
  BY <1>2, <1>3 DEF NothingWhole

\* After all rounds no whole frame is left.
LEMMA LoopKeeps ==
    ASSUME wire \in Seq(Nat), Len(wire) <= Frames, clock \in Nat,
           NEW n \in Nat, n <= EndOf(Len(wire)),
           NEW b \in Intakes, Framed(b, n), Metered(b)
    PROVE  /\ ProcessBuffer(b) \in Intakes
           /\ Framed(ProcessBuffer(b), n) /\ NothingWhole(ProcessBuffer(b))
           /\ Metered(ProcessBuffer(b))
<1> PICK after :
       /\ after[0] = b /\ \A k \in 1..Frames : after[k] = CutFrame(after[k - 1])
       /\ ProcessBuffer(b) = after[Frames]
  BY RoundsAre
<1>1. Len(wire) \in Nat /\ Frames \in Nat
  BY IntakeAssumption DEF IntakeAssumption
<1> DEFINE Right(k) == /\ after[k] \in Intakes /\ Framed(after[k], n) /\ Metered(after[k])
                       /\ NothingWhole(after[k]) \/ after[k].cut >= k
           Wrong == {k \in 0..Frames : ~Right(k)}
<1>2. Wrong = {}
  <2> SUFFICES ASSUME Wrong # {} PROVE FALSE
    OBVIOUS
  <2>1. PICK k \in Wrong : \A m \in Wrong : k <= m
    <3>1. Wrong \subseteq Nat
      BY <1>1
    <3> HIDE DEF Wrong
    <3> QED
      BY <3>1, Smallest
  <2>2. k \in 0..Frames /\ k \in Nat /\ ~Right(k)
    BY <1>1, <2>1
  <2>3. Right(0)
    BY <1>1 DEF Framed
  <2>4. k # 0
    BY <2>2, <2>3
  <2>5. k - 1 \in 0..Frames /\ k \in 1..Frames /\ ~(k <= k - 1) /\ k - 1 \in Nat
    BY <1>1, <2>2, <2>4
  <2>6. Right(k - 1)
    BY <2>1, <2>5
  <2>7. after[k] = CutFrame(after[k - 1])
    BY <2>5
  <2> HIDE DEF Wrong
  <2>8. /\ after[k] \in Intakes /\ Framed(after[k], n) /\ Metered(after[k])
        /\ IF NothingWhole(after[k - 1]) THEN after[k] = after[k - 1]
           ELSE after[k].cut = after[k - 1].cut + 1
    BY <2>6, <2>7, CutKeeps
  <2>9. NothingWhole(after[k]) \/ after[k].cut >= k
    <3>1. CASE NothingWhole(after[k - 1])
      BY <2>8, <3>1
    <3>2. CASE ~NothingWhole(after[k - 1])
      <4>1. after[k - 1].cut \in Nat /\ after[k - 1].cut >= k - 1
        BY <2>6, <3>2 DEF Intakes
      <4>2. after[k].cut = after[k - 1].cut + 1
        BY <2>8, <3>2
      <4> HIDE DEF Right
      <4>3. \A x \in Nat : x >= k - 1 => x + 1 >= k
        BY <2>2
      <4> QED
        BY <4>1, <4>2, <4>3
    <3> QED
      BY <3>1, <3>2
  <2> QED
    BY <2>2, <2>8, <2>9
<1>3. Right(Frames)
  BY <1>1, <1>2
<1>4. ASSUME after[Frames].cut >= Frames PROVE NothingWhole(after[Frames])
  <2>1. after[Frames].held \in Nat /\ after[Frames].cut \in 0..Len(wire)
    BY <1>3 DEF Framed
  <2>2. after[Frames].cut = Len(wire)
    BY <1>1, <1>4, <2>1
  <2>3. after[Frames].held = n - EndOf(Len(wire)) /\ EndOf(Len(wire)) \in Nat
    BY <1>1, <1>3, <2>2, EndsGrow DEF Framed
  <2> QED
    BY <2>1, <2>3 DEF NothingWhole, Header
<1> QED
  BY <1>3, <1>4

LEMMA IntakeInitInv == IntakeInit => IntakeInv
<1> SUFFICES ASSUME IntakeInit PROVE IntakeInv
  OBVIOUS
<1>1. /\ Payloads \subseteq Nat /\ Frames \in Nat /\ Rate \in Nat /\ Second \in Nat
      /\ Second # 0 /\ Horizon \in Nat
  BY IntakeAssumption DEF IntakeAssumption
<1>2. PICK n \in 0..Frames : wire \in [1..n -> Payloads]
  BY DEF IntakeInit
<1>3. wire \in Seq(Nat) /\ Len(wire) = n
  <2>1. n \in Nat /\ wire \in [1..n -> Nat]
    <3>1. n \in Nat /\ wire = [i \in 1..n |-> wire[i]] /\ \A i \in 1..n : wire[i] \in Payloads
      BY <1>1, <1>2
    <3> QED
      BY <1>1, <3>1
  <2> QED
    BY <2>1
<1>4. EndOf(0) = 0 /\ EndOf(Len(wire)) \in Nat
  BY <1>1, <1>2, <1>3, EndsGrow
<1>5. /\ got = 0 /\ clock = 0
      /\ Intake = [held |-> 0, cut |-> 0, tokens |-> Rate * Second, refilled |-> 0, passed |-> <<>>]
  BY DEF IntakeInit, Intake
<1>6. Framed(Intake, got) /\ NothingWhole(Intake)
  BY <1>1, <1>2, <1>3, <1>4, <1>5 DEF Framed, NothingWhole, Header
<1>7. Metered(Intake)
  <2>1. Rate * Second \in Nat /\ <<>> \in Seq(Nat) /\ Len(<<>>) = 0
    BY <1>1
  <2> QED
    BY <1>5, <2>1 DEF Metered
<1> QED
  BY <1>1, <1>2, <1>3, <1>4, <1>5, <1>6, <1>7 DEF IntakeInv

LEMMA IntakeStep == IntakeInv /\ [IntakeNext]_intakeVars => IntakeInv'
<1> SUFFICES ASSUME IntakeInv, [IntakeNext]_intakeVars PROVE IntakeInv'
  OBVIOUS
<1>1. CASE UNCHANGED intakeVars
  BY <1>1 DEF intakeVars, IntakeInv, Intake, Framed, NothingWhole, Metered, EndOf
<1>2. CASE TimePasses
  <2>1. /\ clock < Horizon /\ clock' = clock + 1
        /\ UNCHANGED <<wire, got, held, cut, tokens, refilled, passed>>
    BY <1>2 DEF TimePasses
  <2>2. clock \in Nat /\ Horizon \in Nat /\ clock' \in 0..Horizon
    BY <2>1, IntakeAssumption DEF IntakeInv, IntakeAssumption
  <2>3. Metered(Intake)'
    <3>1. Metered(Intake) /\ Intake' = Intake
      BY <2>1 DEF IntakeInv, Intake
    <3>2. Intake.refilled <= clock'
      BY <2>1, <2>2, <3>1 DEF Metered
    <3> QED
      BY <3>1, <3>2 DEF Metered
  <2>4. Framed(Intake, got)' /\ NothingWhole(Intake)'
    BY <2>1 DEF IntakeInv, Intake, Framed, NothingWhole, EndOf
  <2> QED
    BY <2>1, <2>2, <2>3, <2>4 DEF IntakeInv, EndOf
<1>3. ASSUME NEW n \in Chunks, Receive(n) PROVE IntakeInv'
  <2> DEFINE b == [held |-> held + n, cut |-> cut, tokens |-> tokens,
                   refilled |-> refilled, passed |-> passed]
             c == ProcessBuffer(b)
  <2>1. /\ got + n <= EndOf(Len(wire)) /\ got' = got + n
        /\ held' = c.held /\ cut' = c.cut /\ tokens' = c.tokens /\ refilled' = c.refilled
        /\ passed' = c.passed /\ wire' = wire /\ clock' = clock
    BY <1>3 DEF Receive
  <2>2. /\ n \in Nat /\ wire \in Seq(Nat) /\ Len(wire) <= Frames /\ got \in Nat
        /\ clock \in Nat /\ clock \in 0..Horizon /\ Framed(Intake, got) /\ Metered(Intake)
    BY IntakeAssumption DEF IntakeInv, IntakeAssumption
  <2>3. held \in Nat /\ cut \in 0..Len(wire) /\ held = got - EndOf(cut) /\ Len(wire) \in Nat
    BY <2>2 DEF Framed, Intake
  <2>4. tokens \in Nat /\ refilled \in Nat /\ passed \in Seq(Nat)
    BY <2>2 DEF Metered, Intake
  <2>5. b \in Intakes
    BY <2>2, <2>3, <2>4 DEF Intakes
  <2>6. Framed(b, got + n)
    <3>1. EndOf(cut) \in Nat
      BY <2>2, <2>3, EndsGrow
    <3>2. held + n = (got + n) - EndOf(cut) /\ held + n \in Nat
      BY <2>2, <2>3, <3>1
    <3> QED
      BY <2>3, <3>2 DEF Framed
  <2>7. Metered(b)
    BY <2>2 DEF Metered, Intake
  <2>8. got + n \in Nat
    BY <2>2
  <2>9. c \in Intakes /\ Framed(c, got + n) /\ NothingWhole(c) /\ Metered(c)
    <3> HIDE DEF b
    <3> QED
      BY <2>1, <2>2, <2>5, <2>6, <2>7, <2>8, LoopKeeps
  <2> HIDE DEF c
  <2>10. /\ c = [held |-> c.held, cut |-> c.cut, tokens |-> c.tokens,
                 refilled |-> c.refilled, passed |-> c.passed]
    BY <2>9 DEF Intakes
  <2>11. Intake' = c
    BY <2>1, <2>10 DEF Intake
  <2>12. PICK d : d = c
    OBVIOUS
  <2>13. Framed(d, got + n) /\ NothingWhole(d) /\ Metered(d) /\ Intake' = d
    BY <2>9, <2>11, <2>12
  <2>14. Framed(d, got)' /\ NothingWhole(d)' /\ Metered(d)'
    BY <2>1, <2>13 DEF Framed, NothingWhole, Metered, EndOf
  <2>15. (Framed(Intake, got) /\ NothingWhole(Intake) /\ Metered(Intake))'
    BY <2>13, <2>14
  <2>16. (wire \in Seq(Nat) /\ Len(wire) <= Frames /\ clock \in 0..Horizon)'
    BY <2>1, <2>2
  <2>17. (got \in Nat /\ got <= EndOf(Len(wire)))'
    BY <2>1, <2>8 DEF EndOf
  <2> QED
    BY <2>15, <2>16, <2>17 DEF IntakeInv
<1> QED
  BY <1>1, <1>2, <1>3 DEF IntakeNext

\* What is in the buffer and in the bucket is well-formed.
THEOREM IntakeTypeCorrect == IntakeSpec => []IntakeTypeOK
<1>1. ASSUME IntakeInv PROVE IntakeTypeOK
  <2>1. /\ got \in Nat /\ clock \in 0..Horizon /\ Framed(Intake, got) /\ Metered(Intake)
    BY <1>1 DEF IntakeInv
  <2>2. held \in Nat /\ cut \in 0..Len(wire)
    BY <2>1 DEF Framed, Intake
  <2>3. tokens \in Nat /\ tokens <= Rate * Second /\ refilled \in Nat /\ refilled <= clock
    BY <2>1 DEF Metered, Intake
  <2>4. Rate * Second \in Nat /\ Horizon \in Nat
    BY IntakeAssumption DEF IntakeAssumption
  <2>5. tokens \in 0..(Rate * Second) /\ refilled \in 0..clock
    BY <2>1, <2>3, <2>4
  <2>6. passed \in Seq(Nat) /\ \A i \in 1..Len(passed) : passed[i] <= refilled
    BY <2>1 DEF Metered, Intake
  <2>7. passed \in Seq(0..Horizon)
    <3>1. \A i \in 1..Len(passed) : passed[i] \in Nat
      BY <2>6
    <3>2. \A i \in 1..Len(passed) : passed[i] \in 0..Horizon
      BY <2>1, <2>3, <2>4, <2>6, <3>1
    <3>3. passed \in [1..Len(passed) -> 0..Horizon] /\ Len(passed) \in Nat
      BY <2>6, <3>2
    <3> QED
      BY <3>3, SeqDef
  <2> QED
    BY <2>1, <2>2, <2>5, <2>7 DEF IntakeTypeOK
<1> QED
  BY <1>1, IntakeInitInv, IntakeStep, PTL DEF IntakeSpec

\* The frames cut off a stream are those that arrived whole, and no stretch of time
\* lets more lines through than a full bucket and its refill.
THEOREM StreamKept == IntakeSpec => []StreamIntact
<1>1. ASSUME IntakeInv PROVE FramesWhole
  <2>1. /\ wire \in Seq(Nat) /\ got \in Nat /\ Framed(Intake, got) /\ NothingWhole(Intake)
    BY <1>1 DEF IntakeInv
  <2>2. /\ held \in Nat /\ cut \in 0..Len(wire) /\ held = got - EndOf(cut)
        /\ ~(held >= Header /\ held >= Header + wire[cut + 1])
    BY <2>1 DEF Framed, NothingWhole, Intake
  <2>3. Len(wire) \in Nat
    BY <2>1
  <2>4. EndOf(cut) \in Nat /\ EndOf(cut) <= got
    BY <2>1, <2>2, EndsGrow
  <2>5. ASSUME NEW k \in 1..Len(wire), k <= cut PROVE EndOf(k) <= got
    <3>1. k \in 0..Len(wire) /\ EndOf(k) \in Nat
      BY <2>1, <2>3, EndsGrow
    <3>2. k = cut \/ k < cut
      BY <2>2, <2>3, <2>5
    <3>3. k < cut => EndOf(k) < EndOf(cut)
      BY <2>1, <2>2, <3>1, EndsGrow
    <3> QED
      BY <2>1, <2>4, <3>1, <3>2, <3>3
  <2>6. ASSUME NEW k \in 1..Len(wire), ~(k <= cut) PROVE ~(EndOf(k) <= got)
    <3>1. cut + 1 \in 1..Len(wire) /\ (cut + 1) - 1 = cut /\ (k = cut + 1 \/ cut + 1 < k)
      BY <2>2, <2>3, <2>6
    <3>2. /\ EndOf(cut + 1) = EndOf(cut) + Header + wire[cut + 1]
          /\ EndOf(cut + 1) \in Nat /\ EndOf(k) \in Nat /\ wire[cut + 1] \in Nat
      BY <2>1, <2>3, <3>1, EndsGrow
    <3>3. EndOf(cut + 1) > got
      <4>1. \/ held >= Header /\ held >= Header + wire[cut + 1]
            \/ held < Header + wire[cut + 1]
        BY <2>2, <3>2 DEF Header
      <4>2. held < Header + wire[cut + 1]
        BY <2>2, <4>1
      <4>3. \A h, g, e, w \in Nat : h = g - e /\ h < Header + w => e + Header + w > g
        BY DEF Header
      <4> QED
        BY <2>1, <2>2, <2>4, <3>2, <4>2, <4>3
    <3>4. cut + 1 < k => EndOf(cut + 1) < EndOf(k)
      BY <2>1, <2>3, <3>1, EndsGrow
    <3> QED
      BY <2>1, <3>1, <3>2, <3>3, <3>4
  <2> QED
    BY <2>2, <2>5, <2>6 DEF FramesWhole
<1>2. ASSUME IntakeInv PROVE RateKept
  BY <1>2 DEF IntakeInv, Metered, Intake, RateKept
<1> QED
  BY <1>1, <1>2, IntakeInitInv, IntakeStep, PTL DEF IntakeSpec, StreamIntact

-----------------------------------------------------------------------------
(***************************************************************************)
(* The retention worker, and the parts together as MCLogs runs them.       *)
(***************************************************************************)
LEMMA RetentionInit_TypeOK == RetentionInit => RetentionTypeOK
  BY RetentionAssumption DEF RetentionAssumption, RetentionInit, RetentionTypeOK

\* Where a cycle goes on.
LEMMA NextTableIs ==
    ASSUME RetentionTypeOK, NEW c \in Cycles, cycle[c] # 0, NextTable(c)
    PROVE  cycle' \in [Cycles -> 0..CleanedTables]
<1>1. cycle \in [Cycles -> 0..CleanedTables] /\ CleanedTables \in Nat
  BY RetentionAssumption DEF RetentionAssumption, RetentionTypeOK
<1>2. (IF cycle[c] = CleanedTables THEN 0 ELSE cycle[c] + 1) \in 0..CleanedTables
  BY <1>1
<1> QED
  BY <1>1, <1>2 DEF NextTable

LEMMA RetentionStep == RetentionTypeOK /\ [RetentionNext]_retentionVars => RetentionTypeOK'
<1> SUFFICES ASSUME RetentionTypeOK, [RetentionNext]_retentionVars PROVE RetentionTypeOK'
  OBVIOUS
<1>1. /\ CleanedTables \in Nat /\ BatchSize \in Nat /\ MaxExpired \in Nat /\ CleanedTables # 0
      /\ TableDefs = 1..CleanedTables
  BY RetentionAssumption DEF RetentionAssumption, TableDefs
<1>2. /\ expired \in [TableDefs -> 0..MaxExpired] /\ aged \in [TableDefs -> 0..BatchSize]
      /\ broken \subseteq TableDefs /\ scheduled \in {"new", "on", "off"}
      /\ cycle \in [Cycles -> 0..CleanedTables]
  BY DEF RetentionTypeOK
<1>3. CASE UNCHANGED retentionVars
  BY <1>2, <1>3 DEF retentionVars, RetentionTypeOK
<1>4. CASE StopRetentionWorker
  BY <1>2, <1>4 DEF StopRetentionWorker, RetentionTypeOK
<1>5. ASSUME NEW t \in TableDefs, RowsAge(t) PROVE RetentionTypeOK'
  <2> DEFINE m == IF aged[t] = BatchSize THEN aged[t] ELSE aged[t] + 1
             n == expired[t] + 1
  <2>1. /\ expired[t] < MaxExpired /\ aged' = [aged EXCEPT ![t] = m]
        /\ expired' = [expired EXCEPT ![t] = n]
        /\ UNCHANGED <<broken, scheduled, cycle>>
    BY <1>5 DEF RowsAge
  <2>2. m \in 0..BatchSize /\ n \in 0..MaxExpired
    BY <1>1, <1>2, <2>1
  <2> HIDE DEF m, n
  <2>3. expired' \in [TableDefs -> 0..MaxExpired] /\ aged' \in [TableDefs -> 0..BatchSize]
    BY <1>2, <2>1, <2>2
  <2> QED
    BY <1>2, <2>1, <2>3 DEF RetentionTypeOK, TableDefs
<1>6. ASSUME NEW c \in Cycles, CleanupOldData(c) \/ PostCleanup(c) PROVE RetentionTypeOK'
  <2>1. cycle' = [cycle EXCEPT ![c] = 1] /\ UNCHANGED <<expired, aged, broken, scheduled>>
    BY <1>6 DEF CleanupOldData, PostCleanup, Cycle
  <2>2. cycle' \in [Cycles -> 0..CleanedTables]
    <3>1. 1 \in 0..CleanedTables
      BY <1>1
    <3> QED
      BY <1>2, <2>1, <3>1
  <2> QED
    BY <1>2, <2>1, <2>2 DEF RetentionTypeOK, TableDefs
<1>7. ASSUME NEW c \in Cycles, TableFails(c) PROVE RetentionTypeOK'
  <2>1. cycle[c] # 0 /\ NextTable(c) /\ UNCHANGED <<expired, aged, broken, scheduled>>
    BY <1>7 DEF TableFails
  <2>2. cycle' \in [Cycles -> 0..CleanedTables]
    BY <2>1, NextTableIs
  <2> QED
    BY <1>2, <2>1, <2>2 DEF RetentionTypeOK, TableDefs
<1>8. ASSUME NEW c \in Cycles, BatchDelete(c) PROVE RetentionTypeOK'
  <2> DEFINE t == cycle[c]
             n == IF expired[t] < BatchSize THEN expired[t] ELSE BatchSize
  <2>1. /\ t # 0 /\ expired' = [expired EXCEPT ![t] = expired[t] - n] /\ aged' = [aged EXCEPT ![t] = 0]
        /\ NextTable(c) \/ UNCHANGED cycle
        /\ UNCHANGED <<broken, scheduled>>
    BY <1>8 DEF BatchDelete
  <2>2. t \in TableDefs
    BY <1>1, <1>2, <2>1
  <2>3. expired[t] - n \in 0..MaxExpired /\ 0 \in 0..BatchSize
    BY <1>1, <1>2, <2>2
  <2>4. cycle' \in [Cycles -> 0..CleanedTables]
    BY <1>2, <2>1, NextTableIs
  <2>5. expired' \in [TableDefs -> 0..MaxExpired] /\ aged' \in [TableDefs -> 0..BatchSize]
    BY <1>2, <2>1, <2>3
  <2> QED
    BY <1>2, <2>1, <2>4, <2>5 DEF RetentionTypeOK, TableDefs
<1> QED
  BY <1>3, <1>4, <1>5, <1>6, <1>7, <1>8 DEF RetentionNext

\* Type correctness of the retention worker: whatever cycles overlap, a batch takes no
\* more rows than are old, and each cycle is at a table or done.
THEOREM RetentionTypeCorrect == RetentionSpec => []RetentionTypeOK
  BY RetentionInit_TypeOK, RetentionStep, PTL DEF RetentionSpec

\* MCLogs runs each part as it is: its specification implies that of every part, so that
\* what is proved of a part holds in the run.
THEOREM RunsEachPart ==
    Spec => LogSpec /\ IntakeSpec /\ LiveSpec /\ RetentionSpec /\ ProbesSpec
<1>1. Init => LogInit /\ IntakeInit /\ LiveInit /\ RetentionInit /\ ProbesInit
  BY DEF Init
<1>2. [Next]_vars => /\ [LogNext]_logVars /\ [IntakeNext]_intakeVars /\ [LiveNext]_liveVars
                     /\ [RetentionNext]_retentionVars /\ [ProbesNext]_probesVars
  BY Zenon DEF Next, vars
<1> QED
  BY <1>1, <1>2, PTL DEF Spec, LogSpec, IntakeSpec, LiveSpec, RetentionSpec, ProbesSpec

\* Type correctness of all that MCLogs runs.
THEOREM PartsTypeCorrect == Spec => []TypeOK
<1>1. LogTypeOK /\ IntakeTypeOK /\ LiveTypeOK /\ RetentionTypeOK /\ ProbesTypeOK => TypeOK
  BY DEF TypeOK
<1> QED
  BY <1>1, RunsEachPart, LogTypeCorrect, IntakeTypeCorrect, LiveTypeCorrect,
     RetentionTypeCorrect, ProbesTypeCorrect, PTL
=============================================================================
