------------------------------ MODULE LiveLogs ------------------------------
(***************************************************************************)
(* Live logs: the WebSocket /ws/logs (src/api/logs-ws.ts), the event stream*)
(* GET /api/logs/stream (src/api/logs.ts) and the Redis connection on which*)
(* all of them subscribe (src/store/log-pubsub.ts).                        *)
(*                                                                         *)
(* A subscription registers its handler at once and then awaits SUBSCRIBE; *)
(* commands reach Redis in the order in which they were issued, and a      *)
(* command and its reply are one step.  The entries of the log worker carry*)
(* no project id, so only an admin's handler passes them on; what is sent  *)
(* to a socket is not modelled, only who would still be sent something.    *)
(***************************************************************************)
EXTENDS Naturals, Sequences, FiniteSets, SequencesExt

CONSTANTS Sockets,     \* WebSocket connections
          Streams,     \* event stream requests
          Channels,    \* logs:<container>, and the pattern logs:*
          MaxHandlers, \* bound: calls of subscribeLogs and subscribeAllLogs
          MaxClients,  \* MAX_WS_CLIENTS
          MaxLookups,  \* bound: key lookups a socket has pending
          Nobody

ASSUME LiveAssumption ==
    /\ Sockets \cap Streams = {} /\ Nobody \notin Sockets \cup Streams
    /\ MaxClients \in Nat \ {0} /\ MaxLookups \in Nat \ {0} /\ MaxHandlers \in Nat

VARIABLES
    serving,     \* the HTTP server listens
    conn,        \* each connection: new, open or gone; refused sockets are gone
    auth,        \* sockets with client.projectId set
    lookups,     \* authenticateWs calls of a socket that are pending
    ping,        \* connections with a ping interval
    handler,     \* the handler of each subscription: see Subscriptions
    commands,    \* commands on the way to Redis
    subscribed,  \* Redis: the channels of the shared subscriber
    late         \* history: sockets that closed with a lookup pending

liveVars == <<serving, conn, auth, lookups, ping, handler, commands, subscribed, late>>

Clients == Sockets \cup Streams
Handlers == 1..MaxHandlers    \* numbered in the order in which they are made
\* unused; pending: registered, its SUBSCRIBE not answered; held: its
\* unsubscribe function is with the client; orphan: SUBSCRIBE failed, nobody has
\* a function to remove it; off: removed.  cut: an UNSUBSCRIBE of its channel
\* was issued after its SUBSCRIBE; missed: its client left while it was pending.
Subscriptions == [of : Clients \cup {Nobody}, ch : Channels \cup {Nobody},
                  at : {"unused", "pending", "held", "orphan", "off"},
                  cut : BOOLEAN, missed : BOOLEAN]
Unused == [of |-> Nobody, ch |-> Nobody, at |-> "unused", cut |-> FALSE, missed |-> FALSE]
Sub(h) == [do |-> "sub", of |-> h]
Unsub(ch) == [do |-> "unsub", of |-> ch]

LiveInit ==
    /\ serving \in BOOLEAN
    /\ conn = [c \in Clients |-> "new"]
    /\ auth = {}
    /\ lookups = [c \in Sockets |-> 0]
    /\ ping = {}
    /\ handler = [h \in Handlers |-> Unused]
    /\ commands = <<>>
    /\ subscribed = {}
    /\ late = {}

Open == {c \in Sockets : conn[c] = "open"}
Registered(h) == handler[h].at \in {"pending", "held", "orphan"}
HeldBy(c) == {h \in Handlers : handler[h].of = c /\ handler[h].at = "held"}
Goes(c, to) == conn' = [conn EXCEPT ![c] = to]

\* Defect: the handlers are removed, the channels stay subscribed.
ReleaseLocally(c, leaving) ==
    /\ handler' = [h \in Handlers |->
         [handler[h] EXCEPT !.at = IF h \in HeldBy(c) THEN "off" ELSE @,
            !.missed = @ \/ (leaving /\ handler[h].of = c /\ handler[h].at = "pending")]]
    /\ UNCHANGED commands

\* The unsubscribe functions of c run: each removes its handler and unsubscribes
\* the channel, whoever else listens to it.
Release(c, leaving) ==
    LET mine == HeldBy(c)
        chs  == {handler[h].ch : h \in mine}
    IN  /\ handler' = [h \in Handlers |->
             [handler[h] EXCEPT
                !.at = IF h \in mine THEN "off" ELSE @,
                !.cut = @ \/ (Registered(h) /\ h \notin mine /\ handler[h].ch \in chs),
                !.missed = @ \/ (leaving /\ handler[h].of = c /\ handler[h].at = "pending")]]
        /\ commands' = commands \o SetToSeq({Unsub(ch) : ch \in chs})

-----------------------------------------------------------------------------
(***************************************************************************)
(* The WebSocket handlers.                                                 *)
(***************************************************************************)
\* Defect: the limit is compared after the client was counted out.
OpenBeyond(c) ==
    /\ conn[c] = "new"
    /\ IF Cardinality(Open) > MaxClients
       THEN Goes(c, "gone") /\ UNCHANGED ping
       ELSE Goes(c, "open") /\ ping' = ping \cup {c}
    /\ UNCHANGED <<serving, auth, lookups, handler, commands, subscribed, late>>

OpenSocket(c) ==
    /\ conn[c] = "new"
    /\ IF Cardinality(Open) >= MaxClients
       THEN Goes(c, "gone") /\ UNCHANGED ping
       ELSE Goes(c, "open") /\ ping' = ping \cup {c}
    /\ UNCHANGED <<serving, auth, lookups, handler, commands, subscribed, late>>

\* An auth message with the admin key: answered at once.
AuthAdmin(c) ==
    /\ conn[c] = "open" /\ c \notin auth
    /\ auth' = auth \cup {c}
    /\ ping' = ping \cup {c}
    /\ UNCHANGED <<serving, conn, lookups, handler, commands, subscribed, late>>

\* An auth message with another key starts a lookup.
AuthKey(c) ==
    /\ conn[c] = "open" /\ c \notin auth
    /\ lookups[c] < MaxLookups
    /\ lookups' = [lookups EXCEPT ![c] = @ + 1]
    /\ UNCHANGED <<serving, conn, auth, ping, handler, commands, subscribed, late>>

\* Defect: close forgets the client without running its functions.
ClosingForgets(c) ==
    /\ Goes(c, "gone")
    /\ ping' = ping \ {c}
    /\ late' = IF c \in Sockets /\ lookups[c] > 0 THEN late \cup {c} ELSE late
    /\ UNCHANGED <<handler, commands>>

\* close(ws): run what the client holds, stop its ping, forget the client.
Closing(c) ==
    /\ Goes(c, "gone")
    /\ Release(c, TRUE)
    /\ ping' = ping \ {c}
    /\ late' = IF c \in Sockets /\ lookups[c] > 0 THEN late \cup {c} ELSE late

CloseSocket(c) ==
    /\ conn[c] = "open" /\ Closing(c)
    /\ UNCHANGED <<serving, auth, lookups, subscribed>>

\* A message other than auth from a socket without a project closes it.
Refuse(c) ==
    /\ conn[c] = "open" /\ c \notin auth /\ Closing(c)
    /\ UNCHANGED <<serving, auth, lookups, subscribed>>

\* The lookup answers.  A valid key authenticates the client object and restarts
\* the ping, whether or not the socket is still there; an invalid one closes it.
LookedUp(c, valid) ==
    /\ lookups[c] > 0
    /\ lookups' = [lookups EXCEPT ![c] = @ - 1]
    /\ IF valid
       THEN /\ auth' = auth \cup {c} /\ ping' = ping \cup {c}
            /\ UNCHANGED <<conn, handler, commands, late>>
       ELSE /\ UNCHANGED auth
            /\ IF conn[c] = "open"
               THEN /\ Goes(c, "gone") /\ Release(c, TRUE) /\ ping' = ping \ {c}
                    /\ late' = IF lookups[c] > 1 THEN late \cup {c} ELSE late
               ELSE UNCHANGED <<conn, handler, commands, ping, late>>
    /\ UNCHANGED <<serving, subscribed>>

\* subscribeLogs, subscribeAllLogs: the handler is registered, then the command
\* is sent.
Register(c, ch, h) ==
    /\ handler[h] = Unused /\ \A g \in 1..(h - 1) : handler[g] # Unused
    /\ handler' = [handler EXCEPT ![h] =
         [of |-> c, ch |-> ch, at |-> "pending", cut |-> FALSE, missed |-> FALSE]]
    /\ commands' = Append(commands, Sub(h))

\* The messages subscribe and subscribe_all of an authenticated socket.
Subscribe(c, ch, h) ==
    /\ c \in Sockets /\ conn[c] = "open" /\ c \in auth
    /\ Register(c, ch, h)
    /\ UNCHANGED <<serving, conn, auth, lookups, ping, subscribed, late>>

Unsubscribe(c) ==
    /\ conn[c] = "open" /\ c \in auth
    /\ Release(c, FALSE)
    /\ UNCHANGED <<serving, conn, auth, lookups, ping, subscribed, late>>

-----------------------------------------------------------------------------
(***************************************************************************)
(* The event stream.                                                       *)
(***************************************************************************)
\* start() of the stream, once the request is authorised.
StartStream(c, ch, h) ==
    /\ c \in Streams /\ conn[c] = "new"
    /\ Goes(c, "open")
    /\ Register(c, ch, h)
    /\ UNCHANGED <<serving, auth, lookups, ping, subscribed, late>>

\* cancel() finds neither the function nor the interval while start() is pending.
CancelStream(c) ==
    /\ c \in Streams /\ conn[c] = "open" /\ Closing(c)
    /\ UNCHANGED <<serving, auth, lookups, subscribed>>

\* Defect: the ping only stops itself.
PingStops(c) ==
    /\ c \in Streams \cap ping /\ conn[c] = "gone"
    /\ ping' = ping \ {c}
    /\ UNCHANGED <<serving, conn, auth, lookups, handler, commands, subscribed, late>>

\* The ping of a stream that was cancelled throws, and cleans up after it.
PingThrows(c) ==
    /\ c \in Streams \cap ping /\ conn[c] = "gone"
    /\ Release(c, FALSE)
    /\ ping' = ping \ {c}
    /\ UNCHANGED <<serving, conn, auth, lookups, subscribed, late>>

-----------------------------------------------------------------------------
(***************************************************************************)
(* Redis and the replies.                                                  *)
(***************************************************************************)
\* SUBSCRIBE is answered: the unsubscribe function goes to the client object,
\* also when the client has left; a stream then starts its ping.
Answer ==
    /\ commands # <<>>
    /\ commands' = Tail(commands)
    /\ LET cmd == Head(commands) IN
       IF cmd.do = "sub"
       THEN /\ subscribed' = subscribed \cup {handler[cmd.of].ch}
            /\ handler' = [handler EXCEPT ![cmd.of].at = "held"]
            /\ ping' = ping \cup ({handler[cmd.of].of} \cap Streams)
       ELSE subscribed' = subscribed \ {cmd.of} /\ UNCHANGED <<handler, ping>>
    /\ UNCHANGED <<serving, conn, auth, lookups, late>>

\* SUBSCRIBE fails: the handler stays registered.
AnswerFails ==
    /\ commands # <<>> /\ Head(commands).do = "sub"
    /\ commands' = Tail(commands)
    /\ handler' = [handler EXCEPT ![Head(commands).of].at = "orphan"]
    /\ UNCHANGED <<serving, conn, auth, lookups, ping, subscribed, late>>

LiveNext ==
    /\ serving
    /\ \/ Answer \/ AnswerFails
       \/ \E c \in Sockets :
            \/ OpenSocket(c) \/ AuthAdmin(c) \/ AuthKey(c) \/ CloseSocket(c)
            \/ Refuse(c) \/ Unsubscribe(c)
            \/ \E valid \in BOOLEAN : LookedUp(c, valid)
       \/ \E c \in Streams : CancelStream(c) \/ PingThrows(c)
       \/ \E c \in Clients, ch \in Channels, h \in Handlers :
            Subscribe(c, ch, h) \/ StartStream(c, ch, h)

\* Redis answers, and the interval of a stream fires.
LiveFairness ==
    /\ WF_liveVars(Answer)
    /\ \A c \in Streams : WF_liveVars(PingThrows(c))

LiveSpec == LiveInit /\ [][LiveNext]_liveVars /\ LiveFairness

-----------------------------------------------------------------------------
LiveTypeOK ==
    /\ serving \in BOOLEAN
    /\ conn \in [Clients -> {"new", "open", "gone"}]
    /\ auth \subseteq Sockets /\ late \subseteq Sockets
    /\ lookups \in [Sockets -> 0..MaxLookups]
    /\ ping \subseteq Clients
    /\ handler \in [Handlers -> Subscriptions]
    /\ \A i \in DOMAIN commands :
         commands[i] \in {Sub(h) : h \in Handlers} \cup {Unsub(ch) : ch \in Channels}
    /\ subscribed \subseteq Channels
    /\ Cardinality(Open) <= MaxClients

\* A subscription that was answered hears its channel as long as nobody else who
\* listens to that channel has unsubscribed since; and Redis keeps no channel
\* subscribed that no handler listens to, once the commands have arrived.
HearsItsChannel ==
    /\ \A h \in Handlers :
         handler[h].at = "held" /\ ~handler[h].cut => handler[h].ch \in subscribed
    /\ commands = <<>> => \A ch \in subscribed :
         \E h \in Handlers : Registered(h) /\ handler[h].ch = ch

\* What is left of a socket that closed was pending when it closed: a handler
\* whose SUBSCRIBE was not answered yet or failed, a ping whose lookup was not.
OnlyLateLeftovers ==
    \A c \in Sockets : conn[c] = "gone" =>
      /\ \A h \in HeldBy(c) : handler[h].missed
      /\ c \in ping => c \in late

\* A stream that was cancelled, even before its subscription was answered, is
\* cleaned up in the end, unless the subscription failed.
StreamsCleanUp ==
    \A c \in Streams :
      conn[c] = "gone"
        ~> (c \notin ping /\ \A h \in Handlers :
              handler[h].of = c => handler[h].at \in {"off", "orphan"})
=============================================================================
