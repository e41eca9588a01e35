------------------------------- MODULE Probes -------------------------------
\* One check of a monitor on the wire (monitoring/checks/): TCP and ping connect
\* in a race with a timer, HTTP and gRPC fetch under an abort signal, a host name
\* that the SSRF guard looks up may come first, and what follows the response
\* head, certificate and body, has timers of its own or none.
\*
\* The operating system may open a connection at any moment, also when nobody
\* waits for it any more.  Bound: MaxRedirects, the option of that name.
EXTENDS Naturals

CONSTANT MaxRedirects

ASSUME ProbesAssumption == MaxRedirects \in Nat

VARIABLES
    probe,      \* the protocol of the check, "none" when nothing is checked
    wants,      \* what an HTTP check asks for beyond the status
    at,         \* where the check is
    tried,      \* the port that is tried, of the two of ping or the one of TCP
    socket,     \* each connect: none, pending, open, failed, ended by us
    timer,      \* off, on, fired
    hops,       \* redirects followed
    good,       \* the status of the response
    verdict,
    tardy       \* history: connects that opened when their race was over

probesVars == <<probe, wants, at, tried, socket, timer, hops, good, verdict, tardy>>

Ports == IF probe = "ping" THEN 1..2 ELSE 1..1

ProbesInit ==
    /\ probe \in {"none", "tcp", "ping", "http", "dns", "grpc"}
    /\ wants \in SUBSET {"cert", "keyword"} /\ (probe # "http" => wants = {})
    /\ at = "start" /\ tried = 0 /\ socket = [p \in 1..2 |-> "none"]
    /\ timer = "off" /\ hops = 0 /\ good = FALSE /\ verdict = "none" /\ tardy = {}

Racing(p) == at = "connect" /\ tried = p
Ends(v) == at' = "done" /\ verdict' = v
Enters(to) == at' = to /\ UNCHANGED verdict

\* ------------------------------------------------------ TCP and ping
\* Bun.connect and the timer of its race.
Connect(p) ==
    /\ Enters("connect") /\ tried' = p /\ timer' = "on"
    /\ socket' = [socket EXCEPT ![p] = "pending"]

StartTcp == probe = "tcp" /\ at = "start" /\ Enters("guard")
            /\ UNCHANGED <<probe, wants, tried, socket, timer, hops, good, tardy>>
StartPing == probe = "ping" /\ at = "start" /\ Connect(1)
             /\ UNCHANGED <<probe, wants, hops, good, tardy>>

\* assertSafeTcpTarget and assertSafeHttpUrl, also before each redirect.
Guard ==
    /\ at = "guard" /\ UNCHANGED <<probe, wants, hops, good, tardy>>
    /\ \/ Ends("down") /\ timer' = "off" /\ UNCHANGED <<tried, socket>>
       \/ probe = "tcp" /\ Connect(1)
       \/ /\ probe = "http" /\ UNCHANGED <<tried, socket, timer>>
          /\ IF timer = "fired" THEN Ends("down") ELSE Enters("fetch")

\* The open callback keeps the socket; the promise of the connect settles later.
Opens(p) ==
    /\ socket[p] = "pending" /\ socket' = [socket EXCEPT ![p] = "open"]
    /\ tardy' = IF Racing(p) THEN tardy ELSE tardy \cup {p}
    /\ UNCHANGED <<probe, wants, at, tried, timer, hops, good, verdict>>

Wins ==
    /\ at = "connect" /\ socket[tried] = "open"
    /\ socket' = [socket EXCEPT ![tried] = "ended"] /\ timer' = "off" /\ Ends("up")
    /\ UNCHANGED <<probe, wants, tried, hops, good, tardy>>

\* The race is lost: ping goes on to its next port in the same turn.
Loses(now) ==
    IF tried + 1 \in Ports
    THEN /\ Enters("connect") /\ tried' = tried + 1 /\ timer' = "on"
         /\ socket' = [now EXCEPT ![tried + 1] = "pending"]
    ELSE Ends("down") /\ timer' = "off" /\ socket' = now /\ UNCHANGED tried

Refused(p) ==
    LET now == [socket EXCEPT ![p] = "failed"] IN
    /\ socket[p] = "pending" /\ UNCHANGED <<probe, wants, hops, good, tardy>>
    /\ IF Racing(p) THEN Loses(now)
       ELSE socket' = now /\ UNCHANGED <<at, tried, timer, verdict>>

\* Defect: the timer wins and the socket that has just opened is left alone.
TimesOutOpen ==
    /\ at = "connect" /\ Loses(socket)
    /\ UNCHANGED <<probe, wants, hops, good, tardy>>

TimesOut ==
    /\ at = "connect"
    /\ Loses(IF socket[tried] = "open" THEN [socket EXCEPT ![tried] = "ended"] ELSE socket)
    /\ UNCHANGED <<probe, wants, hops, good, tardy>>

\* ---------------------------------------------------- HTTP and gRPC
StartHttp == /\ probe = "http" /\ at = "start" /\ Enters("guard") /\ timer' = "on"
             /\ UNCHANGED <<probe, wants, tried, socket, hops, good, tardy>>
StartGrpc == /\ probe = "grpc" /\ at = "start" /\ Enters("fetch") /\ timer' = "on"
             /\ UNCHANGED <<probe, wants, tried, socket, hops, good, tardy>>

\* The timer aborts the request; with none pending the signal is kept for the
\* next.  A gRPC check that failed has left its timer running.
Abort ==
    /\ probe \in {"http", "grpc"} /\ timer = "on" /\ timer' = "fired"
    /\ IF at = "fetch" THEN Ends("down") ELSE UNCHANGED <<at, verdict>>
    /\ UNCHANGED <<probe, wants, tried, socket, hops, good, tardy>>

FetchFails ==
    /\ at = "fetch" /\ Ends("down")
    /\ timer' = IF probe = "http" THEN "off" ELSE timer
    /\ UNCHANGED <<probe, wants, tried, socket, hops, good, tardy>>

\* Defect: the timer covers the first request only.
RedirectedUntimed ==
    /\ probe = "http" /\ at = "fetch" /\ hops < MaxRedirects
    /\ hops' = hops + 1 /\ Enters("guard") /\ timer' = "off"
    /\ UNCHANGED <<probe, wants, tried, socket, good, tardy>>

Redirected ==
    /\ probe = "http" /\ at = "fetch" /\ hops < MaxRedirects
    /\ hops' = hops + 1 /\ Enters("guard")
    /\ UNCHANGED <<probe, wants, tried, socket, timer, good, tardy>>

\* What an HTTP check does when the stage `done` is over: the certificate of an
\* https URL, then the body, whatever the status.
After(done, ok) ==
    IF done = "fetch" /\ "cert" \in wants THEN Enters("cert")
    ELSE IF "keyword" \in wants THEN Enters("body")
    ELSE Ends(IF ok THEN "up" ELSE "down")

\* The head of the last response; one redirect too many counts as a success.
\* With it the timer is off: nothing limits the reading of the body.
HttpResponds ==
    /\ probe = "http" /\ at = "fetch" /\ timer' = "off"
    /\ good' \in BOOLEAN /\ After("fetch", good')
    /\ UNCHANGED <<probe, wants, tried, socket, hops, tardy>>
GrpcResponds ==
    /\ probe = "grpc" /\ at = "fetch" /\ timer' = "off"
    /\ good' \in BOOLEAN /\ IF good' THEN Enters("body") ELSE Ends("down")
    /\ UNCHANGED <<probe, wants, tried, socket, hops, tardy>>

\* checkCert settles once, on the handshake, an error or its own ten seconds; the
\* check goes on with or without an expiry date.
CertSettles ==
    /\ at = "cert" /\ After("cert", good)
    /\ UNCHANGED <<probe, wants, tried, socket, timer, hops, good, tardy>>

\* A body that cannot be read passes the keyword check, and fails gRPC's.
BodyEnds ==
    /\ at = "body"
    /\ \E read \in {"found", "missing", "failed"} :
         IF probe = "grpc" THEN Ends(IF read = "found" THEN "up" ELSE "down")
         ELSE Ends(IF good /\ read # "missing" THEN "up" ELSE "down")
    /\ UNCHANGED <<probe, wants, tried, socket, timer, hops, good, tardy>>

\* --------------------------------------------------------------- DNS
StartDns ==
    /\ probe = "dns" /\ at = "start"
    /\ Ends("down") \/ Enters("resolve")       \* an unknown record type
    /\ UNCHANGED <<probe, wants, tried, socket, timer, hops, good, tardy>>

\* Records, none, others than expected, or an error.
Resolved ==
    /\ at = "resolve" /\ \E v \in {"up", "down"} : Ends(v)
    /\ UNCHANGED <<probe, wants, tried, socket, timer, hops, good, tardy>>

\* -------------------------------------------------------------------
Starts == StartTcp \/ StartPing \/ StartHttp \/ StartGrpc \/ StartDns

ProbesNext ==
    \/ Starts \/ Guard \/ Wins \/ TimesOut
    \/ \E p \in Ports : Opens(p) \/ Refused(p)
    \/ Abort \/ FetchFails \/ Redirected \/ HttpResponds \/ GrpcResponds
    \/ CertSettles \/ BodyEnds \/ Resolved

\* Timers fire, a settled promise is acted on, name servers answer or are given
\* up by the resolver.  No connection opens or fails by a promise of ours, and no
\* server answers a request or ends a body.
ProbesFairness ==
    /\ WF_probesVars(Starts) /\ WF_probesVars(Guard) /\ WF_probesVars(Resolved)
    /\ WF_probesVars(TimesOut) /\ WF_probesVars(Abort) /\ WF_probesVars(CertSettles)

ProbesSpec == ProbesInit /\ [][ProbesNext]_probesVars /\ ProbesFairness

ProbesTypeOK ==
    /\ at \in {"start", "guard", "connect", "fetch", "cert", "body", "resolve", "done"}
    /\ tried \in 0..2 /\ (at = "connect" <=> tried \in Ports /\ verdict = "none")
    /\ socket \in [1..2 -> {"none", "pending", "open", "failed", "ended"}]
    /\ timer \in {"off", "on", "fired"} /\ hops \in 0..MaxRedirects /\ good \in BOOLEAN
    /\ verdict \in {"none", "up", "down"} /\ (verdict # "none" <=> at = "done")
    /\ tardy \subseteq 1..2 /\ \A p \in tardy : socket[p] = "open"

\* A check leaves a connection behind only if the connection opened when the race
\* with its timer was over: whatever opened in time is ended by the check, also
\* when the timer fires between the open callback and the promise
\* (checks/tcp-check.ts and ping-check.ts, "close the orphan socket").
NoStraySocket == \A p \in 1..2 : socket[p] = "open" => Racing(p) \/ p \in tardy

\* Every check ends, however the other side keeps silent, except while it reads
\* the body of a response, for which no check has a timer: the uptime worker sets
\* the next due time of a monitor only when its check has ended.
ChecksEnd == probe # "none" ~> at \in {"done", "body"}
=============================================================================
