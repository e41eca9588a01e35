------------------------------ MODULE LogsPage ------------------------------
(***************************************************************************)
(* The console's log page (frontend/src/routes/logs/+page.svelte): a list  *)
(* of stored rows, newest first, asked for page by page with the offset of *)
(* the list's length, to which the lines of a live socket are appended.    *)
(* Requests overlap - the page asks on every change of a setting, every    *)
(* five seconds, for older rows and for the rows since a time - and their  *)
(* answers are taken as they come.  A line is published before its batch   *)
(* is inserted, and the batches are inserted in any order.                 *)
(*                                                                         *)
(* Lines are numbers, a later line the higher, and the lines in Together   *)
(* have the time of the one before.  Rows are sorted by their time alone:  *)
(* each query puts those of one time in an order of its own.               *)
(*                                                                         *)
(* Some lines pass the page's search and filters, be it the one or the     *)
(* other that is set.  A live line carries neither container nor level     *)
(* (LogEntry in monitoring/log-streamer.ts): a filter on those drops it, a *)
(* search does not look at it.  The two queries of a request (rows and     *)
(* count) see the same rows.                                               *)
(***************************************************************************)
EXTENDS Integers, FiniteSets, Sequences

CONSTANTS MaxLines,  \* bound: log lines
          Earlier,   \* those stored before the page was opened
          Matching,  \* those that pass the search and the filters
          Together,  \* those with the timestamp of the line before
          PageSize,  \* PAGE_SIZE
          MaxShown,  \* MAX_LIVE_LOGS
          MaxPages   \* bound: requests of the page

ASSUME PageAssumption ==
    /\ {PageSize, MaxPages} \subseteq Nat \ {0} /\ {MaxLines, MaxShown} \subseteq Nat
    /\ Earlier \in 0..MaxLines
    /\ Matching \subseteq 1..MaxLines

VARIABLES
    emitted,      \* how many lines were published
    storedRows,   \* those that were inserted
    socket,       \* the page's socket: "opening", "ready" or "lost"
    feed,         \* the lines on their way to it
    narrowed,     \* what is set: "none", "search" or "filter" (a container or a level)
    logs,         \* the rows shown: line, and whether it came live
    total,        \* how many the server counted
    oldestLoaded, \* the last page came short
    loadingOlder, \* a request for older rows is pending
    requests,     \* the requests by number; an answer taken is "over"
    failed,       \* an error is shown
    storedThen,   \* history: the rows stored when the list was asked for
    outOfTurn     \* history: an answer or a line was taken that does not fit the list

pageVars == <<emitted, storedRows, socket, feed, narrowed, logs, total, oldestLoaded,
              loadingOlder, requests, failed, storedThen, outOfTurn>>

Time(line) == Cardinality((1..line) \ Together)
Passing(by) == IF by = "none" THEN 1..MaxLines ELSE Matching
LiveLines == {logs[i].line : i \in {j \in DOMAIN logs : logs[j].live}}
PageRows == {logs[i].line : i \in {j \in DOMAIN logs : ~logs[j].live}}
Pending == {i \in DOMAIN requests : requests[i].stage # "over"}
Enquiry(kind, by, at, since) ==
    [kind |-> kind, by |-> by, at |-> at, since |-> since, stage |-> "asked", rows |-> <<>>,
     count |-> 0, stored |-> {}, live |-> IF kind = "older" THEN LiveLines ELSE {}, spoilt |-> FALSE]
Over(r) == [Enquiry(IF r.kind = "older" THEN "older" ELSE "load", "none", 0, 0) EXCEPT !.stage = "over"]

PageInit ==
    /\ emitted = Earlier /\ storedRows = 1..Earlier
    /\ socket = "opening" /\ feed = <<>> /\ narrowed = "none"
    /\ logs = <<>> /\ total = 0 /\ oldestLoaded = FALSE /\ loadingOlder = FALSE
    /\ requests = <<Enquiry("load", "none", 0, 0)>>
    /\ failed = FALSE /\ storedThen = {} /\ outOfTurn = FALSE
-----------------------------------------------------------------------------
(* The server and the socket *)

Publish ==
    /\ emitted < MaxLines
    /\ emitted' = emitted + 1
    /\ feed' = IF socket = "ready" THEN Append(feed, emitted + 1) ELSE feed
    /\ UNCHANGED <<storedRows, socket, narrowed, logs, total, oldestLoaded, loadingOlder,
                   requests, failed, storedThen, outOfTurn>>

InsertRow(line) ==
    /\ line \in (1..emitted) \ storedRows
    /\ storedRows' = storedRows \cup {line}
    /\ UNCHANGED <<emitted, socket, feed, narrowed, logs, total, oldestLoaded,
                   loadingOlder, requests, failed, storedThen, outOfTurn>>

Subscribed ==
    /\ socket = "opening" /\ socket' = "ready"
    /\ UNCHANGED <<emitted, storedRows, feed, narrowed, logs, total, oldestLoaded,
                   loadingOlder, requests, failed, storedThen, outOfTurn>>

\* Nothing opens it again before a setting is changed; one that never opens stays "opening".
SocketLost ==
    /\ socket = "ready" /\ socket' = "lost" /\ feed' = <<>>
    /\ UNCHANGED <<emitted, storedRows, narrowed, logs, total, oldestLoaded, loadingOlder,
                   requests, failed, storedThen, outOfTurn>>

\* A line that the list holds already, or one that pushes the first row out, spoils it.
\* A line that comes while the page is paused is counted elsewhere and not shown.
OnWsMessage(paused) ==
    /\ feed # <<>> /\ feed' = Tail(feed)
    /\ LET longer == Append(logs, [line |-> Head(feed), live |-> TRUE])
           cut == IF Len(longer) > MaxShown THEN Len(longer) - MaxShown ELSE 0 IN
       IF paused \/ narrowed = "filter" THEN UNCHANGED <<logs, total, outOfTurn>>
       ELSE /\ logs' = SubSeq(longer, 1 + cut, Len(longer))
            /\ total' = total + 1
            /\ outOfTurn' = (outOfTurn \/ Head(feed) \in storedThen \/ cut > 0)
    /\ UNCHANGED <<emitted, storedRows, socket, narrowed, oldestLoaded, loadingOlder, requests, failed,
                   storedThen>>

\* How a query orders the rows: by desc(logs.timestamp), and by nothing else.
Orders == {order \in [1..MaxLines -> 1..MaxLines] :
             \A m, n \in 1..MaxLines :
                 /\ m # n => order[m] # order[n]
                 /\ Time(m) < Time(n) => order[m] < order[n]}

\* The rows of a page: of those found, the rows with r.at before them and the next.
Found(r) == {n \in storedRows \cap Passing(r.by) : Time(n) >= r.since}
Before(found, n, order) == Cardinality({m \in found : order[m] > order[n]})
PageOf(r, order) ==
    LET page == {n \in Found(r) : Before(Found(r), n, order) \in r.at..(r.at + PageSize - 1)}
    IN [k \in 1..Cardinality(page) |-> CHOOSE n \in page : Before(Found(r), n, order) = r.at + k - 1]

\* Older rows are asked for past the rows of the list and those stored since: the
\* offset fits if just the live lines then shown were, each newer than the list.
OffsetFits(r) ==
    LET since == (storedRows \ storedThen) \cap Passing(r.by)
    IN since = r.live /\ \A n \in since, m \in storedThen : Time(n) >= Time(m)
\* The offset parts rows of one time: which of them were shown nobody can tell.
PartsATime(r, order) ==
    \E m, n \in Found(r) :
        Time(m) = Time(n) /\ Before(Found(r), m, order) < r.at /\ Before(Found(r), n, order) >= r.at
Answer(r, order) ==
    [r EXCEPT !.stage = "answered", !.rows = PageOf(r, order), !.by = "none", !.at = 0, !.since = 0,
        !.live = {},
        !.count = IF r.kind = "older" THEN 0 ELSE Cardinality(Found(r)),
        !.stored = IF r.kind = "older" THEN {} ELSE storedRows,
        !.spoilt = r.spoilt \/ (r.kind = "older" /\ (~OffsetFits(r) \/ PartsATime(r, order)))]
SearchLogs(i) ==
    /\ requests[i].stage = "asked"
    /\ \E order \in Orders : requests' = [requests EXCEPT ![i] = Answer(@, order)]
    /\ UNCHANGED <<emitted, storedRows, socket, feed, narrowed, logs, total, oldestLoaded,
                   loadingOlder, failed, storedThen, outOfTurn>>
-----------------------------------------------------------------------------
(* The page *)

\* A load shows no error until it fails.
Load(by) ==
    /\ Len(requests) < MaxPages
    /\ requests' = Append(requests, Enquiry("load", by, 0, 0))
    /\ failed' = FALSE

\* Any change of a setting runs the effect again, which loads and opens the socket anew.
ChangeSetting(by) ==
    /\ narrowed' = by /\ oldestLoaded' = FALSE
    /\ Load(by)
    /\ socket' = "opening" /\ feed' = <<>>
    /\ UNCHANGED <<emitted, storedRows, logs, total, loadingOlder, storedThen, outOfTurn>>
\* So do the control's own handler (that of the search field 300 ms later) and, unless
\* the page is paused, the refresh interval.
Reload ==
    /\ Load(narrowed)
    /\ UNCHANGED <<emitted, storedRows, socket, feed, narrowed, logs, total, oldestLoaded,
                   loadingOlder, storedThen, outOfTurn>>

AskOlder ==
    /\ logs # <<>> /\ ~oldestLoaded /\ total > Len(logs) /\ Len(requests) < MaxPages
    /\ loadingOlder' = TRUE
    /\ requests' = Append(requests, Enquiry("older", narrowed, Len(logs), 0))
    /\ UNCHANGED <<emitted, storedRows, socket, feed, narrowed, logs, total, oldestLoaded,
                   failed, storedThen, outOfTurn>>
\* Defect: the button can be pressed while older rows are on their way.
LoadOlderAgain == AskOlder
LoadOlder == ~loadingOlder /\ AskOlder

JumpToTime(line) ==
    /\ Len(requests) < MaxPages
    /\ requests' = Append(requests, Enquiry("jump", narrowed, 0, Time(line)))
    /\ UNCHANGED <<emitted, storedRows, socket, feed, narrowed, logs, total, oldestLoaded,
                   loadingOlder, failed, storedThen, outOfTurn>>

\* A list that was replaced does not go on where older rows were asked for.
Spoil(rs) == [k \in DOMAIN rs |-> IF rs[k].kind = "older" /\ rs[k].stage # "over"
                                  THEN [rs[k] EXCEPT !.spoilt = TRUE] ELSE rs[k]]
ListTaken(i) ==
    /\ requests[i].stage = "answered" /\ requests[i].kind # "older"
    /\ LET r == requests[i] IN
       /\ logs' = [k \in DOMAIN r.rows |-> [line |-> r.rows[k], live |-> FALSE]]
       /\ total' = r.count /\ oldestLoaded' = (Len(r.rows) < PageSize)
       /\ storedThen' = r.stored
       /\ outOfTurn' = \E k \in DOMAIN requests :
                          k > i /\ requests[k].kind # "older" /\ requests[k].stage = "over"
    /\ requests' = Spoil([requests EXCEPT ![i] = Over(@)])
    /\ UNCHANGED <<emitted, storedRows, socket, feed, narrowed, loadingOlder, failed>>
OlderTaken(i) ==
    /\ requests[i].stage = "answered" /\ requests[i].kind = "older"
    /\ LET r == requests[i] IN
       /\ logs' = logs \o [k \in DOMAIN r.rows |-> [line |-> r.rows[k], live |-> FALSE]]
       /\ oldestLoaded' = (oldestLoaded \/ Len(r.rows) < PageSize)
       /\ outOfTurn' = (outOfTurn \/ r.spoilt)
    /\ loadingOlder' = FALSE
    /\ requests' = [requests EXCEPT ![i] = Over(@)]
    /\ UNCHANGED <<emitted, storedRows, socket, feed, narrowed, total, failed, storedThen>>
\* A jump that fails says nothing.
RequestFails(i) ==
    /\ requests[i].stage = "asked"
    /\ failed' = (failed \/ requests[i].kind # "jump")
    /\ loadingOlder' = (loadingOlder /\ requests[i].kind # "older")
    /\ requests' = [requests EXCEPT ![i] = Over(@)]
    /\ UNCHANGED <<emitted, storedRows, socket, feed, narrowed, logs, total, oldestLoaded,
                   storedThen, outOfTurn>>

ClearLogList ==
    /\ logs # <<>> /\ logs' = <<>> /\ total' = 0
    /\ requests' = Spoil(requests)
    /\ UNCHANGED <<emitted, storedRows, socket, feed, narrowed, oldestLoaded, loadingOlder,
                   failed, storedThen, outOfTurn>>

PageNext ==
    \/ Publish \/ Subscribed \/ SocketLost \/ \E paused \in BOOLEAN : OnWsMessage(paused)
    \/ \E line \in 1..MaxLines : InsertRow(line) \/ JumpToTime(line)
    \/ \E i \in DOMAIN requests : SearchLogs(i) \/ ListTaken(i) \/ OlderTaken(i) \/ RequestFails(i)
    \/ \E by \in {"none", "search", "filter"} : ChangeSetting(by)
    \/ Reload \/ LoadOlder \/ ClearLogList

PageSpec == PageInit /\ [][PageNext]_pageVars
-----------------------------------------------------------------------------
PageTypeOK ==
    /\ emitted \in 0..MaxLines /\ storedRows \subseteq 1..emitted
    /\ Len(logs) <= MaxShown + MaxPages * PageSize /\ Len(requests) <= MaxPages

\* Taken in turn, the answers and the live lines make one list (load, loadOlder,
\* onWsMessage): with no request pending and no error shown, and unless an answer was
\* overtaken, the list was replaced under a request for older rows, the lines stored
\* since differ from those that came live, or a page ended between rows of one time, no
\* line is shown twice, every row of a page passes what is set, and no row with a later
\* time than one shown is missing.
LogsInTurn ==
    Pending = {} /\ ~failed /\ ~outOfTurn =>
        /\ \A i, j \in DOMAIN logs : logs[i].line = logs[j].line => i = j
        /\ PageRows \subseteq Passing(narrowed)
        /\ \A n \in storedThen \cap Passing(narrowed), m \in PageRows :
              Time(n) > Time(m) => n \in PageRows \cup LiveLines
=============================================================================
