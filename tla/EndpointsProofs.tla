--------------------------- MODULE EndpointsProofs ---------------------------
(***************************************************************************)
(* Proofs about the rest of what MCConsole runs: the handlers that read    *)
(* before they write (ReadThenWrite), for any number of callers and of     *)
(* rows of a name; a request's way through the server (ApiAccess), and     *)
(* that it is answered as its caller means it, from what the tables say of *)
(* a call and its route; the views of a trace (TraceViews), for any number *)
(* of spans and runs; that MCConsole runs each part as it is, so that what *)
(* is proved of a part - here, in ConsoleProofs or in TenancyProofs -      *)
(* holds in the run.                                                       *)
(***************************************************************************)
EXTENDS MCConsole, ConsoleProofs, TenancyProofs

-----------------------------------------------------------------------------
(***************************************************************************)
(* ReadThenWrite.                                                          *)
(***************************************************************************)
\* An incident, or the rows of a name: the other variables keep their first values.
OneObject ==
    /\ object # "incident" => status = "none" /\ born = "none" /\ ~dated
    /\ object = "incident" => copies = 0
    /\ born = "none" => status = "none"
    /\ object = "incident" /\ born = "none" => \A c \in Clients : ~request[c].pending

\* A reading that nobody has overtaken still tells the truth: the incident may
\* become what it was asked to be, unless it is gone, and nobody has the name.
FreshReading ==
    \A c \in Clients : request[c].pending /\ ~request[c].stale =>
        IF object = "incident"
        THEN status = "none" \/ request[c].status \in StatusLifecycle(status)
        ELSE copies = 0

\* The type invariant, variable by variable.
Typed ==
    /\ object \in {"incident"} \cup Kinds
    /\ status \in {"none"} \cup Statuses /\ born \in {"none"} \cup Statuses
    /\ dated \in BOOLEAN /\ crossed \in BOOLEAN /\ renamed \in BOOLEAN
    /\ copies \in 0..MaxCopies
    /\ request \in [Clients -> [pending : BOOLEAN, status : {"none"} \cup Statuses,
                                stale : BOOLEAN]]

WriteInv == Typed /\ OneObject /\ FreshReading /\ OnlyOverlapsSpoil

USE WriteAssumption

\* The invariant of the handlers holds at first, ...
LEMMA WriteInitInv == WriteInit => WriteInv
<1> SUFFICES ASSUME WriteInit PROVE WriteInv
  OBVIOUS
<1>1. Typed
  <2>1. request \in [Clients -> [pending : BOOLEAN, status : {"none"} \cup Statuses,
                                stale : BOOLEAN]]
    BY DEF WriteInit, NoRequest
  <2>2. copies \in 0..MaxCopies
    BY DEF WriteInit
  <2> QED
    BY <2>1, <2>2, Zenon DEF WriteInit, Typed
<1>2. OneObject /\ FreshReading
  BY DEF WriteInit, OneObject, FreshReading, NoRequest
<1>3. OnlyOverlapsSpoil
  BY DEF WriteInit, OnlyOverlapsSpoil, OnlyOverlapsReopen, OnlyGapsDuplicate
<1> QED
  BY <1>1, <1>2, <1>3 DEF WriteInv

\* Every variable keeps its type.
LEMMA WriteTypes == ASSUME Typed, WriteNext PROVE Typed'
<1>1. CASE PostIncident \/ RemoveIncident \/ RemoveName
  <2>1. request' \in [Clients -> [pending : BOOLEAN, status : {"none"} \cup Statuses,
                                 stale : BOOLEAN]]
    BY <1>1, Zenon DEF PostIncident, RemoveIncident, RemoveName, Typed
  <2>2. copies' \in 0..MaxCopies
    BY <1>1 DEF PostIncident, RemoveIncident, RemoveName, Typed
  <2>3. status' \in {"none"} \cup Statuses /\ born' \in {"none"} \cup Statuses
    BY <1>1 DEF PostIncident, RemoveIncident, RemoveName, incidentVars, Typed
  <2>4. /\ object' \in {"incident"} \cup Kinds
        /\ dated' \in BOOLEAN /\ crossed' \in BOOLEAN /\ renamed' \in BOOLEAN
    BY <1>1, Zenon DEF PostIncident, RemoveIncident, RemoveName, incidentVars, Typed
  <2> QED
    BY <2>1, <2>2, <2>3, <2>4, Zenon DEF Typed
<1>2. ASSUME NEW c \in Clients, ReadIncident(c) PROVE Typed'
  BY <1>2 DEF ReadIncident, Asks, incidentVars, Typed, StatusLifecycle
<1>3. ASSUME NEW c \in Clients, NEW k, Look(c, k) PROVE Typed'
  BY <1>3 DEF Look, Asks, incidentVars, Typed
<1>4. ASSUME NEW c \in Clients, UpdateIncident(c) \/ InsertName(c) \/ PutRule(c)
      PROVE  Typed'
  <2>1. Written(c)
    BY <1>4 DEF UpdateIncident, InsertName, PutRule
  <2>2. request' \in [Clients -> [pending : BOOLEAN, status : {"none"} \cup Statuses,
                                 stale : BOOLEAN]]
    BY <2>1 DEF Written, NoRequest, Typed
  <2> QED
    <3>1. copies' \in 0..MaxCopies
      BY <1>4 DEF UpdateIncident, InsertName, PutRule, Typed
    <3>2. status' \in {"none"} \cup Statuses /\ born' \in {"none"} \cup Statuses
      BY <1>4 DEF UpdateIncident, InsertName, PutRule, incidentVars, Typed
    <3>3. object' = object /\ object \in {"incident"} \cup Kinds
      BY <1>4 DEF UpdateIncident, InsertName, PutRule, Typed
    <3>4. dated' \in BOOLEAN /\ crossed' \in BOOLEAN /\ renamed' \in BOOLEAN
      <4>1. request[c].stale \in BOOLEAN
        BY DEF Typed
      <4> QED
        BY <1>4, <4>1 DEF UpdateIncident, InsertName, PutRule, Crosses, incidentVars, Typed
    <3> QED
      BY <2>2, <3>1, <3>2, <3>3, <3>4 DEF Typed
<1> QED
  BY <1>1, <1>2, <1>3, <1>4
     DEF WriteNext, PostSubscriber, PostSubscriberPublic, PostRule, PostMember, PutMember,
         PutChannel, PutRetention, PostTenant

\* A write leaves only stale requests pending.
LEMMA WrittenStale ==
    ASSUME Typed, NEW c \in Clients, Written(c)
    PROVE  \A d \in Clients : ~(request'[d].pending /\ ~request'[d].stale)
  BY DEF Typed, Written, NoRequest

\* ... and every step keeps it.
LEMMA WriteStep == WriteInv /\ [WriteNext]_writeVars => WriteInv'
<1> SUFFICES ASSUME WriteInv, [WriteNext]_writeVars PROVE WriteInv'
  OBVIOUS
<1> USE DEF WriteInv, OnlyOverlapsSpoil
<1>0. WriteNext => Typed'
  BY WriteTypes
<1>1. CASE PostIncident
  BY <1>0, <1>1 DEF WriteNext, PostIncident, OneObject, FreshReading, OnlyOverlapsReopen,
                    OnlyGapsDuplicate, Statuses
<1>2. CASE RemoveIncident
  BY <1>0, <1>2 DEF WriteNext, RemoveIncident, OneObject, FreshReading, OnlyOverlapsReopen,
                    OnlyGapsDuplicate
<1>3. CASE RemoveName
  BY <1>0, <1>3 DEF WriteNext, RemoveName, incidentVars, Typed, OneObject,
                    FreshReading, OnlyOverlapsReopen, OnlyGapsDuplicate
<1>4. ASSUME NEW c \in Clients, ReadIncident(c) PROVE WriteInv'
  <2>1. Typed'
    BY <1>0, <1>4 DEF WriteNext
  <2>2. OneObject' /\ FreshReading'
    BY <1>4 DEF ReadIncident, Asks, incidentVars, Typed, OneObject, FreshReading
  <2> QED
    BY <1>4, <2>1, <2>2 DEF ReadIncident, incidentVars, OnlyOverlapsReopen, OnlyGapsDuplicate
<1>5. ASSUME NEW c \in Clients, NEW k \in Kinds, Look(c, k), Typed' PROVE WriteInv'
  <2>1. OneObject' /\ FreshReading'
    BY <1>5 DEF Look, Asks, incidentVars, Typed, OneObject, FreshReading, Kinds
  <2> QED
    BY <1>5, <2>1 DEF Look, incidentVars, OnlyOverlapsReopen, OnlyGapsDuplicate
<1>6. ASSUME NEW c \in Clients, UpdateIncident(c) PROVE WriteInv'
  <2>1. Typed'
    BY <1>0, <1>6 DEF WriteNext
  <2>2. FreshReading'
    BY <1>6, WrittenStale DEF UpdateIncident, FreshReading
  <2>3. OneObject'
    BY <1>6 DEF UpdateIncident, OneObject
  <2>4. OnlyOverlapsReopen'
    <3>1. CASE status = "none" \/ request[c].stale
      BY <1>6, <3>1 DEF UpdateIncident, Crosses, OnlyOverlapsReopen, Typed
    <3>2. CASE status # "none" /\ ~request[c].stale
      <4>1. status # "resolved" /\ status' = request[c].status
            /\ dated' = (dated \/ status' = "resolved") /\ crossed' = (crossed \/ request[c].stale)
        BY <1>6, <3>2 DEF UpdateIncident, Crosses, FreshReading, StatusLifecycle
      <4> QED
        BY <3>2, <4>1 DEF OnlyOverlapsReopen, Typed
    <3> QED
      BY <3>1, <3>2
  <2> QED
    BY <1>6, <2>1, <2>2, <2>3, <2>4 DEF UpdateIncident, OneObject, OnlyGapsDuplicate
<1>7. ASSUME NEW c \in Clients, InsertName(c) PROVE WriteInv'
  <2>1. Typed'
    BY <1>0, <1>7 DEF WriteNext
  <2>2. FreshReading'
    BY <1>7, WrittenStale DEF InsertName, FreshReading
  <2>3. OneObject' /\ object # "incident"
    BY <1>7 DEF InsertName, OneObject, incidentVars, Kinds
  <2>4. OnlyGapsDuplicate'
    <3>1. copies \in Nat /\ (copies > 0 => request[c].stale)
      BY <1>7, <2>3 DEF Typed, InsertName, FreshReading
    <3>2. CASE object \in Unique /\ copies > 0
      BY <1>7, <3>2 DEF InsertName, OnlyGapsDuplicate
    <3>3. CASE ~(object \in Unique /\ copies > 0)
      BY <1>7, <3>1, <3>3 DEF InsertName, Crosses, OnlyGapsDuplicate, Typed
    <3> QED
      BY <3>2, <3>3
  <2> QED
    BY <1>7, <2>1, <2>2, <2>3, <2>4 DEF InsertName, incidentVars, OneObject, OnlyOverlapsReopen
<1>8. ASSUME NEW c \in Clients, PutRule(c) PROVE WriteInv'
  <2>1. Typed'
    BY <1>0, <1>8 DEF WriteNext
  <2>2. FreshReading'
    BY <1>8, WrittenStale DEF PutRule, FreshReading
  <2>3. OneObject' /\ OnlyGapsDuplicate'
    <3>1. /\ object = "rule" /\ object' = object /\ copies \in Nat /\ copies' = copies + 1
          /\ renamed' = (renamed \/ copies > 0) /\ UNCHANGED <<status, dated, born>>
      BY <1>8 DEF PutRule, incidentVars, Typed
    <3>2. OneObject'
      BY <3>1 DEF OneObject
    <3>3. copies' > 1 => renamed'
      <4>1. copies' > 1 => copies > 0
        BY <3>1
      <4> QED
        BY <3>1, <4>1, Zenon
    <3> QED
      BY <3>1, <3>2, <3>3 DEF OnlyGapsDuplicate, Unique
  <2> QED
    BY <1>8, <2>1, <2>2, <2>3 DEF PutRule, incidentVars, OneObject, OnlyOverlapsReopen
<1>9. CASE UNCHANGED writeVars
  BY <1>9 DEF writeVars, incidentVars, Typed, OneObject, FreshReading,
              OnlyOverlapsReopen, OnlyGapsDuplicate
<1> QED
  BY <1>0, <1>1, <1>2, <1>3, <1>4, <1>5, <1>6, <1>7, <1>8, <1>9
     DEF WriteNext, PostSubscriber, PostSubscriberPublic, PostRule, PostMember, PutMember,
         PutChannel, PutRetention, PostTenant, Kinds

\* What a handler read and then wrote is wrong only because another request came in
\* between: a reading nobody has overtaken is still true when it is written.
THEOREM OnlyRacesSpoil == WriteSpec => []OnlyOverlapsSpoil
<1>1. WriteInv => OnlyOverlapsSpoil
  BY DEF WriteInv
<1> QED
  BY <1>1, WriteInitInv, WriteStep, PTL DEF WriteSpec

\* Type correctness of the handlers that read before they write.
THEOREM WriteTypeCorrect == WriteSpec => []WriteTypeOK
<1>1. WriteInv => WriteTypeOK
  BY DEF WriteInv, Typed, WriteTypeOK
<1> QED
  BY <1>1, WriteInitInv, WriteStep, PTL DEF WriteSpec

HIDE WriteAssumption

-----------------------------------------------------------------------------
(***************************************************************************)
(* ApiAccess.                                                              *)
(***************************************************************************)
\* A route of the tables has a method, which NoRoute has not.
Real(r) == "method" \in DOMAIN r /\ r.method # ""
AllReal(S) == \A r \in S : Real(r)

\* Each form of a route has one.
LEMMA FormsAreReal ==
    \A path, a, b, c :
        /\ Real(Gets(path, a, b)) /\ Real(Posts(path, a, b, c)) /\ Real(Puts(path, a, b, c))
        /\ Real(Deletes(path, a))
  BY DEF Real, Gets, Posts, Puts, Deletes, ApiRoute

\* A change of another field keeps it.
LEMMA FieldsAreReal ==
    \A r, v : Real(r) => /\ Real([r EXCEPT !.access = v]) /\ Real([r EXCEPT !.must = v])
                         /\ Real([r EXCEPT !.path = v]) /\ Real([r EXCEPT !.reads = v])
                         /\ Real([r EXCEPT !.uuids = v]) /\ Real([r EXCEPT !.method = "PATCH"])
  BY DEF Real

\* So do the operators the tables are built with.
LEMMA TablesAreReal ==
    /\ \A S, T : AllReal(S) /\ AllReal(T) => AllReal(S \cup T)
    /\ \A r : Real(r) => AllReal({r})
    /\ \A r, s : Real(r) /\ Real(s) => AllReal({r, s})
    /\ \A r, s, t : Real(r) /\ Real(s) /\ Real(t) => AllReal({r, s, t})
    /\ \A r, s, t, u : Real(r) /\ Real(s) /\ Real(t) /\ Real(u) => AllReal({r, s, t, u})
    /\ \A r, s, t, u, v : Real(r) /\ Real(s) /\ Real(t) /\ Real(u) /\ Real(v) => AllReal({r, s, t, u, v})
  BY DEF AllReal

\* So do the prefix, the access and the parameters given to a table.
LEMMA TableFormsAreReal ==
    \A S, x : AllReal(S) => /\ AllReal(With(x, S)) /\ AllReal(Requiring(x, S))
                                 /\ AllReal(Checking(x, S)) /\ AllReal(Under(x, S))
<1> SUFFICES ASSUME NEW S, NEW x, AllReal(S)
             PROVE  /\ AllReal(With(x, S)) /\ AllReal(Requiring(x, S))
                    /\ AllReal(Checking(x, S)) /\ AllReal(Under(x, S))
  OBVIOUS
<1>1. ASSUME NEW r \in With(x, S) PROVE Real(r)
  <2>1. PICK s \in S : r = [s EXCEPT !.access = x]
    BY DEF With
  <2> QED
    BY <2>1, FieldsAreReal DEF AllReal
<1>2. ASSUME NEW r \in Requiring(x, S) PROVE Real(r)
  <2>1. PICK s \in S : r = [s EXCEPT !.must = x]
    BY DEF Requiring
  <2> QED
    BY <2>1, FieldsAreReal DEF AllReal
<1>3. ASSUME NEW r \in Under(x, S) PROVE Real(r)
  <2>1. PICK s \in S : r = [s EXCEPT !.path = x \o s.path]
    BY DEF Under
  <2> QED
    BY <2>1, FieldsAreReal DEF AllReal
<1>4. ASSUME NEW r \in Checking(x, S) PROVE Real(r)
  <2>1. PICK s \in S : r = [s EXCEPT !.uuids = x]
    BY DEF Checking
  <2> QED
    BY <2>1, FieldsAreReal DEF AllReal
<1> QED
  BY <1>1, <1>2, <1>3, <1>4 DEF AllReal

\* And so has every route.
LEMMA RoutesAreReal == AllReal(Routes)
<1>1. /\ AllReal(IssueLists) /\ AllReal(IssueChanges) /\ AllReal(EventsApi) /\ AllReal(CommentsApi)
      /\ AllReal(MonitorLists) /\ AllReal(MonitorChanges) /\ AllReal(MonitorChecks) /\ AllReal(AlertLists)
  BY FormsAreReal, FieldsAreReal, TablesAreReal, TableFormsAreReal, Zenon
     DEF IssueLists, IssueChanges, EventsApi, CommentsApi, MonitorLists, MonitorChanges, MonitorChecks, AlertLists
<1>2. /\ AllReal(NewAlerts) /\ AllReal(AlertChanges) /\ AllReal(AlertTests) /\ AllReal(AlertChannels)
      /\ AllReal(TraceLists) /\ AllReal(WorkflowLists) /\ AllReal(LogVolumes) /\ AllReal(LogSearch)
  BY FormsAreReal, FieldsAreReal, TablesAreReal, TableFormsAreReal, Zenon
     DEF NewAlerts, AlertChanges, AlertTests, AlertChannels, TraceLists, WorkflowLists, LogVolumes, LogSearch
<1>3. /\ AllReal(LogsApi) /\ AllReal(ReleaseRows) /\ AllReal(ReleaseHealth) /\ AllReal(TeamRows)
      /\ AllReal(TeamChanges) /\ AllReal(WindowLists) /\ AllReal(WindowChanges) /\ AllReal(IncidentLists)
  BY FormsAreReal, FieldsAreReal, TablesAreReal, TableFormsAreReal, Zenon
     DEF LogsApi, ReleaseRows, ReleaseHealth, TeamRows, TeamChanges, WindowLists, WindowChanges, IncidentLists
<1>4. /\ AllReal(IncidentChanges) /\ AllReal(ChannelSettings) /\ AllReal(ChannelTests) /\ AllReal(SearchApi)
      /\ AllReal(ProjectRows) /\ AllReal(ProjectChanges) /\ AllReal(DashboardApi) /\ AllReal(SavedSearchesApi)
  BY FormsAreReal, FieldsAreReal, TablesAreReal, TableFormsAreReal, Zenon
     DEF IncidentChanges, ChannelSettings, ChannelTests, SearchApi, ProjectRows, ProjectChanges, DashboardApi, SavedSearchesApi
<1>5. /\ AllReal(SourcemapsApi) /\ AllReal(SubscriberRows) /\ AllReal(SubscriberChanges) /\ AllReal(FingerprintRows)
      /\ AllReal(FingerprintChanges) /\ AllReal(TenantHealthApi) /\ AllReal(ExportRows) /\ AllReal(ExportLogs)
  BY FormsAreReal, FieldsAreReal, TablesAreReal, TableFormsAreReal, Zenon
     DEF SourcemapsApi, SubscriberRows, SubscriberChanges, FingerprintRows, FingerprintChanges, TenantHealthApi, ExportRows, ExportLogs
<1>6. /\ AllReal(EmbedPages) /\ AllReal(EmbedDashboard) /\ AllReal(PublicPages) /\ AllReal(StatusApi)
      /\ AllReal(StatusHtml) /\ AllReal(HealthApi) /\ AllReal(Metrics) /\ AllReal(ContainerStats)
  BY FormsAreReal, FieldsAreReal, TablesAreReal, TableFormsAreReal, Zenon
     DEF EmbedPages, EmbedDashboard, PublicPages, StatusApi, StatusHtml, HealthApi, Metrics, ContainerStats
<1>7. /\ AllReal(HostLists) /\ AllReal(AdminProjects) /\ AllReal(AdminTenants) /\ AllReal(RetentionApi)
      /\ AllReal(AgentApi) /\ AllReal(SentryApi) /\ AllReal(LogSocket) /\ AllReal(OpenApi)
  BY FormsAreReal, FieldsAreReal, TablesAreReal, TableFormsAreReal, Zenon
     DEF HostLists, AdminProjects, AdminTenants, RetentionApi, AgentApi, SentryApi, LogSocket, OpenApi
<1> QED
  BY <1>1, <1>2, <1>3, <1>4, <1>5, <1>6, <1>7 DEF Routes, AllReal

\* A route that was found is one.
LEMMA RoutesAreNot == \A r \in Routes : r # NoRoute
<1>1. NoRoute.method = ""
  BY DEF NoRoute, ApiRoute
<1> QED
  BY <1>1, RoutesAreReal DEF AllReal, Real

\* Until it is answered a request has no scope; the project is one of four.
Unscoped ==
    /\ inquiry.project \in {"none", "own", "other", "unbound", "slug"}
    /\ stage # "answered" => scope = "none"

AccessInv == AccessTypeOK /\ Unscoped /\ OnlyInReach

\* The invariant of a request's way holds at first, ...
LEMMA AccessInitInv == AccessInit => AccessInv
  BY DEF AccessInit, AccessInv, AccessTypeOK, Unscoped, OnlyInReach, ApiKeys, ProjectKeys, ProjectParams

\* What the handlers' check of a key gives: the instance key reaches what it asks for, a
\* project's key its own project.
LEMMA ScopeIs ==
    ASSUME Unscoped, ResolveScope.code = 200
    PROVE  /\ ResolveScope.reach \in {"own", "other", "unbound", "slug", "all"}
           /\ Key = "instance" \/ (Key \in ProjectKeys /\ ResolveScope.reach = "own")
<1>1. Requested \in {"none", "own", "other", "unbound", "slug"}
  BY DEF Requested, Unscoped
<1>2. CASE Key = "instance"
  <2>1. ResolveScope = [code |-> 200, reach |-> IF Requested = "none" THEN "all" ELSE Requested]
    BY <1>2 DEF ResolveScope
  <2> QED
    BY <1>1, <1>2, <2>1
<1>3. CASE Key \notin ProjectKeys \cup {"instance"}
  <2>1. ResolveScope = [code |-> 401, reach |-> "none"]
    BY <1>3 DEF ResolveScope
  <2> QED
    BY <2>1
<1>4. CASE Key \in ProjectKeys /\ Key # "instance"
  <2>1. ResolveScope = IF Requested \in {"none", "own"} THEN [code |-> 200, reach |-> "own"]
                       ELSE [code |-> 403, reach |-> "none"]
    BY <1>4 DEF ResolveScope
  <2> QED
    BY <1>4, <2>1
<1> QED
  BY <1>2, <1>3, <1>4

\* It answers with one of three codes.
LEMMA ScopeCodes == ResolveScope.code \in {200, 401, 403}
  BY DEF ResolveScope

\* ... every step keeps it, ...
LEMMA AccessStep == AccessInv /\ [AccessNext]_accessVars => AccessInv'
<1> SUFFICES ASSUME AccessInv, [AccessNext]_accessVars PROVE AccessInv'
  OBVIOUS
<1> USE DEF MovesTo, AnswersWith
<1>1. AccessTypeOK /\ Unscoped /\ OnlyInReach
  BY DEF AccessInv
<1>2. CASE CallArrives
  <2>1. PICK call \in Calls, k \in ApiKeys, byTenant \in BOOLEAN, project \in {"none", "own", "other", "unbound", "slug"} :
          /\ inquiry' = [call |-> call, key |-> k, project |-> project, byTenant |-> byTenant]
          /\ params' = Sends(call, project, byTenant)
    BY <1>2 DEF CallArrives
  <2>2. inquiry'.call = call /\ inquiry'.key = k /\ inquiry'.project = project
    BY <2>1
  <2>3. params' \subseteq call.asks \cup ProjectParams
    BY <2>1 DEF Sends, ProjectParams, Aliases
  <2>4. stage = "client" /\ stage' = "sent" /\ UNCHANGED <<httpStatus, route, scope>>
    BY <1>2 DEF CallArrives
  <2>5. httpStatus = 0
    BY <1>1, <2>4 DEF AccessTypeOK
  <2>6. AccessTypeOK'
    BY <1>1, <2>2, <2>3, <2>4, <2>5 DEF AccessTypeOK
  <2> QED
    BY <1>1, <2>2, <2>4, <2>5, <2>6 DEF AccessInv, Unscoped, OnlyInReach
<1>3. CASE RouteFound
  <2>1. route' \in Routes /\ stage = "sent" /\ stage' = "routed" /\ UNCHANGED <<inquiry, params, scope, httpStatus>>
    BY <1>3 DEF RouteFound
  <2>2. route' # NoRoute
    BY <2>1, RoutesAreNot
  <2>3. httpStatus = 0
    BY <1>1, <2>1 DEF AccessTypeOK
  <2>4. AccessTypeOK'
    <3>1. NoRoute' = NoRoute
      BY DEF NoRoute, ApiRoute
    <3> QED
      BY <1>1, <2>1, <2>2, <2>3, <3>1 DEF AccessTypeOK
  <2> QED
    BY <1>1, <2>1, <2>3, <2>4 DEF AccessInv, Unscoped, OnlyInReach
<1>4. CASE NoRouteFound
  <2>1. stage = "sent" /\ stage' = "answered" /\ httpStatus' = 404 /\ UNCHANGED <<inquiry, params, route, scope>>
    BY <1>4 DEF NoRouteFound
  <2> QED
    BY <1>1, <2>1 DEF AccessInv, AccessTypeOK, Unscoped, OnlyInReach
<1>5. CASE TenantScope
  <2>1. stage = "routed" /\ stage' = "scoped" /\ params' = Filled(params)
        /\ UNCHANGED <<inquiry, route, scope, httpStatus>>
    BY <1>5 DEF TenantScope
  <2>2. params' \subseteq inquiry.call.asks \cup ProjectParams
    BY <1>1, <2>1 DEF AccessTypeOK, Filled, ProjectParams
  <2>3. httpStatus = 0
    BY <1>1, <2>1 DEF AccessTypeOK
  <2>4. AccessTypeOK'
    BY <1>1, <2>1, <2>2, <2>3 DEF AccessTypeOK
  <2> QED
    BY <1>1, <2>1, <2>3, <2>4 DEF AccessInv, Unscoped, OnlyInReach
<1>6. CASE Validated
  <2>1. stage = "scoped" /\ stage' = "valid" /\ params' \subseteq params
        /\ UNCHANGED <<inquiry, route, scope, httpStatus>>
    BY <1>6 DEF Validated
  <2>2. httpStatus = 0
    BY <1>1, <2>1 DEF AccessTypeOK
  <2>3. AccessTypeOK'
    BY <1>1, <2>1, <2>2 DEF AccessTypeOK
  <2> QED
    BY <1>1, <2>1, <2>2, <2>3 DEF AccessInv, Unscoped, OnlyInReach
<1>7. CASE Invalid
  <2>1. stage = "scoped" /\ stage' = "answered" /\ httpStatus' = 400 /\ UNCHANGED <<inquiry, params, route, scope>>
    BY <1>7 DEF Invalid
  <2> QED
    BY <1>1, <2>1 DEF AccessInv, AccessTypeOK, Unscoped, OnlyInReach
<1>8. CASE Guarded
  <2> DEFINE code == AuthGuard(inquiry.call, Key)
  <2>1. code \in {0, 401, 403}
    BY DEF AuthGuard
  <2>2. /\ stage = "valid" /\ UNCHANGED <<inquiry, params, route, scope>>
        /\ \/ stage' = "guarded" /\ httpStatus' = httpStatus
           \/ stage' = "answered" /\ httpStatus' \in {401, 403}
    BY <1>8, <2>1 DEF Guarded
  <2>3. httpStatus = 0
    BY <1>1, <2>2 DEF AccessTypeOK
  <2>4. AccessTypeOK'
    BY <1>1, <2>2, <2>3 DEF AccessTypeOK
  <2> QED
    BY <1>1, <2>2, <2>3, <2>4 DEF AccessInv, Unscoped, OnlyInReach
<1>9. CASE Handled
  <2> HIDE DEF MovesTo
  <2>1. /\ stage = "guarded" /\ route.access \in {"project", "delete", "manage"}
        /\ stage' = "answered" /\ UNCHANGED <<inquiry, params, route>>
        /\ \/ httpStatus' \in {401, 403, 500} /\ UNCHANGED scope
           \/ /\ httpStatus' = 200 /\ ResolveScope.code = 200 /\ ~Denied
              /\ scope' = ResolveScope.reach /\ scope' # "slug"
    BY <1>9, ScopeCodes DEF Handled
  <2>2. Key' = Key
    BY <2>1 DEF Key
  <2>3. CASE httpStatus' \in {401, 403, 500} /\ UNCHANGED scope
    BY <1>1, <2>1, <2>3 DEF AccessInv, AccessTypeOK, Unscoped, OnlyInReach
  <2>4. CASE /\ httpStatus' = 200 /\ ResolveScope.code = 200 /\ ~Denied
             /\ scope' = ResolveScope.reach /\ scope' # "slug"
    <3>1. /\ scope' \in {"own", "other", "unbound", "all"}
          /\ Key = "instance" \/ (Key \in ProjectKeys /\ scope' = "own")
      BY <1>1, <2>4, ScopeIs
    <3>2. /\ route.access = "delete" => Key # "readonly"
          /\ route.access = "manage" => Key \in {"instance", "admin"}
      BY <2>4 DEF Denied
    <3>3. AccessTypeOK'
      BY <1>1, <2>1, <2>4, <3>1 DEF AccessTypeOK
    <3>4. OnlyInReach'
      BY <2>1, <2>2, <3>1, <3>2 DEF OnlyInReach, ProjectKeys
    <3> QED
      BY <1>1, <2>1, <3>3, <3>4 DEF AccessInv, Unscoped
  <2> QED
    BY <2>1, <2>3, <2>4
<1>10. CASE HandledForInstance
  <2>1. /\ stage = "guarded" /\ route.access = "instance" /\ stage' = "answered"
        /\ httpStatus' \in {200, 401} /\ (httpStatus' = 200 => Key = "instance")
        /\ UNCHANGED <<inquiry, params, route, scope>>
    BY <1>10 DEF HandledForInstance
  <2>2. Key' = Key
    BY <2>1 DEF Key
  <2>3. AccessTypeOK'
    BY <1>1, <2>1 DEF AccessTypeOK
  <2> QED
    BY <1>1, <2>1, <2>2, <2>3 DEF AccessInv, Unscoped, OnlyInReach
<1>11. CASE HandledUnscoped
  <2>1. /\ stage = "guarded" /\ route.access \in {"open", "key"} /\ stage' = "answered" /\ httpStatus' = 200
        /\ UNCHANGED <<inquiry, params, route, scope>>
    BY <1>11 DEF HandledUnscoped
  <2>2. AccessTypeOK'
    BY <1>1, <2>1 DEF AccessTypeOK
  <2> QED
    BY <1>1, <2>1, <2>2 DEF AccessInv, Unscoped, OnlyInReach
<1>12. CASE UNCHANGED accessVars
  <2>1. Key' = Key
    BY <1>12 DEF accessVars, Key
  <2> QED
    BY <1>1, <1>12, <2>1 DEF accessVars, AccessInv, AccessTypeOK, Unscoped, OnlyInReach
<1> QED
  BY <1>2, <1>3, <1>4, <1>5, <1>6, <1>7, <1>8, <1>9, <1>10, <1>11, <1>12 DEF AccessNext

\* ... and so it always holds.
LEMMA AccessKeeps == AccessSpec => []AccessInv
  BY AccessInitInv, AccessStep, PTL DEF AccessSpec

\* Type correctness of a request's way through the server.
THEOREM AccessTypeCorrect == AccessSpec => []AccessTypeOK
<1>1. AccessInv => AccessTypeOK
  BY DEF AccessInv
<1> QED
  BY <1>1, AccessKeeps, PTL

\* No answer reaches past the key's own project without the instance key, and no role gets
\* what is kept from it, whatever is called (resolveScope, denyIfCannotDelete).
THEOREM NothingOutOfReach == AccessSpec => []OnlyInReach
<1>1. AccessInv => OnlyInReach
  BY DEF AccessInv
<1> QED
  BY <1>1, AccessKeeps, PTL
-----------------------------------------------------------------------------
(***************************************************************************)
(* That the calls are answered as their callers mean them.                 *)
(***************************************************************************)
\* What is in the query once the tenant scope has filled in the project.
Full(call, project) ==
    (call.asks \ ProjectParams) \cup (IF project = "none" THEN {} ELSE Either)

\* A project is told where the call knows a parameter for it, and where it always sends it.
ToldProject ==
    /\ inquiry.call.asks \cap ProjectParams = {} => inquiry.project = "none"
    /\ inquiry.call.always \cap ProjectParams # {} => inquiry.project # "none"

\* What a request has with it at each stage.
OnItsWay ==
    /\ stage # "client" => inquiry.call \in Calls /\ ToldProject
    /\ stage \in {"sent", "routed"} =>
          params = Sends(inquiry.call, inquiry.project, inquiry.byTenant)
    /\ stage = "scoped" => params = Full(inquiry.call, inquiry.project)
    /\ stage \in {"valid", "guarded"} =>
          params = Full(inquiry.call, inquiry.project) \cap route.reads
    /\ stage \in {"routed", "scoped", "valid", "guarded"} =>
          route \in Routes /\ Takes(route, inquiry.call)
    /\ stage = "guarded" => AuthGuard(inquiry.call, Key) = 0

\* The second half of ApiKept.
AnsweredAsMeant ==
    httpStatus # 0 /\ ~IsGap(inquiry.call) =>
        IF inquiry.project = "slug"
        THEN httpStatus \in {400, 401, 403, 500} /\ (httpStatus = 500 => Meant = "instance")
        ELSE IF httpStatus # 404 /\ Entitled(inquiry.call, route, Meant, inquiry.project)
        THEN httpStatus = 200 /\ Served(inquiry.call)
        ELSE httpStatus \in {401, 403}

\* However the project was spelled, it is filled in under both spellings, or under none.
LEMMA FilledIs ==
    ASSUME NEW call, NEW project, NEW byTenant,
           call.asks \cap ProjectParams = {} => project = "none"
    PROVE  Filled(Sends(call, project, byTenant)) = Full(call, project)
<1>1. ProjectParams = Either \cup Aliases
  BY DEF ProjectParams
<1>2. CASE project = "none"
  BY <1>2 DEF Filled, Sends, Full
<1>3. CASE project # "none" /\ byTenant
  <2>1. Sends(call, project, byTenant) = (call.asks \ ProjectParams) \cup {"tenantId"}
    BY <1>3 DEF Sends
  <2> QED
    BY <1>1, <1>3, <2>1 DEF Filled, Full, Aliases
<1>4. CASE project # "none" /\ ~byTenant
  <2>1. Sends(call, project, byTenant) = call.asks
    BY <1>4 DEF Sends
  <2> QED
    BY <1>1, <1>4, <2>1 DEF Filled, Full
<1> QED
  BY <1>2, <1>3, <1>4

\* A call that is no gap is one the route answers, and is sent with the key it means.
LEMMA RouteAnswers ==
    ASSUME OnItsWay, stage \in {"routed", "scoped", "valid", "guarded"}, ~IsGap(inquiry.call)
    PROVE  Suits(route, inquiry.call) /\ Key = inquiry.key /\ Meant = inquiry.key
<1>1. inquiry.call \in Calls /\ route \in Routes /\ Takes(route, inquiry.call)
  BY DEF OnItsWay
<1>2. Suits(route, inquiry.call)
  BY <1>1, TablesFit
<1> QED
  BY <1>2 DEF Suits, Key, KeySent, Meant

\* A request that is not answered yet breaks no promise.
LEMMA Unanswered == ASSUME httpStatus' = 0 PROVE AnsweredAsMeant'
  BY DEF AnsweredAsMeant

\* No call but the gaps ends for want of a route or of a parameter, and none but these
\* and those that name a project by no UUID is refused before its key is looked at.
LEMMA NoneRefused ==
    ASSUME AccessInv, OnItsWay, NoRouteFound \/ Invalid
    PROVE  IsGap(inquiry.call) \/ (Invalid /\ inquiry.project = "slug")
<1>1. CASE NoRouteFound
  <2>1. inquiry.call \in Calls /\ \A r \in Routes : ~Fits(r, inquiry.call)
    BY <1>1 DEF NoRouteFound, OnItsWay
  <2> QED
    BY <2>1, TablesFit
<1>2. CASE Invalid
  <2> SUFFICES ASSUME ~IsGap(inquiry.call), inquiry.project # "slug" PROVE Valid
    BY <1>2 DEF Invalid
  <2>1. /\ Suits(route, inquiry.call) /\ ToldProject
        /\ params = Full(inquiry.call, inquiry.project)
    BY <1>2, RouteAnswers DEF Invalid, OnItsWay
  <2> QED
    BY <2>1 DEF Suits, Full, ToldProject, Valid
<1> QED
  BY <1>1, <1>2

\* Who is turned away by the guard is entitled to nothing here.
LEMMA GuardRefuses ==
    ASSUME AccessInv, OnItsWay, stage = "valid", ~IsGap(inquiry.call),
           AuthGuard(inquiry.call, Key) # 0
    PROVE  /\ AuthGuard(inquiry.call, Key) \in {401, 403}
           /\ ~Entitled(inquiry.call, route, Meant, inquiry.project)
<1> DEFINE c == inquiry.call
           k == inquiry.key
<1>1. Suits(route, c) /\ Key = k /\ Meant = k
  BY RouteAnswers
<1>2. /\ ~IsPublicPath(c.path) /\ k # "instance"
      /\ \/ k \notin ProjectKeys /\ AuthGuard(c, k) = 401
         \/ k = "readonly" /\ ~ReadOnly(c) /\ AuthGuard(c, k) = 403
  BY <1>1 DEF AuthGuard
<1>3. route.access # "open"
  BY <1>1, <1>2 DEF Suits
<1> QED
  BY <1>1, <1>2, <1>3 DEF Entitled

\* What the guard lets by.
LEMMA GuardPasses ==
    ASSUME NEW call, NEW k, AuthGuard(call, k) = 0
    PROVE  \/ IsPublicPath(call.path) \/ k = "instance"
           \/ k \in ProjectKeys /\ (k = "readonly" => ReadOnly(call))
  BY DEF AuthGuard, ProjectKeys

\* What a call asks for it gets, if the scope is the one it means.
LEMMA AllServed ==
    ASSUME AccessInv, OnItsWay, stage = "guarded", ~IsGap(inquiry.call),
           UNCHANGED <<inquiry, params, route>>,
           scope' = ScopeMeant
    PROVE  Served(inquiry.call)'
<1> DEFINE c == inquiry.call
<1>1. /\ Suits(route, c) /\ Meant = inquiry.key /\ ToldProject
      /\ params = Full(c, inquiry.project) \cap route.reads
  BY RouteAnswers DEF OnItsWay
<1>2. ASSUME NEW p \in Sends(c, inquiry.project, inquiry.byTenant) PROVE Heard(p)
  <2>1. CASE p \in c.asks \ ProjectParams
    BY <1>1, <2>1 DEF Suits, Full, Heard
  <2>2. CASE p \notin c.asks \ ProjectParams
    <3>1. p \in ProjectParams /\ inquiry.project # "none"
      BY <2>2 DEF Sends, ProjectParams, Aliases
    <3>2. route.reads \cap Either # {} /\ Either \subseteq Full(c, inquiry.project)
      BY <1>1, <3>1 DEF Suits, ToldProject, Full
    <3> QED
      BY <1>1, <3>1, <3>2 DEF Heard
  <2> QED
    BY <2>1, <2>2
<1>3. (\A p \in Sends(c, inquiry.project, inquiry.byTenant) : Heard(p))'
  BY <1>2 DEF Sends, Heard
<1>4. /\ c.body.sends \cup c.body.may \subseteq route.needs \cup route.takes
      /\ c.wants \subseteq route.gives
  BY <1>1 DEF Suits
<1>5. Meant' = inquiry.key
  BY <1>1 DEF Meant
<1>6. (c.body.sends \cup c.body.may \subseteq route.needs \cup route.takes)'
         /\ (c.wants \subseteq route.gives)'
  BY <1>4
<1>7. scope' = ScopeMeant'
  BY <1>1, <1>5 DEF ScopeMeant
<1> QED
  BY <1>3, <1>4, <1>6, <1>7 DEF Served

\* The handlers that have no check of their own answer whom the guard let by, and all of
\* them were meant to be.
LEMMA UnscopedAnswer ==
    ASSUME AccessInv, OnItsWay, HandledUnscoped, ~IsGap(inquiry.call)
    PROVE  AnsweredAsMeant'
<1> DEFINE c == inquiry.call
           k == inquiry.key
<1>1. /\ stage = "guarded" /\ route.access \in {"open", "key"} /\ httpStatus' = 200
      /\ UNCHANGED <<inquiry, params, route, scope>> /\ scope = "none"
  BY DEF HandledUnscoped, AnswersWith, AccessInv, Unscoped
<1>2. /\ Suits(route, c) /\ Key = k /\ Meant = k /\ ToldProject /\ AuthGuard(c, k) = 0
  BY <1>1, RouteAnswers DEF OnItsWay
<1>3. Entitled(c, route, k, inquiry.project)
  <2>1. CASE route.access = "open"
    BY <2>1 DEF Entitled
  <2>2. CASE route.access = "key"
    <3>1. ~IsPublicPath(c.path) /\ inquiry.project = "none"
      BY <1>2, <2>2 DEF Suits, ToldProject
    <3>2. k = "instance" \/ (k \in ProjectKeys /\ (k = "readonly" => ReadOnly(c)))
      BY <1>2, <3>1, GuardPasses
    <3> QED
      BY <2>2, <3>1, <3>2 DEF Entitled
  <2> QED
    BY <1>1, <2>1, <2>2
<1>a. inquiry.project # "slug"
  BY <1>1, <1>2 DEF Suits, ToldProject
<1>4. Served(c)'
  <2>1. scope' = ScopeMeant
    BY <1>1 DEF ScopeMeant, Meant
  <2> QED
    BY <1>1, <2>1, AllServed
<1>5. inquiry' = inquiry /\ route' = route /\ Meant' = k
  BY <1>1, <1>2 DEF Meant
<1>6. Entitled(c, route, Meant, inquiry.project)'
  BY <1>3, <1>5 DEF Entitled, ReadOnly
<1> QED
  BY <1>a, <1>1, <1>4, <1>5, <1>6 DEF AnsweredAsMeant

\* The routes of the instance answer its key.
LEMMA InstanceAnswer ==
    ASSUME AccessInv, OnItsWay, HandledForInstance, ~IsGap(inquiry.call)
    PROVE  AnsweredAsMeant'
<1> DEFINE c == inquiry.call
           k == inquiry.key
<1>1. /\ stage = "guarded" /\ route.access = "instance"
      /\ httpStatus' = IF Key = "instance" THEN 200 ELSE 401
      /\ UNCHANGED <<inquiry, params, route, scope>> /\ scope = "none"
  BY DEF HandledForInstance, AnswersWith, AccessInv, Unscoped
<1>2. Key = k /\ Meant = k /\ Suits(route, c) /\ ToldProject
  BY <1>1, RouteAnswers DEF OnItsWay
<1>a. inquiry.project # "slug"
  BY <1>1, <1>2 DEF Suits, ToldProject
<1>3. Served(c)'
  <2>1. scope' = ScopeMeant
    BY <1>1 DEF ScopeMeant, Meant
  <2> QED
    BY <1>1, <2>1, AllServed
<1>4. Entitled(c, route, k, inquiry.project) <=> k = "instance"
  BY <1>1 DEF Entitled, ProjectKeys
<1>5. inquiry' = inquiry /\ route' = route /\ Meant' = k
  BY <1>1, <1>2 DEF Meant
<1>6. Entitled(c, route, Meant, inquiry.project)' <=> k = "instance"
  BY <1>4, <1>5 DEF Entitled, ReadOnly
<1> QED
  BY <1>a, <1>1, <1>2, <1>3, <1>5, <1>6 DEF AnsweredAsMeant

\* What a handler with a check of its own hears of the project.
LEMMA RequestedIs ==
    ASSUME AccessInv, OnItsWay, stage = "guarded", ~IsGap(inquiry.call)
    PROVE  Requested = inquiry.project
<1>1. /\ Suits(route, inquiry.call) /\ ToldProject
      /\ params = Full(inquiry.call, inquiry.project) \cap route.reads
  BY RouteAnswers DEF OnItsWay
<1>2. CASE inquiry.project = "none"
  BY <1>2 DEF Requested
<1>3. CASE inquiry.project # "none"
  <2>1. route.reads \cap Either # {} /\ Either \subseteq Full(inquiry.call, inquiry.project)
    BY <1>1, <1>3 DEF Suits, ToldProject, Full
  <2> QED
    BY <1>1, <2>1 DEF Requested
<1> QED
  BY <1>2, <1>3

\* The other handlers answer whom their checks let by, in the scope that was meant, and
\* nobody else is entitled to an answer.
LEMMA ScopedAnswer ==
    ASSUME AccessInv, OnItsWay, Handled, ~IsGap(inquiry.call)
    PROVE  AnsweredAsMeant'
<1> DEFINE c == inquiry.call
           k == inquiry.key
           p == inquiry.project
<1>1. /\ stage = "guarded" /\ route.access \in {"project", "delete", "manage"}
      /\ UNCHANGED <<inquiry, params, route>> /\ k \in ApiKeys
      /\ p \in {"none", "own", "other", "unbound", "slug"}
  BY DEF Handled, AccessInv, AccessTypeOK, Unscoped
<1>2. /\ Suits(route, c) /\ Key = k /\ Meant = k /\ AuthGuard(c, k) = 0
  BY <1>1, RouteAnswers DEF OnItsWay
<1>3. Requested = p
  BY <1>1, RequestedIs
<1>4. inquiry' = inquiry /\ route' = route /\ Meant' = k
  BY <1>1, <1>2 DEF Meant
<1>5. Entitled(c, route, Meant, p)' <=> Entitled(c, route, k, p)
  BY <1>4 DEF Entitled, ReadOnly
<1>6. route.access \in {"project", "delete"} /\ k \in ProjectKeys /\ k = "readonly" =>
        IF route.access = "delete" THEN ~ReadOnly(c) ELSE ReadOnly(c)
  BY <1>2, GuardPasses DEF Suits, ProjectKeys
<1>7. CASE ResolveScope.code # 200
  <2>1. httpStatus' = ResolveScope.code /\ httpStatus' \in {401, 403}
    BY <1>7, ScopeCodes DEF Handled, AnswersWith
  <2>2. k # "instance" /\ (k \notin ProjectKeys \/ p \notin {"none", "own"})
    BY <1>2, <1>3, <1>7 DEF ResolveScope
  <2>3. ~Entitled(c, route, k, p)
    BY <1>1, <2>2 DEF Entitled
  <2> QED
    BY <1>4, <1>5, <2>1, <2>3 DEF AnsweredAsMeant
<1>8. CASE ResolveScope.code = 200
  <2>1. k = "instance" \/ (k \in ProjectKeys /\ p \in {"none", "own"})
    BY <1>2, <1>3, <1>8 DEF ResolveScope
  <2>2. ResolveScope.reach = IF k # "instance" THEN "own" ELSE IF p = "none" THEN "all" ELSE p
    BY <1>2, <1>3, <1>8 DEF ResolveScope
  <2>3. CASE Denied
    <3>1. httpStatus' = 403
      BY <1>8, <2>3 DEF Handled, AnswersWith
    <3>2. ~Entitled(c, route, k, p)
      <4>1. CASE route.access = "delete" /\ k = "readonly"
        BY <1>6, <4>1 DEF Entitled, ProjectKeys
      <4>2. CASE route.access = "manage" /\ k \notin {"instance", "admin"}
        BY <4>2 DEF Entitled
      <4> QED
        BY <1>2, <2>3, <4>1, <4>2 DEF Denied
    <3> QED
      BY <1>4, <1>5, <3>1, <3>2 DEF AnsweredAsMeant
  <2>4. CASE ~Denied /\ p = "slug"
    <3>1. httpStatus' = 500 /\ k = "instance"
      BY <1>8, <2>1, <2>2, <2>4 DEF Handled, AnswersWith
    <3> QED
      BY <1>4, <2>4, <3>1 DEF AnsweredAsMeant
  <2>5. CASE ~Denied /\ p # "slug"
    <3>1. httpStatus' = 200 /\ scope' = ResolveScope.reach
      BY <1>8, <2>2, <2>5 DEF Handled, AnswersWith
    <3>2. Served(c)'
      <4>1. scope' = ScopeMeant
        BY <1>1, <1>2, <2>2, <3>1 DEF ScopeMeant
      <4> QED
        BY <1>1, <4>1, AllServed
    <3>3. Entitled(c, route, k, p)
      BY <1>1, <1>2, <1>6, <2>1, <2>5 DEF Entitled, Denied, ProjectKeys
    <3> QED
      BY <1>4, <1>5, <2>5, <3>1, <3>2, <3>3 DEF AnsweredAsMeant
  <2> QED
    BY <2>3, <2>4, <2>5
<1> QED
  BY <1>7, <1>8

\* Each step brings the request on its way or answers it as it was meant.
LEMMA WayStep == AccessInv /\ OnItsWay /\ [AccessNext]_accessVars => OnItsWay'
<1> SUFFICES ASSUME AccessInv, OnItsWay, [AccessNext]_accessVars PROVE OnItsWay'
  OBVIOUS
<1>1. CASE CallArrives
  <2>1. PICK call \in Calls, k \in ApiKeys, byTenant \in BOOLEAN,
             project \in {"none", "own", "other", "unbound", "slug"} :
          /\ call.asks \cap ProjectParams = {} => project = "none"
          /\ call.always \cap ProjectParams # {} => project # "none"
          /\ inquiry' = [call |-> call, key |-> k, project |-> project, byTenant |-> byTenant]
          /\ params' = Sends(call, project, byTenant)
    BY <1>1 DEF CallArrives
  <2>2. stage' = "sent" /\ inquiry'.call = call /\ inquiry'.project = project
        /\ inquiry'.byTenant = byTenant
    BY <1>1, <2>1 DEF CallArrives, MovesTo
  <2> QED
    BY <2>1, <2>2 DEF OnItsWay, ToldProject
<1>2. CASE RouteFound
  <2>1. /\ stage = "sent" /\ stage' = "routed" /\ UNCHANGED <<inquiry, params, scope>>
        /\ route' \in Routes /\ Takes(route', inquiry.call)
    BY <1>2 DEF RouteFound, MovesTo
  <2>2. Takes(route, inquiry.call)'
    BY <2>1
  <2> QED
    BY <2>1, <2>2 DEF OnItsWay, ToldProject
<1>3. CASE TenantScope
  <2>1. /\ stage = "routed" /\ stage' = "scoped" /\ UNCHANGED <<inquiry, route, scope>>
        /\ params' = Filled(params)
    BY <1>3 DEF TenantScope, MovesTo
  <2>2. params' = Full(inquiry.call, inquiry.project)
    BY <2>1, FilledIs DEF OnItsWay, ToldProject
  <2> QED
    BY <2>1, <2>2 DEF OnItsWay, ToldProject
<1>4. CASE Validated
  <2>1. /\ stage = "scoped" /\ stage' = "valid" /\ UNCHANGED <<inquiry, route, scope>>
        /\ params' = params \cap route.reads
    BY <1>4 DEF Validated, MovesTo
  <2> QED
    BY <2>1 DEF OnItsWay, ToldProject
<1>5. CASE Guarded /\ stage' = "guarded"
  <2>1. /\ stage = "valid" /\ UNCHANGED <<inquiry, params, route, scope>>
        /\ AuthGuard(inquiry.call, Key) = 0
    BY <1>5 DEF Guarded, MovesTo, AnswersWith
  <2>2. Key' = Key
    BY <2>1 DEF Key
  <2> QED
    BY <1>5, <2>1, <2>2 DEF OnItsWay, ToldProject
<1>6. ASSUME stage # "client", stage' = "answered", UNCHANGED <<inquiry, params, route>>
      PROVE  OnItsWay'
  BY <1>6 DEF OnItsWay, ToldProject
<1>7. CASE NoRouteFound \/ Invalid \/ (Guarded /\ stage' # "guarded") \/ Handled
           \/ HandledForInstance \/ HandledUnscoped
  BY <1>6, <1>7 DEF NoRouteFound, Invalid, Guarded, Handled, HandledForInstance, HandledUnscoped,
                    AnswersWith, MovesTo
<1>8. CASE UNCHANGED accessVars
  <2>1. UNCHANGED <<inquiry, stage, params, route, scope>>
    BY <1>8 DEF accessVars
  <2> QED
    BY <2>1 DEF OnItsWay, ToldProject, Key
<1> QED
  BY <1>1, <1>2, <1>3, <1>4, <1>5, <1>7, <1>8 DEF AccessNext

LEMMA AnswerStep ==
    AccessInv /\ OnItsWay /\ AnsweredAsMeant /\ [AccessNext]_accessVars => AnsweredAsMeant'
<1> SUFFICES ASSUME AccessInv, OnItsWay, AnsweredAsMeant, [AccessNext]_accessVars
             PROVE  AnsweredAsMeant'
  OBVIOUS
<1>1. stage # "answered" => httpStatus = 0
  BY DEF AccessInv, AccessTypeOK
<1>2. CASE CallArrives \/ RouteFound \/ TenantScope \/ Validated
  BY <1>1, <1>2, Unanswered DEF CallArrives, RouteFound, TenantScope, Validated, MovesTo
<1>3. CASE NoRouteFound \/ Invalid
  <2>1. inquiry' = inquiry /\ (IsGap(inquiry.call) \/ (httpStatus' = 400 /\ inquiry.project = "slug"))
    BY <1>3, NoneRefused DEF NoRouteFound, Invalid, AnswersWith
  <2> QED
    BY <2>1 DEF AnsweredAsMeant
<1>4. CASE Guarded
  <2>1. stage = "valid" /\ UNCHANGED <<inquiry, params, route, scope>>
    BY <1>4 DEF Guarded
  <2>2. CASE AuthGuard(inquiry.call, Key) = 0
    BY <1>1, <1>4, <2>1, <2>2, Unanswered DEF Guarded, MovesTo
  <2>3. CASE AuthGuard(inquiry.call, Key) # 0 /\ ~IsGap(inquiry.call)
    <3>1. httpStatus' \in {401, 403} /\ ~Entitled(inquiry.call, route, Meant, inquiry.project)
      BY <1>4, <2>1, <2>3, GuardRefuses DEF Guarded, AnswersWith
    <3>2. ~Entitled(inquiry.call, route, Meant, inquiry.project)'
      BY <2>1, <3>1 DEF Entitled, Meant, ReadOnly
    <3> QED
      BY <3>1, <3>2 DEF AnsweredAsMeant
  <2>4. CASE IsGap(inquiry.call)
    BY <2>1, <2>4 DEF AnsweredAsMeant
  <2> QED
    BY <2>2, <2>3, <2>4
<1>5. CASE Handled \/ HandledForInstance \/ HandledUnscoped
  <2>1. inquiry' = inquiry
    BY <1>5 DEF Handled, HandledForInstance, HandledUnscoped
  <2>2. CASE IsGap(inquiry.call)
    BY <2>1, <2>2 DEF AnsweredAsMeant
  <2> QED
    BY <1>5, <2>2, ScopedAnswer, InstanceAnswer, UnscopedAnswer
<1>6. CASE UNCHANGED accessVars
  <2>1. UNCHANGED <<inquiry, stage, params, route, scope, httpStatus>>
    BY <1>6 DEF accessVars
  <2>2. Meant' = Meant /\ Entitled(inquiry.call, route, Meant, inquiry.project)'
                           = Entitled(inquiry.call, route, Meant, inquiry.project)
    BY <2>1 DEF Meant, Entitled, ReadOnly
  <2>3. ASSUME Served(inquiry.call) PROVE Served(inquiry.call)'
    BY <2>1, <2>2, <2>3 DEF Served, ScopeMeant, Sends, Heard
  <2> QED
    BY <2>1, <2>2, <2>3 DEF AnsweredAsMeant
<1> QED
  BY <1>2, <1>3, <1>4, <1>5, <1>6 DEF AccessNext

\* Every call of the clients and every request of the document but the listed ones is
\* answered in full exactly if its key is entitled to it, and reaches nothing else, but one
\* that names a project by no UUID is refused or fails: shown of every key, role, project
\* and spelling from what TablesFit says of the tables alone
\* (tenant-scope.ts, auth.ts, project-scope.ts, rbac.ts, admin-auth.ts).
THEOREM ApiHolds == AccessSpec => []ApiKept
<1>1. AccessInit => OnItsWay /\ AnsweredAsMeant
  BY DEF AccessInit, OnItsWay, AnsweredAsMeant
<1>2. AccessInv /\ AnsweredAsMeant => ApiKept
  BY DEF AccessInv, AnsweredAsMeant, ApiKept
<1> QED
  BY <1>1, <1>2, WayStep, AnswerStep, AccessKeeps, PTL DEF AccessSpec
-----------------------------------------------------------------------------
(***************************************************************************)
(* TraceViews.                                                             *)
(***************************************************************************)
\* Beside the types, the runs are a function of the durations and the spans form a forest.
ViewsInv ==
    /\ ViewsTypeOK /\ runs \in [Durations -> Nat] /\ parentOf \in Forests

\* The invariant of the views holds at first, ...
LEMMA ViewsInitInv == ViewsInit => ViewsInv
<1> SUFFICES ASSUME ViewsInit PROVE ViewsInv
  OBVIOUS
<1>1. runs \in [Durations -> Nat] /\ \A d \in Durations : runs[d] \in 0..MaxRuns(d)
  BY TraceAssumption DEF TraceAssumption, ViewsInit, MaxRuns
<1>2. parentOf \in [SpanIds -> SpanIds \cup {NoSpan}] /\ startOf \in [SpanIds -> Starts] /\ spans \in Seq(SpanIds)
  BY DEF ViewsInit, Forests
<1> QED
  BY <1>1, <1>2 DEF ViewsInit, ViewsInv, ViewsTypeOK

\* ... every step keeps it, ...
LEMMA ViewsStep == ViewsInv /\ [ViewsNext]_viewsVars => ViewsInv'
<1> SUFFICES ASSUME ViewsInv, [ViewsNext]_viewsVars PROVE ViewsInv'
  OBVIOUS
<1>1. ASSUME NEW s \in SpanIds, StoreSpan(s) PROVE ViewsInv'
  <2>1. spans' \in Seq(SpanIds)
    BY <1>1 DEF StoreSpan, ViewsInv, ViewsTypeOK
  <2> QED
    BY <1>1, <2>1 DEF StoreSpan, ViewsInv, ViewsTypeOK, MaxRuns
<1>2. ASSUME NEW d \in Durations, StoreRun(d) PROVE ViewsInv'
  <2>1. runs' = [runs EXCEPT ![d] = @ + 1] /\ runs[d] \in Nat /\ runs[d] + 1 \in 0..MaxRuns(d)
    BY <1>2, TraceAssumption DEF StoreRun, ViewsInv, ViewsTypeOK, TraceAssumption, MaxRuns
  <2>2. runs' \in [Durations -> Nat]
    BY <2>1 DEF ViewsInv
  <2>3. \A e \in Durations : runs'[e] \in 0..MaxRuns(e)
    BY <2>1 DEF ViewsInv, ViewsTypeOK
  <2> QED
    BY <1>2, <2>2, <2>3 DEF StoreRun, ViewsInv, ViewsTypeOK, MaxRuns
<1>3. CASE UNCHANGED viewsVars
  BY <1>3 DEF viewsVars, ViewsInv, ViewsTypeOK, MaxRuns
<1> QED
  BY <1>1, <1>2, <1>3 DEF ViewsNext

\* ... and so it always holds.
LEMMA ViewsKeep == ViewsSpec => []ViewsInv
  BY ViewsInitInv, ViewsStep, PTL DEF ViewsSpec

\* The runs by duration, in their order.
LEMMA RunsByDuration ==
    ASSUME ViewsInv
    PROVE  /\ runs[1] \in Nat /\ runs[2] \in Nat /\ runs[5] \in Nat /\ Total \in Nat
           /\ runs[1] + runs[2] <= Total
           /\ DOMAIN Sorted = 1..Total
           /\ \A i \in 1..Total :
                Sorted[i] = IF i <= runs[1] THEN 1 ELSE IF i <= runs[1] + runs[2] THEN 2 ELSE 5
  BY DEF ViewsInv, Durations, Total, Sorted

\* The runs that took no longer are the first ones.
LEMMA RunsAre ==
    ASSUME ViewsInv, NEW longest \in Int
    PROVE  Runs(longest) = IF longest < 1 THEN 0 ELSE IF longest < 2 THEN runs[1]
                           ELSE IF longest < 5 THEN runs[1] + runs[2] ELSE Total
<1> DEFINE n == IF longest < 1 THEN 0 ELSE IF longest < 2 THEN runs[1]
                ELSE IF longest < 5 THEN runs[1] + runs[2] ELSE Total
<1>1. n \in Nat /\ n <= Total
  BY RunsByDuration
<1>2. {i \in DOMAIN Sorted : Sorted[i] <= longest} = 1..n
  <2>1. \A i \in 1..Total : Sorted[i] <= longest <=> i <= n
    BY RunsByDuration
  <2> HIDE DEF n
  <2>2. Total \in Nat /\ DOMAIN Sorted = 1..Total
    BY RunsByDuration
  <2> QED
    BY <1>1, <2>1, <2>2
<1> HIDE DEF n
<1>3. Cardinality(1..n) = n
  <2>1. 1 \in Int /\ n \in Int /\ (1 > n => n = 0) /\ n - 1 + 1 = n
    BY <1>1
  <2>2. Cardinality(1..n) = IF 1 > n THEN 0 ELSE n - 1 + 1
    BY <2>1, FS_Interval
  <2> QED
    BY <2>1, <2>2
<1> QED
  BY <1>2, <1>3 DEF Runs, n

\* Math.ceil
LEMMA CeilIs ==
    ASSUME NEW t \in Nat, NEW m \in Nat, m > 0, m <= 100 * t
    PROVE  Ceil(m, 100) \in 1..t /\ 100 * Ceil(m, 100) >= m /\ 100 * (Ceil(m, 100) - 1) < m
<1> DEFINE k == (m + 100 - 1) \div 100
<1>1. k \in Int /\ 100 * k <= m + 99 /\ m + 99 < 100 * k + 100
  OBVIOUS
<1>2. Ceil(m, 100) = k
  BY DEF Ceil
<1> HIDE DEF k
<1>3. k \in 1..t /\ 100 * k >= m /\ 100 * (k - 1) < m
  BY <1>1
<1> QED
  BY <1>2, <1>3

\* A percentile is the least duration that so many percent kept to.
LEMMA PercentileIs ==
    ASSUME ViewsInv, Total > 0, NEW p \in {50, 95, 99}
    PROVE  /\ Percentile(p) \in {1, 2, 5}
           /\ 100 * Runs(Percentile(p)) >= p * Total /\ 100 * Runs(Percentile(p) - 1) < p * Total
<1> DEFINE k == Ceil(p * Total, 100)
           m == p * Total
<1>1. Total \in Nat
  BY RunsByDuration
<1>2. Percentile(p) = Sorted[k]
  BY <1>1 DEF Percentile
<1>3. m \in Nat /\ m > 0 /\ m <= 100 * Total
  <2>1. CASE p = 50
    BY <1>1, <2>1
  <2>2. CASE p = 95
    BY <1>1, <2>2
  <2>3. CASE p = 99
    BY <1>1, <2>3
  <2> QED
    BY <2>1, <2>2, <2>3
<1> HIDE DEF m
<1>4. k \in 1..Total /\ 100 * k >= m /\ 100 * (k - 1) < m
  <2>1. k = Ceil(m, 100)
    BY DEF m
  <2> HIDE DEF k
  <2> QED
    BY <1>1, <1>3, <2>1, CeilIs
<1> HIDE DEF k
<1>5. Percentile(p) = IF k <= runs[1] THEN 1 ELSE IF k <= runs[1] + runs[2] THEN 2 ELSE 5
  BY <1>2, <1>4, RunsByDuration
<1>6. Percentile(p) \in {1, 2, 5} /\ Percentile(p) \in Int /\ Percentile(p) - 1 \in Int
  BY <1>5
<1> DEFINE h == Runs(Percentile(p))
           l == Runs(Percentile(p) - 1)
<1>7. /\ h = IF k <= runs[1] THEN runs[1] ELSE IF k <= runs[1] + runs[2] THEN runs[1] + runs[2] ELSE Total
      /\ l = IF k <= runs[1] THEN 0 ELSE IF k <= runs[1] + runs[2] THEN runs[1] ELSE runs[1] + runs[2]
  <2>1. CASE k <= runs[1]
    BY <1>5, <2>1, RunsAre
  <2>2. CASE ~(k <= runs[1]) /\ k <= runs[1] + runs[2]
    BY <1>5, <2>2, RunsAre
  <2>3. CASE ~(k <= runs[1]) /\ ~(k <= runs[1] + runs[2])
    BY <1>5, <2>3, RunsAre
  <2> QED
    BY <2>1, <2>2, <2>3
<1> HIDE DEF h, l
<1>8. h \in Nat /\ l \in Nat /\ k <= h /\ l <= k - 1
  BY <1>4, <1>7, RunsByDuration
<1>9. 100 * h >= m /\ 100 * l < m
  BY <1>1, <1>3, <1>4, <1>8
<1> QED
  BY <1>6, <1>9 DEF h, l, m

\* A percentile of the durations of a step is what so many percent of its runs kept to and
\* fewer stayed below; a step is slow if more than one run in a hundred took more than
\* double the median (calcPercentiles, slowSteps).
LEMMA PercentilesHold == ViewsInv => PercentilesTrue
<1> SUFFICES ASSUME ViewsInv, Total > 0
             PROVE  /\ \A p \in {50, 95, 99} :
                          /\ 100 * Runs(Percentile(p)) >= p * Total
                          /\ 100 * Runs(Percentile(p) - 1) < p * Total
                    /\ SlowStep <=> 100 * (Total - Runs(2 * Percentile(50))) > Total
  BY DEF PercentilesTrue
<1> DEFINE median == Percentile(50)
           late == Percentile(99)
           t == Total
<1>1. t \in Nat /\ median \in {1, 2, 5} /\ late \in {1, 2, 5}
  BY RunsByDuration, PercentileIs
<1>2. 100 * Runs(late) >= 99 * t /\ 100 * Runs(late - 1) < 99 * t
  BY PercentileIs
<1>3. Runs(late) \in Nat /\ Runs(late - 1) \in Nat /\ Runs(2 * median) \in Nat
  BY <1>1, RunsAre, RunsByDuration
<1>4. IF late > 2 * median THEN Runs(2 * median) <= Runs(late - 1) ELSE Runs(late) <= Runs(2 * median)
  BY <1>1, RunsAre, RunsByDuration
<1>5. SlowStep <=> late > 2 * median
  BY <1>1 DEF SlowStep
<1> HIDE DEF median, late, t
<1>6. SlowStep <=> 100 * (t - Runs(2 * median)) > t
  BY <1>1, <1>2, <1>3, <1>4, <1>5
<1> QED
  BY <1>6, PercentileIs DEF median, t

\* A function that tells the elements of a finite set apart keeps their number.
Values(f, S) == {f[x] : x \in S}
Apart(f, S) == \A x, y \in S : f[x] = f[y] => x = y

LEMMA SameCount ==
    ASSUME NEW S, IsFiniteSet(S), NEW f, Apart(f, S)
    PROVE  IsFiniteSet(Values(f, S)) /\ Cardinality(Values(f, S)) = Cardinality(S)
<1> DEFINE g == [x \in S |-> f[x]]
<1>1. g \in Bijection(S, Values(f, S))
  BY DEF Bijection, Injection, Surjection, IsInjective, Values, Apart
<1>2. ExistsBijection(S, Values(f, S))
  BY <1>1 DEF ExistsBijection
<1> QED
  BY <1>2, FS_Bijection

\* The positions of a level, in the order of the level.
Positions(list, chosen) ==
    [k \in 1..Cardinality(chosen) |->
        CHOOSE i \in chosen : Cardinality({j \in chosen : Before(list, j, i)}) = k - 1]

\* at gives the positions of a level of n spans: the k-th has k - 1 before it, the level is
\* sorted, and it lists all the chosen ones.
IsLevel(list, chosen, n, at) ==
    /\ n \in Nat
    /\ Level(list, chosen) = [k \in 1..n |-> list[at[k]]]
    /\ \A k \in 1..n :
          at[k] \in chosen /\ Cardinality({j \in chosen : Before(list, j, at[k])}) = k - 1
    /\ \A k, l \in 1..n : k < l => Before(list, at[k], at[l])
    /\ \A i \in chosen : \E k \in 1..n : at[k] = i

\* A level is one: of n positions no two have the same number before them, so each number
\* below n is that of one.
LEMMA LevelIs ==
    ASSUME NEW list, NEW chosen, chosen \subseteq Nat, IsFiniteSet(chosen),
           \A i \in chosen : startOf[list[i]] \in Int
    PROVE  IsLevel(list, chosen, Cardinality(chosen), Positions(list, chosen))
<1> DEFINE n == Cardinality(chosen)
           at == Positions(list, chosen)
           Ahead(i) == {j \in chosen : Before(list, j, i)}
           rank == [i \in chosen |-> Cardinality(Ahead(i)) + 1]
<1>1. n \in Nat
  BY FS_CardinalityType
<1>2. ASSUME NEW i \in chosen
      PROVE  IsFiniteSet(Ahead(i)) /\ Cardinality(Ahead(i)) \in 0..(n - 1)
  <2>1. Ahead(i) \in SUBSET (chosen \ {i})
    BY DEF Before
  <2>2. IsFiniteSet(chosen \ {i}) /\ Cardinality(chosen \ {i}) = n - 1
    BY FS_RemoveElement
  <2> HIDE DEF Ahead, n
  <2>3. IsFiniteSet(Ahead(i)) /\ Cardinality(Ahead(i)) <= n - 1
    BY <2>1, <2>2, FS_Subset
  <2>4. Cardinality(Ahead(i)) \in Nat
    BY <2>3, FS_CardinalityType
  <2> QED
    BY <1>1, <2>3, <2>4
<1>3. ASSUME NEW i \in chosen, NEW j \in chosen, Before(list, i, j)
      PROVE  Cardinality(Ahead(i)) < Cardinality(Ahead(j))
  <2>0. ASSUME NEW x \in chosen, Before(list, x, i) PROVE Before(list, x, j) /\ x # i
    <3> DEFINE a == startOf[list[x]]
               b == startOf[list[i]]
               c == startOf[list[j]]
    <3>1. a \in Int /\ b \in Int /\ c \in Int /\ x \in Nat /\ i \in Nat /\ j \in Nat
      OBVIOUS
    <3>2. (a < b \/ (a = b /\ x < i)) /\ (b < c \/ (b = c /\ i < j))
      BY <1>3, <2>0 DEF Before
    <3>3. Before(list, x, j) <=> a < c \/ (a = c /\ x < j)
      BY DEF Before
    <3> HIDE DEF a, b, c
    <3>4. (a < c \/ (a = c /\ x < j)) /\ ~(a = b /\ x = i)
      BY <3>1, <3>2
    <3> QED
      BY <3>3, <3>4 DEF a, b
  <2>1. i \in Ahead(j) /\ Ahead(i) \subseteq Ahead(j) \ {i}
    BY <1>3, <2>0
  <2>2. IsFiniteSet(Ahead(j))
    BY <1>2
  <2>3. /\ Cardinality(Ahead(i)) \in 0..(n - 1) /\ Cardinality(Ahead(j)) \in 0..(n - 1)
    BY <1>2
  <2> HIDE DEF Ahead, n
  <2>4. IsFiniteSet(Ahead(j) \ {i}) /\ Cardinality(Ahead(j) \ {i}) = Cardinality(Ahead(j)) - 1
    BY <2>1, <2>2, FS_RemoveElement
  <2>5. Cardinality(Ahead(i)) <= Cardinality(Ahead(j) \ {i})
    BY <2>1, <2>4, FS_Subset
  <2> QED
    BY <1>1, <2>3, <2>4, <2>5
<1>4. \A i, j \in chosen : i # j => Before(list, i, j) \/ Before(list, j, i)
  <2> SUFFICES ASSUME NEW i \in chosen, NEW j \in chosen, i # j
               PROVE  Before(list, i, j) \/ Before(list, j, i)
    OBVIOUS
  <2>1. startOf[list[i]] \in Int /\ startOf[list[j]] \in Int /\ i \in Nat /\ j \in Nat
    OBVIOUS
  <2> QED
    BY <2>1 DEF Before
<1>5. \A i, j \in chosen : Cardinality(Ahead(i)) = Cardinality(Ahead(j)) => i = j
  <2> SUFFICES ASSUME NEW i \in chosen, NEW j \in chosen, i # j
               PROVE  Cardinality(Ahead(i)) # Cardinality(Ahead(j))
    OBVIOUS
  <2>1. /\ Cardinality(Ahead(i)) \in 0..(n - 1) /\ Cardinality(Ahead(j)) \in 0..(n - 1)
    BY <1>2
  <2>2. Cardinality(Ahead(i)) < Cardinality(Ahead(j)) \/ Cardinality(Ahead(j)) < Cardinality(Ahead(i))
    BY <1>3, <1>4
  <2> HIDE DEF Ahead, n
  <2> QED
    BY <1>1, <2>1, <2>2
<1>6. \A k \in 1..n : \E i \in chosen : Cardinality(Ahead(i)) = k - 1
  <2>0. \A i \in chosen : Cardinality(Ahead(i)) \in 0..(n - 1)
    BY <1>2
  <2> HIDE DEF Ahead, n
  <2>1. rank \in [chosen -> 1..n]
    BY <1>1, <2>0
  <2>2. rank \in Injection(chosen, 1..n)
    <3>1. ASSUME NEW i \in chosen, NEW j \in chosen, rank[i] = rank[j] PROVE i = j
      <4>1. /\ Cardinality(Ahead(i)) \in 0..(n - 1) /\ Cardinality(Ahead(j)) \in 0..(n - 1)
            /\ Cardinality(Ahead(i)) + 1 = Cardinality(Ahead(j)) + 1
        BY <2>0, <3>1
      <4>2. Cardinality(Ahead(i)) = Cardinality(Ahead(j))
        BY <1>1, <4>1
      <4> QED
        BY <1>5, <4>2
    <3> HIDE DEF rank
    <3> QED
      BY <2>1, <3>1 DEF Injection, IsInjective
  <2>3. IsFiniteSet(1..n) /\ Cardinality(1..n) = n
    <3>1. 1 \in Int /\ n \in Int /\ (1 > n => n = 0) /\ n - 1 + 1 = n
      BY <1>1
    <3>2. IsFiniteSet(1..n) /\ Cardinality(1..n) = IF 1 > n THEN 0 ELSE n - 1 + 1
      BY <3>1, FS_Interval
    <3> QED
      BY <3>1, <3>2
  <2>4. rank \in Surjection(chosen, 1..n)
    BY <2>2, <2>3, FS_Injection DEF n
  <2>5. \A k \in 1..n : \E i \in chosen : rank[i] = k
    BY <2>4 DEF Surjection
  <2>6. ASSUME NEW k \in 1..n, NEW i \in chosen, rank[i] = k PROVE Cardinality(Ahead(i)) = k - 1
    BY <1>1, <2>0, <2>6
  <2> QED
    BY <2>5, <2>6
<1>7. \A k \in 1..n : at[k] \in chosen /\ Cardinality(Ahead(at[k])) = k - 1
  BY <1>6 DEF Positions
<1>8. Level(list, chosen) = [k \in 1..n |-> list[at[k]]]
  BY DEF Level, Positions
<1>9. ASSUME NEW k \in 1..n, NEW l \in 1..n, k < l PROVE Before(list, at[k], at[l])
  <2>1. /\ at[k] \in chosen /\ Cardinality(Ahead(at[k])) = k - 1
        /\ at[l] \in chosen /\ Cardinality(Ahead(at[l])) = l - 1
    BY <1>7
  <2>2. Before(list, at[l], at[k]) => Cardinality(Ahead(at[l])) < Cardinality(Ahead(at[k]))
    BY <1>3, <2>1
  <2> HIDE DEF Ahead, at, n
  <2>3. ~(l - 1 < k - 1) /\ k - 1 # l - 1
    BY <1>1, <1>9
  <2> QED
    BY <1>4, <2>1, <2>2, <2>3
<1>10. ASSUME NEW i \in chosen PROVE \E k \in 1..n : at[k] = i
  <2> DEFINE k == Cardinality(Ahead(i)) + 1
  <2>1. Cardinality(Ahead(i)) \in 0..(n - 1)
    BY <1>2
  <2>2. k \in 1..n /\ k - 1 = Cardinality(Ahead(i))
    <3> HIDE DEF Ahead, n
    <3> QED
      BY <1>1, <2>1
  <2> HIDE DEF k
  <2>3. at[k] \in chosen /\ Cardinality(Ahead(at[k])) = k - 1
    BY <1>7, <2>2
  <2>4. at[k] = i
    BY <1>5, <2>2, <2>3
  <2> QED
    BY <2>2, <2>4
<1> HIDE DEF n, at
<1> QED
  BY <1>1, <1>7, <1>8, <1>9, <1>10 DEF n, at, IsLevel

ByStart(level) == \A k, l \in DOMAIN level : k < l => startOf[level[k]] <= startOf[level[l]]
NoneTwice(level) == \A k, l \in DOMAIN level : level[k] = level[l] => k = l

\* What that makes of a level of spans: its spans are the chosen ones, they go by start,
\* and none is there twice if none was chosen twice.
LEMMA LevelHas ==
    ASSUME NEW list, NEW chosen, chosen \subseteq Nat, IsFiniteSet(chosen),
           \A i \in chosen : startOf[list[i]] \in Int
    PROVE  /\ StoredIn(Level(list, chosen)) = {list[i] : i \in chosen}
           /\ ByStart(Level(list, chosen))
           /\ (\A i, j \in chosen : list[i] = list[j] => i = j) => NoneTwice(Level(list, chosen))
<1> DEFINE level == Level(list, chosen)
           n == Cardinality(chosen)
           at == Positions(list, chosen)
<1>0. IsLevel(list, chosen, n, at)
  BY LevelIs
<1> HIDE DEF n, at
<1>1. /\ n \in Nat /\ level = [k \in 1..n |-> list[at[k]]]
      /\ \A k \in 1..n : at[k] \in chosen
      /\ \A k, l \in 1..n : k < l => Before(list, at[k], at[l])
      /\ \A i \in chosen : \E k \in 1..n : at[k] = i
  BY <1>0 DEF IsLevel
<1> HIDE DEF level
<1>2. StoredIn(level) = {list[i] : i \in chosen}
  BY <1>1 DEF StoredIn
<1>3. ByStart(level)
  <2> SUFFICES ASSUME NEW k \in 1..n, NEW l \in 1..n, k < l
               PROVE  startOf[list[at[k]]] <= startOf[list[at[l]]]
    BY <1>1 DEF ByStart
  <2>1. startOf[list[at[k]]] \in Int /\ startOf[list[at[l]]] \in Int
    BY <1>1
  <2> QED
    BY <1>1, <2>1 DEF Before
<1>4. ASSUME \A i, j \in chosen : list[i] = list[j] => i = j,
             NEW k \in 1..n, NEW l \in 1..n, level[k] = level[l]
      PROVE  k = l
  <2>1. at[k] = at[l]
    BY <1>1, <1>4
  <2>2. ~Before(list, at[k], at[k])
    <3>1. startOf[list[at[k]]] \in Int /\ at[k] \in Nat
      BY <1>1
    <3> QED
      BY <3>1 DEF Before
  <2>3. ~(k < l) /\ ~(l < k)
    BY <1>1, <2>1, <2>2
  <2> QED
    BY <1>1, <2>3
<1>5. DOMAIN level = 1..n
  BY <1>1
<1> QED
  BY <1>2, <1>3, <1>4, <1>5 DEF level, NoneTwice

\* Two lists hold the same spans T at the positions c and d, each span once, and no two of
\* them started together.
SameSpans(list, c, other, d, T) ==
    /\ c \subseteq Nat /\ IsFiniteSet(c) /\ d \subseteq Nat /\ IsFiniteSet(d)
    /\ Apart(list, c) /\ Apart(other, d)
    /\ Values(list, c) = T /\ Values(other, d) = T
    /\ (\A t \in T : startOf[t] \in Int) /\ Apart(startOf, T)

\* A level of spans that started one after the other does not tell in which order they came.
LEMMA LevelSame ==
    ASSUME NEW list, NEW c, NEW other, NEW d, NEW T, SameSpans(list, c, other, d, T)
    PROVE  Level(list, c) = Level(other, d)
<1>0. /\ c \subseteq Nat /\ IsFiniteSet(c) /\ d \subseteq Nat /\ IsFiniteSet(d)
      /\ Apart(list, c) /\ Apart(other, d)
      /\ Values(list, c) = T /\ Values(other, d) = T
      /\ (\A t \in T : startOf[t] \in Int) /\ Apart(startOf, T)
  BY DEF SameSpans
<1> USE <1>0
<1> DEFINE n == Cardinality(c)
           at == Positions(list, c)
           to == Positions(other, d)
           Ahead(t) == {s \in T : startOf[s] < startOf[t]}
<1>1. Cardinality(d) = n /\ IsFiniteSet(T)
  <2>1. IsFiniteSet(Values(list, c)) /\ Cardinality(Values(list, c)) = Cardinality(c)
    BY SameCount
  <2>2. Cardinality(Values(other, d)) = Cardinality(d)
    BY SameCount
  <2> QED
    BY <2>1, <2>2
<1>2. /\ n \in Nat /\ Level(list, c) = [k \in 1..n |-> list[at[k]]]
      /\ \A k \in 1..n : at[k] \in c /\ Cardinality({j \in c : Before(list, j, at[k])}) = k - 1
  <2>1. \A i \in c : startOf[list[i]] \in Int
    BY DEF Values
  <2>2. IsLevel(list, c, n, at)
    BY <2>1, LevelIs
  <2> QED
    BY <2>2 DEF IsLevel
<1>3. /\ Level(other, d) = [k \in 1..n |-> other[to[k]]]
      /\ \A k \in 1..n : to[k] \in d /\ Cardinality({j \in d : Before(other, j, to[k])}) = k - 1
  <2>1. \A i \in d : startOf[other[i]] \in Int
    BY DEF Values
  <2>2. IsLevel(other, d, Cardinality(d), to)
    BY <2>1, LevelIs
  <2> QED
    BY <1>1, <2>2 DEF IsLevel
<1>4. \A i \in c : Cardinality({j \in c : Before(list, j, i)}) = Cardinality(Ahead(list[i]))
  <2> TAKE i \in c
  <2> DEFINE S == {j \in c : Before(list, j, i)}
  <2>1. Values(list, S) = Ahead(list[i])
    <3>1. \A j \in c : Before(list, j, i) <=> startOf[list[j]] < startOf[list[i]]
      <4> SUFFICES ASSUME NEW j \in c, startOf[list[j]] = startOf[list[i]] PROVE ~(j < i)
        BY DEF Before
      <4>1. j = i /\ i \in Nat
        BY DEF Values, Apart
      <4> QED
        BY <4>1
    <3>2. T = {list[j] : j \in c}
      BY DEF Values
    <3>3. ASSUME NEW t \in Ahead(list[i]) PROVE \E j \in S : t = list[j]
      <4>1. PICK j \in c : t = list[j]
        BY <3>2
      <4> QED
        BY <3>1, <4>1
    <3>4. ASSUME NEW j \in S PROVE list[j] \in Ahead(list[i])
      BY <3>1, <3>2
    <3> HIDE DEF S, Ahead
    <3> QED
      BY <3>3, <3>4 DEF Values
  <2>2. S \in SUBSET c /\ Apart(list, S)
    BY DEF Apart
  <2> HIDE DEF S, Ahead
  <2>3. IsFiniteSet(S)
    BY <2>2, FS_Subset
  <2> QED
    <3>1. Cardinality(Values(list, S)) = Cardinality(S)
      BY <2>2, <2>3, SameCount
    <3> QED
      BY <2>1, <3>1 DEF S
<1>5. \A i \in d : Cardinality({j \in d : Before(other, j, i)}) = Cardinality(Ahead(other[i]))
  <2> TAKE i \in d
  <2> DEFINE S == {j \in d : Before(other, j, i)}
  <2>1. Values(other, S) = Ahead(other[i])
    <3>1. \A j \in d : Before(other, j, i) <=> startOf[other[j]] < startOf[other[i]]
      <4> SUFFICES ASSUME NEW j \in d, startOf[other[j]] = startOf[other[i]] PROVE ~(j < i)
        BY DEF Before
      <4>1. j = i /\ i \in Nat
        BY DEF Values, Apart
      <4> QED
        BY <4>1
    <3>2. T = {other[j] : j \in d}
      BY DEF Values
    <3>3. ASSUME NEW t \in Ahead(other[i]) PROVE \E j \in S : t = other[j]
      <4>1. PICK j \in d : t = other[j]
        BY <3>2
      <4> QED
        BY <3>1, <4>1
    <3>4. ASSUME NEW j \in S PROVE other[j] \in Ahead(other[i])
      BY <3>1, <3>2
    <3> HIDE DEF S, Ahead
    <3> QED
      BY <3>3, <3>4 DEF Values
  <2>2. S \in SUBSET d /\ Apart(other, S)
    BY DEF Apart
  <2> HIDE DEF S, Ahead
  <2>3. IsFiniteSet(S)
    BY <2>2, FS_Subset
  <2> QED
    <3>1. Cardinality(Values(other, S)) = Cardinality(S)
      BY <2>2, <2>3, SameCount
    <3> QED
      BY <2>1, <3>1 DEF S
<1>6. ASSUME NEW s \in T, NEW t \in T, startOf[s] < startOf[t]
      PROVE  Cardinality(Ahead(s)) # Cardinality(Ahead(t))
  <2>1. Ahead(s) \in SUBSET Ahead(t) /\ s \in Ahead(t) /\ s \notin Ahead(s) /\ Ahead(t) \in SUBSET T
    BY <1>6
  <2> HIDE DEF Ahead
  <2>2. IsFiniteSet(Ahead(t))
    BY <1>1, <2>1, FS_Subset
  <2> QED
    BY <2>1, <2>2, FS_Subset
<1>7. \A k \in 1..n : list[at[k]] = other[to[k]]
  <2> TAKE k \in 1..n
  <2>1. at[k] \in c /\ to[k] \in d /\ list[at[k]] \in T /\ other[to[k]] \in T
    BY <1>2, <1>3 DEF Values
  <2>2. Cardinality(Ahead(list[at[k]])) = Cardinality(Ahead(other[to[k]]))
    BY <1>2, <1>3, <1>4, <1>5
  <2>3. startOf[list[at[k]]] \in Int /\ startOf[other[to[k]]] \in Int
    BY <2>1
  <2> HIDE DEF Ahead, at, to
  <2>4. startOf[list[at[k]]] = startOf[other[to[k]]]
    BY <1>6, <2>1, <2>2, <2>3
  <2> QED
    BY <2>1, <2>4 DEF Apart
<1> HIDE DEF at, to
<1> QED
  BY <1>2, <1>3, <1>7

\* A stored trace: positions are numbers, starts are numbers, and the spans form a forest.
LEMMA StoredAre ==
    ASSUME ViewsInv
    PROVE  /\ DOMAIN spans \subseteq Nat /\ IsFiniteSet(DOMAIN spans)
           /\ StoredIn(spans) \subseteq SpanIds
           /\ \A s \in SpanIds : startOf[s] \in Int
<1>1. spans \in Seq(SpanIds) /\ startOf \in [SpanIds -> Starts]
  BY DEF ViewsInv, ViewsTypeOK
<1>2. Len(spans) \in Nat /\ DOMAIN spans = 1..Len(spans) /\ \A i \in DOMAIN spans : spans[i] \in SpanIds
  BY <1>1
<1>3. IsFiniteSet(1..Len(spans))
  BY <1>2, FS_Interval
<1>4. Cardinality(SpanIds) \in Nat
  BY TraceAssumption, FS_CardinalityType DEF TraceAssumption
<1> QED
  BY <1>1, <1>2, <1>3, <1>4 DEF StoredIn, Starts

\* The levels of the tree are the chosen positions' ones.
LEMMA TreeLevel ==
    ASSUME ViewsInv, NEW chosen, chosen \subseteq DOMAIN spans
    PROVE  /\ StoredIn(Level(spans, chosen)) = {spans[i] : i \in chosen}
           /\ ByStart(Level(spans, chosen))
           /\ Once => NoneTwice(Level(spans, chosen))
<1>1. chosen \subseteq Nat /\ IsFiniteSet(chosen) /\ \A i \in chosen : startOf[spans[i]] \in Int
  <2>1. chosen \in SUBSET DOMAIN spans
    OBVIOUS
  <2>2. IsFiniteSet(chosen)
    BY <2>1, StoredAre, FS_Subset
  <2> QED
    BY <2>1, <2>2, StoredAre DEF StoredIn
<1>2. Once => \A i, j \in chosen : spans[i] = spans[j] => i = j
  BY DEF Once
<1> QED
  BY <1>1, <1>2, LevelHas

\* The roots and the children of a span.
RootsAt == {i \in DOMAIN spans : parentOf[spans[i]] \notin StoredIn(spans)}
ChildrenAt(s) == {i \in DOMAIN spans : parentOf[spans[i]] = s}

\* Whatever contains the roots and the children of what it contains contains all: of the
\* spans it lacks the one that was opened first has a parent it contains, or is a root.
LEMMA AllReached ==
    ASSUME ViewsInv, NEW seen, seen \subseteq StoredIn(spans),
           {s \in StoredIn(spans) : parentOf[s] \notin StoredIn(spans)} \subseteq seen,
           \A s \in seen : {t \in StoredIn(spans) : parentOf[t] = s} \subseteq seen
    PROVE  seen = StoredIn(spans)
<1> DEFINE held == StoredIn(spans)
           missing == held \ seen
<1>1. PICK opened \in [SpanIds -> 1..Cardinality(SpanIds)] :
         \A s \in SpanIds : parentOf[s] # NoSpan => opened[parentOf[s]] < opened[s]
  BY DEF ViewsInv, Forests
<1>2. held \subseteq SpanIds /\ NoSpan \notin SpanIds /\ Cardinality(SpanIds) \in Nat
  BY StoredAre, TraceAssumption, FS_CardinalityType DEF TraceAssumption
<1>3. ASSUME missing # {} PROVE FALSE
  <2> DEFINE numbers == {opened[s] : s \in missing}
  <2>1. numbers \subseteq Nat /\ numbers # {}
    BY <1>2, <1>3
  <2>2. PICK n \in numbers : \A m \in numbers : n <= m
    <3> HIDE DEF numbers
    <3> QED
      BY <2>1, SmallestOf
  <2>3. PICK s \in missing : opened[s] = n
    OBVIOUS
  <2>4. parentOf[s] \in held
    BY <2>3
  <2>5. opened[parentOf[s]] < opened[s] /\ opened[parentOf[s]] \in Nat /\ opened[s] \in Nat
    BY <1>1, <1>2, <2>3, <2>4
  <2>6. parentOf[s] \notin missing
    <3>1. ASSUME parentOf[s] \in missing PROVE FALSE
      <4>1. opened[parentOf[s]] \in numbers
        BY <3>1
      <4>2. n <= opened[parentOf[s]]
        BY <2>2, <4>1
      <4> HIDE DEF numbers
      <4> QED
        BY <2>3, <2>5, <4>2
    <3> QED
      BY <3>1
  <2> QED
    BY <2>3, <2>4, <2>6
<1> QED
  BY <1>3

\* The tree of the same spans in another order.
LEMMA SameTree ==
    ASSUME ViewsInv, Once, \A s, t \in StoredIn(spans) : startOf[s] = startOf[t] => s = t,
           NEW other \in Bijection(DOMAIN spans, StoredIn(spans))
    PROVE  BuildSpanTree(other) = BuildSpanTree(spans)
<1> DEFINE held == StoredIn(spans)
<1>1. /\ DOMAIN other = DOMAIN spans /\ StoredIn(other) = held
      /\ \A i, j \in DOMAIN spans : other[i] = other[j] => i = j
  BY DEF Bijection, Injection, Surjection, IsInjective, StoredIn
<1>2. ASSUME NEW T \in SUBSET held
      PROVE  Level(other, {i \in DOMAIN spans : other[i] \in T})
             = Level(spans, {i \in DOMAIN spans : spans[i] \in T})
  <2> DEFINE c == {i \in DOMAIN spans : other[i] \in T}
             d == {i \in DOMAIN spans : spans[i] \in T}
  <2>1. Values(other, c) = T /\ Values(spans, d) = T
    BY <1>1 DEF StoredIn, Values
  <2>2. c \in SUBSET DOMAIN spans /\ d \in SUBSET DOMAIN spans
    OBVIOUS
  <2> HIDE DEF c, d
  <2>3. c \subseteq Nat /\ IsFiniteSet(c) /\ d \subseteq Nat /\ IsFiniteSet(d)
    BY <2>2, StoredAre, FS_Subset
  <2>4. Apart(other, c) /\ Apart(spans, d)
    BY <1>1, <2>2 DEF Once, Apart
  <2>5. (\A t \in T : startOf[t] \in Int) /\ Apart(startOf, T)
    BY StoredAre DEF Apart
  <2>6. SameSpans(other, c, spans, d, T)
    BY <2>1, <2>3, <2>4, <2>5 DEF SameSpans
  <2>7. Level(other, c) = Level(spans, d)
    BY <2>6, LevelSame
  <2> QED
    BY <2>7 DEF c, d
<1>3. Roots(other) = Roots(spans)
  <2> DEFINE T == {s \in held : parentOf[s] \notin held}
  <2>1. /\ {i \in DOMAIN spans : parentOf[other[i]] \notin held} = {i \in DOMAIN spans : other[i] \in T}
        /\ {i \in DOMAIN spans : parentOf[spans[i]] \notin held} = {i \in DOMAIN spans : spans[i] \in T}
    BY <1>1 DEF StoredIn
  <2>2. T \in SUBSET held
    OBVIOUS
  <2>3. /\ Roots(other) = Level(other, {i \in DOMAIN spans : parentOf[other[i]] \notin held})
        /\ Roots(spans) = Level(spans, {i \in DOMAIN spans : parentOf[spans[i]] \notin held})
    BY <1>1 DEF Roots
  <2> HIDE DEF T, held
  <2> QED
    BY <1>2, <2>1, <2>2, <2>3
<1>4. ASSUME NEW p PROVE Children(other, p) = Children(spans, p)
  <2> DEFINE T == {s \in held : parentOf[s] = p}
  <2>1. /\ {i \in DOMAIN spans : parentOf[other[i]] = p} = {i \in DOMAIN spans : other[i] \in T}
        /\ {i \in DOMAIN spans : parentOf[spans[i]] = p} = {i \in DOMAIN spans : spans[i] \in T}
    BY <1>1 DEF StoredIn
  <2>2. T \in SUBSET held
    OBVIOUS
  <2> HIDE DEF T
  <2> QED
    BY <1>1, <1>2, <2>1, <2>2 DEF Children
<1> QED
  BY <1>1, <1>3, <1>4 DEF BuildSpanTree

\* Of the spans stored in whatever order, and however often, none is missing from the tree
\* or hangs below another parent, and none is out of reach from the roots; levels go by
\* start, and only among spans that started together does it show which came first
\* (buildSpanTree).
LEMMA TreeHolds == ViewsInv => TreeTrue
<1> SUFFICES ASSUME ViewsInv PROVE TreeTrue
  OBVIOUS
<1> DEFINE tree == BuildSpanTree(spans)
           held == StoredIn(spans)
<1>1. tree.roots = Level(spans, RootsAt) /\ DOMAIN tree.children = held
      /\ \A s \in held : tree.children[s] = Level(spans, ChildrenAt(s))
  BY DEF BuildSpanTree, Roots, Children, RootsAt, ChildrenAt
<1>2. RootsAt \subseteq DOMAIN spans /\ \A s : ChildrenAt(s) \subseteq DOMAIN spans
  BY DEF RootsAt, ChildrenAt
<1>3. {spans[i] : i \in RootsAt} = {s \in held : parentOf[s] \notin held}
  BY DEF RootsAt, StoredIn
<1>4. \A s : {spans[i] : i \in ChildrenAt(s)} = {t \in held : parentOf[t] = s}
  BY DEF ChildrenAt, StoredIn
<1> HIDE DEF tree, held
<1>5. StoredIn(tree.roots) = {s \in held : parentOf[s] \notin held}
  BY <1>1, <1>2, <1>3, TreeLevel
<1>6. \A s \in held : StoredIn(tree.children[s]) = {t \in held : parentOf[t] = s}
  BY <1>1, <1>2, <1>4, TreeLevel
<1>7. ASSUME NEW seen \in SUBSET held, StoredIn(tree.roots) \subseteq seen,
             \A s \in seen : StoredIn(tree.children[s]) \subseteq seen
      PROVE  seen = held
  BY <1>5, <1>6, <1>7, AllReached DEF held
<1>8. ASSUME NEW level \in Levels(tree)
      PROVE  ByStart(level) /\ (Once => NoneTwice(level))
  <2>1. \/ level = Level(spans, RootsAt)
        \/ \E s \in held : level = Level(spans, ChildrenAt(s))
    BY <1>1 DEF Levels
  <2> QED
    BY <1>2, <2>1, TreeLevel
<1>9. Once /\ (\A s, t \in held : startOf[s] = startOf[t] => s = t) =>
          \A other \in Bijection(DOMAIN spans, held) : BuildSpanTree(other) = tree
  BY SameTree DEF tree, held
<1> QED
  BY <1>5, <1>6, <1>7, <1>8, <1>9 DEF TreeTrue, ByStart, NoneTwice, tree, held

\* What is shown of a trace is what was stored of it: the tree holds every stored span at
\* its place whatever the order of arrival, for any number of spans, and the percentiles
\* and the verdict that a step is slow are those of its runs (buildSpanTree,
\* calcPercentiles, slowSteps).
THEOREM ViewsHold == ViewsSpec => []ViewsTrue
<1>1. ViewsInv => ViewsTrue
  BY TreeHolds, PercentilesHold DEF ViewsTrue
<1> QED
  BY <1>1, ViewsKeep, PTL

\* Type correctness of the views.
THEOREM ViewsTypeCorrect == ViewsSpec => []ViewsTypeOK
<1>1. ViewsInv => ViewsTypeOK
  BY DEF ViewsInv
<1> QED
  BY <1>1, ViewsKeep, PTL
-----------------------------------------------------------------------------
\* MCConsole runs each part as it is: its specification implies that of every part, so
\* that what is proved of a part holds in the run.
THEOREM RunsEachPart ==
    Spec => /\ TenancySpec /\ CachesSpec /\ LimitsSpec /\ RulesSpec /\ WriteSpec /\ ChannelsSpec
            /\ MailSpec /\ OtlpSpec /\ InfraSpec /\ AccessSpec /\ ViewsSpec
<1>1. Init => /\ TenancyInit /\ CachesInit /\ LimitsInit /\ RulesInit /\ WriteInit /\ ChannelsInit
              /\ MailInit /\ OtlpInit /\ InfraInit /\ AccessInit /\ ViewsInit
  BY Zenon DEF Init
<1>2. [Next]_vars => [TenancyNext]_tenancyVars
  BY Zenon DEF Next, vars
<1>3. [Next]_vars => [CachesNext]_cachesVars
  BY Zenon DEF Next, vars
<1>4. [Next]_vars => [LimitsNext]_limitsVars
  BY Zenon DEF Next, vars
<1>5. [Next]_vars => [RulesNext]_rulesVars
  BY Zenon DEF Next, vars
<1>6. [Next]_vars => [WriteNext]_writeVars
  BY Zenon DEF Next, vars
<1>7. [Next]_vars => [ChannelsNext]_channelsVars
  BY Zenon DEF Next, vars
<1>8. [Next]_vars => [MailNext]_mailVars
  BY Zenon DEF Next, vars
<1>9. [Next]_vars => [OtlpNext]_otlpVars
  BY Zenon DEF Next, vars
<1>10. [Next]_vars => [InfraNext]_infraVars
  BY Zenon DEF Next, vars
<1>11. [Next]_vars => [AccessNext]_accessVars
  BY Zenon DEF Next, vars
<1>12. [Next]_vars => [ViewsNext]_viewsVars
  BY Zenon DEF Next, vars
<1> QED
  BY <1>1, <1>2, <1>3, <1>4, <1>5, <1>6, <1>7, <1>8, <1>9, <1>10, <1>11, <1>12,
     PTL DEF Spec, TenancySpec, CachesSpec, LimitsSpec, RulesSpec, WriteSpec, ChannelsSpec,
             MailSpec, OtlpSpec, InfraSpec, AccessSpec, ViewsSpec

\* Type correctness of all that MCConsole runs.
THEOREM PartsTypeCorrect == Spec => []TypeOK
<1>1. /\ TenancyTypeOK /\ CachesTypeOK /\ LimitsTypeOK /\ RulesTypeOK /\ WriteTypeOK
      /\ ChannelsTypeOK /\ MailTypeOK /\ OtlpTypeOK /\ InfraTypeOK /\ AccessTypeOK /\ ViewsTypeOK
      => TypeOK
  BY DEF TypeOK
<1> QED
  BY <1>1, RunsEachPart, TenancyTypeCorrect, CachesTypeCorrect, LimitsTypeCorrect, RulesTypeCorrect,
     WriteTypeCorrect, ChannelsTypeCorrect, MailTypeCorrect, OtlpTypeCorrect, InfraTypeCorrect,
     AccessTypeCorrect, ViewsTypeCorrect, PTL
=============================================================================
