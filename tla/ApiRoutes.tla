------------------------------ MODULE ApiRoutes ------------------------------
(***************************************************************************)
(* The routes of the server, one set per file of src/api: the method and   *)
(* path of each, what guards it, the query parameters its handler gets to  *)
(* read (a query schema removes the ones it does not declare), the ones it *)
(* refuses to do without and those it takes only as a UUID, the fields its *)
(* body schema requires and those it also knows, and the top level keys of *)
(* its answer.  ":" in a path is a parameter; "row" stands for the columns *)
(* of a stored row.                                                        *)
(*                                                                         *)
(* access  open      no key                                                *)
(*         key       any key the guard lets by, whatever its project       *)
(*         project   applyScope: the key's project, or what the instance   *)
(*                   key asks for                                          *)
(*         delete    project, and denyIfCannotDelete                       *)
(*         manage    the instance key or a project's own admin key         *)
(*         instance  the instance key (ADMIN_API_KEY)                      *)
(***************************************************************************)
EXTENDS Sequences

ApiRoute(method, path, reads, needs, takes, gives) ==
    [method |-> method, path |-> path, access |-> "project", reads |-> reads,
     must |-> {}, uuids |-> {}, needs |-> needs, takes |-> takes, gives |-> gives]

Page == {"limit", "offset"}
Span == {"from", "to"}
Paged(field) == {field, "total"} \cup Page
\* A handler that gives applyScope its whole query: without a schema both spellings of
\* the project are in it.  Most others give it none.
Either == {"projectId", "project_id"}

Gets(path, reads, gives) == ApiRoute("GET", path, reads, {}, {}, gives)
Posts(path, needs, takes, gives) == ApiRoute("POST", path, {}, needs, takes, gives)
Puts(path, needs, takes, gives) == ApiRoute("PUT", path, {}, needs, takes, gives)
Deletes(path, gives) == ApiRoute("DELETE", path, {}, {}, {}, gives)

With(access, routes) == {[r EXCEPT !.access = access] : r \in routes}
Requiring(needed, routes) == {[r EXCEPT !.must = needed] : r \in routes}
Checking(params, routes) == {[r EXCEPT !.uuids = params] : r \in routes}
Under(prefix, routes) == {[r EXCEPT !.path = prefix \o @] : r \in routes}

IssueLists == Under(<<"api", "issues">>,
    {Gets(<<":">>, {}, {"row", "events"})}
    \cup Checking({"projectId"},
         {Gets(<<>>, {"projectId", "status", "search", "environment", "level"} \cup Page,
               Paged("data"))}))
IssueChanges == Under(<<"api", "issues">>,
    {[Puts(<<":">>, {}, {"status", "assignedTo"}, {"row"}) EXCEPT !.method = "PATCH"],
     Posts(<<"merge">>, {"targetIssueId", "sourceIssueIds"}, {},
          {"merged", "targetIssueId", "totalEvents"})}
    \cup With("delete", {Deletes(<<":">>, {"deleted"})}))

EventsApi == Under(<<"api", "events">>,
    {Gets(<<":">>, {}, {"row"})}
    \cup Checking({"issueId", "projectId"},
         {Gets(<<>>, {"issueId", "projectId"} \cup Page, Paged("data"))}))

CommentsApi == Under(<<"api">>,
    {Gets(<<"issues", ":", "comments">>, Page, Paged("data")),
     Posts(<<"issues", ":", "comments">>, {"authorName", "body"}, {}, {"row"})}
    \cup With("delete", {Deletes(<<"comments", ":">>, {"deleted"})}))

\* What a monitor's body may say of its check.
CheckFields == {"interval_seconds", "method", "headers", "body", "auth_type", "auth_value",
                "ignore_ssl", "max_redirects", "keyword", "keyword_not", "dns_record_type",
                "dns_expected_value", "dns_resolver"}
MonitorLists == Under(<<"api", "monitors">>,
    {Gets(<<>>, {"project_id", "group", "hours"}, {"monitors"}),
     Gets(<<"groups">>, {"project_id"}, {"groups"}),
     Gets(<<":">>, {}, {"monitor"})})
MonitorChanges == Under(<<"api", "monitors">>,
    {Posts(<<>>, {"name", "url"}, {"project_id", "type", "group"} \cup CheckFields, {"monitor"}),
     Puts(<<":">>, {}, {"name", "url", "active"} \cup CheckFields, {"monitor"})}
    \cup With("delete", {Deletes(<<":">>, {"deleted"})}))
MonitorChecks == Under(<<"api", "monitors">>,
    {Gets(<<":", "checks">>, Page \cup Span, Paged("checks"))})

AlertLists == Under(<<"api", "alerts">>,
    {Gets(<<>>, {"projectId", "search"} \cup Page, Paged("items")),
     Gets(<<":">>, {}, {"row", "history"})})
NewAlerts == Under(<<"api", "alerts">>,
    {Posts(<<>>, {"name", "projectId", "condition", "channels"}, {"severity", "cooldownSeconds"},
           {"row"})})
AlertChanges == Under(<<"api", "alerts">>,
    {Puts(<<":">>, {}, {"name", "severity", "condition", "channels", "isActive",
                        "cooldownSeconds"}, {"row"})}
    \cup With("delete", {Deletes(<<":">>, {"deleted"})}))
AlertTests == Under(<<"api", "alerts">>,
    {Posts(<<":", "test">>, {}, {}, {"alertId", "channels"}),
     Gets(<<"history">>, {"alertId"} \cup Page, Paged("items")),
     Posts(<<"test-all">>, {}, {}, {"message", "results"})})
AlertChannels == With("key", {Gets(<<"api", "alerts", "channels">>, {}, {"channels"})})

TraceLists == Under(<<"api", "traces">>,
    {Gets(<<>>, {"projectId", "traceId", "workflowName", "agentName", "status"} \cup Page
               \cup Span, Paged("data"))}
    \cup Requiring({"projectId"},
         {Gets(<<"stats">>, {"projectId", "groupBy"} \cup Span, {"tokenUsage", "latency"})}))
WorkflowLists == Under(<<"api", "traces">>,
    {Gets(<<"workflows">>, {"projectId", "workflowName", "status"} \cup Page, Paged("data")),
     Gets(<<"workflows", ":">>, {}, {"row"}),
     Gets(<<":">>, {}, {"traceId", "spans"})})

LogVolumes == Under(<<"api", "logs">>,
    {Gets(<<"stats">>, Either, {"total24h", "byLevel", "byContainer", "byHour"})}
    \cup With("key", {Gets(<<"volume">>, {"interval", "containerId"} \cup Span, {"data"})}))
LogSearch == Under(<<"api", "logs">>,
    {Gets(<<>>, {"container", "level", "search", "regex", "fuzzy"} \cup Page \cup Span, {"data"})})
LogsApi == Under(<<"api", "logs">>,
    {Gets(<<"stream">>, {"container"}, {"stream"}),
     Gets(<<"containers">>, Either, {"data"})}
    \cup Requiring({"confirm"},
         {[Deletes(<<>>, {"deleted"}) EXCEPT !.reads = {"before", "confirm"}]}))

ReleaseRows == Under(<<"api", "releases">>,
    {Gets(<<":">>, {}, {"row"}),
     Posts(<<>>, {"projectId", "version"}, {"environment", "deployedAt"}, {"row"}),
     Puts(<<":">>, {}, {"version", "environment", "deployedAt"}, {"row"})}
    \cup Checking({"projectId"},
         {Gets(<<>>, {"projectId", "environment"} \cup Page, Paged("data"))}))
ReleaseHealth == Under(<<"api", "releases">>,
    {Gets(<<":", "health">>, {}, {"releaseId", "version", "environment", "newIssuesCount",
                                     "errorRate", "healthScore", "windowHours"}),
     Deletes(<<":">>, {"deleted"})})

TeamRows == Under(<<"api", "team">>,
    {Posts(<<>>, {"projectId", "name", "email"}, {"role"}, {"row"})}
    \cup Checking({"projectId"}, {Gets(<<>>, {"projectId"} \cup Page, Paged("data"))}))
TeamChanges == Under(<<"api", "team">>,
    {Puts(<<":">>, {}, {"name", "email", "role"}, {"row"})}
    \cup With("delete", {Deletes(<<":">>, {"deleted"})}))

WindowLists == Under(<<"api", "maintenance">>,
    {Gets(<<>>, {"projectId", "status"} \cup Page, Paged("items")),
     Gets(<<"active", "now">>, {"projectId"}, {"items"}),
     Gets(<<":">>, {}, {"row"})})
WindowChanges == Under(<<"api", "maintenance">>,
    {Posts(<<>>, {"projectId", "name", "startsAt", "endsAt"}, {"description", "monitorIds"},
          {"row"}),
     Puts(<<":">>, {}, {"name", "description", "startsAt", "endsAt", "monitorIds"}, {"row"}),
     Deletes(<<":">>, {"deleted"})})

IncidentLists == Under(<<"api", "incidents">>,
    {Gets(<<>>, {"projectId", "status"} \cup Page, Paged("items")),
     Gets(<<"active">>, {"projectId"}, {"items"}),
     Gets(<<":">>, {}, {"row"})})
IncidentChanges == Under(<<"api", "incidents">>,
    {Posts(<<>>, {"projectId", "title"}, {"monitorId", "status", "severity", "description"},
          {"row"}),
     Puts(<<":">>, {}, {"title", "status", "monitorId", "severity", "description"}, {"row"}),
     Deletes(<<":">>, {"deleted"})})

ChannelSettings == Under(<<"api", "notifications">>,
    {Gets(<<>>, {"projectId"}, {"notifications"}),
     Gets(<<":">>, {"projectId"}, {"row", "config", "configured", "source"}),
     Puts(<<":">>, {"projectId", "config"}, {"enabled"}, {"id", "channel", "created", "updated"})})
ChannelTests == Under(<<"api", "notifications">>,
    {[Deletes(<<":">>, {"deleted"}) EXCEPT !.reads = {"projectId"}],
     [Posts(<<":", "test">>, {}, {}, {"ok", "error"}) EXCEPT !.reads = {"projectId"}]})

SearchApi == Checking({"projectId"}, Requiring({"q"},
    {Gets(<<"api", "search">>, {"q", "projectId", "limit"}, {"issues", "events", "traces"})}))

ProjectRows == Under(<<"api", "projects">>,
    {Gets(<<>>, Either, {"projects"})}
    \cup With("instance", {Posts(<<>>, {"name"}, {}, {"project", "apiKey"})})
    \cup With("manage", {Posts(<<":", "rotate-key">>, {}, {}, {"apiKey", "apiKeyPreview"})}))
ProjectChanges == Under(<<"api", "projects">>,
    {Puts(<<":", "rate-limit">>, {}, {"rateLimit", "rateLimitWindowMs"}, {"project"})}
    \cup With("instance", {Deletes(<<":">>, {"deleted"})}))

Overview == {"projectsCount", "activeIssues", "activeAlerts", "healthStatus", "recentEvents",
             "monitors"}
DashboardApi == {Gets(<<"api", "dashboard">>, {"projectId"}, Overview \cup
    {"errorCount24h", "uptimePercent", "activeContainers", "traceCount24h", "recentIssues",
     "monitorStatuses", "alertCount", "errorBuckets", "traceBuckets"})}

SavedSearchesApi == Under(<<"api", "saved-searches">>,
    {Gets(<<>>, {"projectId"}, {"data"}),
     Posts(<<>>, {"name", "query"}, {"filters", "projectId"}, {"data"}),
     Deletes(<<":">>, {"data"})})

SourcemapsApi == Under(<<"api", "sourcemaps">>,
    {Posts(<<":">>, {"file", "release"}, {}, {"uploaded", "projectId", "release", "size"}),
     Gets(<<":", ":">>, {}, {"file"}),
     Gets(<<":">>, {}, {"releases"}),
     Deletes(<<":", ":">>, {"deleted"})})

SubscriberRows == Under(<<"api", "subscribers">>,
    {Gets(<<>>, {"projectId"} \cup Page, Paged("data")),
     Posts(<<>>, {"projectId", "email"}, {"autoVerify"}, {"row"})}
    \cup With("open", {Posts(<<"public">>, {"slug", "email"}, {}, {"id", "subscribed"})}))
SubscriberChanges == Under(<<"api", "subscribers">>,
    {Posts(<<":", "verify">>, {}, {}, {"row"})}
    \cup With("delete", {Deletes(<<":">>, {"deleted", "id"})}))

FingerprintRows == Under(<<"api", "fingerprint-rules">>,
    {Posts(<<>>, {"projectId", "name", "pattern"}, {"groupBy", "isActive"}, {"row"}),
     Gets(<<":">>, {}, {"row"})}
    \cup Checking({"projectId"}, {Gets(<<>>, {"projectId"} \cup Page, Paged("data"))}))
FingerprintChanges == Under(<<"api", "fingerprint-rules">>,
    {Puts(<<":">>, {}, {"name", "pattern", "groupBy", "isActive"}, {"row"}),
     Deletes(<<":">>, {"ok"})})

TenantHealthApi == With("instance", {Gets(<<"api", "tenant", ":", "health">>, {},
    {"tenantId", "projects", "totalIssues", "openIssues", "avgUptime", "lastError"})})

ExportRows == Under(<<"api", "export">>,
    {Gets(<<"issues">>, {"format", "projectId"} \cup Span, {"data", "count"}),
     Gets(<<"traces">>, {"format", "projectId"} \cup Span, {"data", "count"})})
ExportLogs == Under(<<"api", "export">>,
    {Gets(<<"logs">>, {"format", "level", "container", "projectId"} \cup Span, {"data", "count"})})

\* The page of the first route reads ?tenantId to pass it on to the dashboard's request.
EmbedPages == With("open", Under(<<"embed">>,
    {Gets(<<>>, {"slug", "tenantId"}, {"html"}),
     Gets(<<"status", ":">>, {}, {"project", "healthStatus", "monitors"})}))
EmbedDashboard == {Gets(<<"embed", "dashboard">>, {"projectId", "limit"}, Overview)}

PublicPages == With("open",
    {Gets(<<"api", "badges", ":", "status">>, {}, {"svg"}),
     Gets(<<"api", "badges", ":", "uptime">>, {}, {"svg"})})
StatusApi == With("open",
    {Gets(<<"api", "status", ":">>, {}, {"project", "overall", "monitors", "incidents"}),
     Gets(<<"api", "status", ":", "history">>, {"days"}, {"history"})})
StatusHtml == With("open", {Gets(<<"status", ":">>, {}, {"html"})})

HealthApi == With("open", {Gets(<<"api", "health">>, {}, {"status", "version"}),
                           Gets(<<"health">>, {}, {"status", "version"})})
    \cup With("instance", {Gets(<<"api", "health", "details">>, {}, {"status", "version"})})
Metrics == With("open", {Gets(<<"metrics">>, {}, {"text"})})

ContainerStats == With("key", Under(<<"api", "infrastructure">>,
    {Gets(<<"containers">>, {"hostId"}, {"containers", "count", "hostId"}),
     Gets(<<"containers", ":">>, {"hostId"} \cup Span, {"containerId", "data", "count"}),
     Gets(<<"host">>, {"hostId"}, {"row"}),
     Gets(<<"host", "history">>, {"hostId"} \cup Span, {"data", "count"}),
     Gets(<<"overview">>, {"hostId"}, {"containers", "host", "hostId"})}))
HostLists == With("key", Under(<<"api", "infrastructure">>,
    {Gets(<<"hosts">>, {}, {"hosts", "count"}),
     Gets(<<"gpu">>, {"hostId"}, {"gpus", "count"}),
     Gets(<<"gpu", "history">>, {"hostId"} \cup Span, {"data", "count"})}))

AdminProjects == With("instance", Under(<<"api", "admin">>,
    {Posts(<<"projects">>, {"name"}, {"tenantId", "apiRole"}, {"project", "apiKey", "rotated"}),
     Gets(<<"projects">>, {}, {"projects"})}))
AdminTenants == With("instance", Under(<<"api", "admin">>,
    {Posts(<<"projects", ":", "rotate-key">>, {}, {}, {"project", "apiKey", "apiKeyPreview"}),
     Gets(<<"tenants", ":">>, {}, {"tenantId", "project"})}))
RetentionApi == With("instance", Under(<<"api", "admin">>,
    {Posts(<<"cleanup">>, {}, {}, {"message"}),
     Gets(<<"retention">>, {}, {"defaultDays", "tables"}),
     Puts(<<"retention", ":">>, {"retentionDays"}, {}, {"tableName", "retentionDays"}),
     Gets(<<"storage">>, {}, {"totalBytes", "totalHuman", "tables"})}))

\* Ingestion: the handlers look up the key themselves.
AgentApi == {Posts(<<"api", "agent", "ingest">>, {"hostId", "hostStats", "containers"},
                  {"gpu", "hostInfo"}, {"ok", "hostId"})}
SentryApi == With("key", {Posts(<<"api", ":", "store">>, {}, {}, {"row"}),
                          Posts(<<"api", ":", "envelope">>, {}, {}, {"row"})})
LogSocket == With("open", {Gets(<<"ws", "logs">>, {}, {"socket"})})
OpenApi == With("open", {Gets(<<"api", "openapi.json">>, {}, {"paths"})})

Routes == UNION
    {IssueLists, IssueChanges, EventsApi, CommentsApi, MonitorLists, MonitorChanges,
     MonitorChecks, AlertLists, NewAlerts, AlertChanges, AlertTests, AlertChannels,
     TraceLists, WorkflowLists, LogVolumes, LogSearch, LogsApi, ReleaseRows, ReleaseHealth,
     TeamRows, TeamChanges, WindowLists, WindowChanges, IncidentLists, IncidentChanges,
     ChannelSettings, ChannelTests, SearchApi, ProjectRows, ProjectChanges, DashboardApi,
     SavedSearchesApi, SourcemapsApi, SubscriberRows, SubscriberChanges, FingerprintRows,
     FingerprintChanges, TenantHealthApi, ExportRows, ExportLogs, EmbedPages, EmbedDashboard,
     PublicPages, StatusApi, StatusHtml, HealthApi, Metrics, ContainerStats, HostLists,
     AdminProjects, AdminTenants, RetentionApi, AgentApi, SentryApi, LogSocket, OpenApi}
=============================================================================
