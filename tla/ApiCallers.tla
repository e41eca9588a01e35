------------------------------ MODULE ApiCallers ------------------------------
(***************************************************************************)
(* The requests the repository's own clients make: the SDK (client.ts),    *)
(* its command line and MCP server, the remote agent and the web console   *)
(* (lib/api.ts).  Of each: the method and path, the query parameters it    *)
(* may send and those it always sends, the body fields it always sends and *)
(* those it may send, and the top level keys it takes from the answer.     *)
(* ":" stands for an id, which is never a fixed segment of another route.  *)
(***************************************************************************)
EXTENDS ApiRoutes

Body(fixed, optional) == [sends |-> fixed, may |-> optional]
Empty == Body({}, {})

ApiCall(method, path, asks, body, wants) ==
    [who |-> "", method |-> method, path |-> path, asks |-> asks, always |-> {},
     body |-> body, wants |-> wants]
Fetch(path, asks, wants) == ApiCall("GET", path, asks, Empty, wants)
Send(method, path, body, wants) == ApiCall(method, path, {}, body, wants)
Erase(path, wants) == Send("DELETE", path, Empty, wants)
Always(fixed, calls) == {[c EXCEPT !.always = fixed] : c \in calls}
By(who, prefix, calls) == {[c EXCEPT !.who = who, !.path = prefix \o @] : c \in calls}

List(field) == {field, "total"}
Listing == {"projectId"} \cup Page

\* The bodies the clients' types allow.
IssueInput == Body({}, {"status", "assignedTo"})
CheckInput == {"interval_seconds", "method", "headers", "body", "auth_type", "auth_value",
               "ignore_ssl", "max_redirects", "keyword", "keyword_not", "dns_record_type",
               "dns_expected_value", "dns_resolver"}
NewMonitor == Body({"name", "url", "project_id"}, {"type", "group"} \cup CheckInput)
MonitorChange == Body({}, {"name", "url", "active"} \cup CheckInput)
NewAlert == Body({"name", "projectId", "condition", "channels"}, {"severity", "cooldownSeconds"})
AlertChange ==
    Body({}, {"name", "severity", "condition", "channels", "isActive", "cooldownSeconds"})
NewRelease == Body({"projectId", "version"}, {"environment", "deployedAt"})
ReleaseChange == Body({}, {"version", "environment", "deployedAt"})
NewMember == Body({"projectId", "name", "email"}, {"role"})
MemberChange == Body({}, {"name", "email", "role"})
NewComment == Body({"authorName", "body"}, {})
NewWindow == Body({"projectId", "name", "startsAt", "endsAt"}, {"description", "monitorIds"})
WindowChange == Body({}, {"name", "description", "startsAt", "endsAt", "monitorIds"})
NewIncident == Body({"projectId", "title"}, {"monitorId", "status"})
IncidentChange == Body({}, {"title", "status", "monitorId"})
ChannelInput == Body({"projectId", "config"}, {"enabled"})
Health == {"releaseId", "version", "environment", "newIssuesCount", "errorRate",
           "healthScore", "windowHours"}
DashboardData == {"errorCount24h", "uptimePercent", "activeContainers", "traceCount24h",
                  "recentIssues", "monitorStatuses", "alertCount", "errorBuckets",
                  "traceBuckets"}

-----------------------------------------------------------------------------
\* The SDK, a set per resource class.
SdkIssues == By("sdk", <<"api", "issues">>,
    {Fetch(<<>>, {"status", "search", "environment", "level"} \cup Listing, Paged("data")),
     Fetch(<<":">>, {}, {"row", "events"}),
     Send("PATCH", <<":">>, IssueInput, {"row"}),
     Erase(<<":">>, {"deleted"}),
     Send("POST", <<"merge">>, Body({"targetIssueId", "sourceIssueIds"}, {}),
          {"merged", "targetIssueId", "totalEvents"}),
     Fetch(<<":", "comments">>, Page, Paged("data")),
     Send("POST", <<":", "comments">>, NewComment, {"row"})})
SdkEvents == By("sdk", <<"api", "events">>,
    {Fetch(<<>>, {"issueId"} \cup Listing, Paged("data")), Fetch(<<":">>, {}, {"row"})})
SdkMonitors == By("sdk", <<"api", "monitors">>,
    {Fetch(<<>>, {"project_id", "group", "hours"}, {"monitors"}),
     Fetch(<<":">>, {}, {"monitor"}),
     Send("POST", <<>>, NewMonitor, {"monitor"}),
     Send("PUT", <<":">>, MonitorChange, {"monitor"}),
     Erase(<<":">>, {"deleted"}),
     Fetch(<<"groups">>, {"project_id"}, {"groups"}),
     Fetch(<<":", "checks">>, Page \cup Span, List("data"))})
SdkAlerts == By("sdk", <<"api", "alerts">>,
    {Fetch(<<>>, {"search"} \cup Listing, Paged("items")),
     Fetch(<<":">>, {}, {"row", "history"}),
     Send("POST", <<>>, NewAlert, {"row"}),
     Send("PUT", <<":">>, AlertChange, {"row"}),
     Erase(<<":">>, {"deleted"}),
     Send("POST", <<":", "test">>, Empty, {}),
     Send("POST", <<"test-all">>, Empty, {"message", "results"}),
     Fetch(<<"history">>, {"alertId"} \cup Page, List("items")),
     Fetch(<<"channels">>, {}, {"channels"})})
SdkTraces == By("sdk", <<"api", "traces">>,
    {Fetch(<<>>, {"traceId", "workflowName", "agentName", "status"} \cup Span \cup Listing,
           Paged("data")),
     Fetch(<<":">>, {}, {}),
     Fetch(<<"workflows">>, {"workflowName", "status"} \cup Listing, {}),
     Fetch(<<"workflows", ":">>, {}, {})}
    \cup Always({"projectId"},
         {Fetch(<<"stats">>, {"projectId", "groupBy"} \cup Span, {"tokenUsage", "latency"})}))
SdkLogs == By("sdk", <<"api", "logs">>,
    {Fetch(<<>>, {"container", "level", "search", "regex", "fuzzy"} \cup Span \cup Page, {"data"}),
     Fetch(<<"stats">>, {}, {"total24h", "byLevel", "byContainer", "byHour"}),
     Fetch(<<"volume">>, {"interval", "containerId"} \cup Span, {"data"}),
     Fetch(<<"containers">>, {}, {"data"}),
     ApiCall("DELETE", <<>>, {"before"}, Empty, {"deleted"})})
SdkReleases == By("sdk", <<"api", "releases">>,
    {Fetch(<<>>, {"environment"} \cup Listing, Paged("data")),
     Fetch(<<":">>, {}, {"row"}),
     Send("POST", <<>>, NewRelease, {"row"}),
     Send("PUT", <<":">>, ReleaseChange, {"row"}),
     Erase(<<":">>, {"deleted"}),
     Fetch(<<":", "health">>, {}, Health)})
SdkTeam == By("sdk", <<"api", "team">>,
    {Fetch(<<>>, Listing, Paged("data")),
     Send("POST", <<>>, NewMember, {"row"}),
     Send("PUT", <<":">>, MemberChange, {"row"}),
     Erase(<<":">>, {"deleted"})})
SdkComments == By("sdk", <<"api", "comments">>, {Erase(<<":">>, {"deleted"})})
SdkMaintenance == By("sdk", <<"api", "maintenance">>,
    {Fetch(<<>>, {"status"} \cup Listing, List("items")),
     Fetch(<<"active", "now">>, {"projectId"}, {"items"}),
     Fetch(<<":">>, {}, {"row"}),
     Send("POST", <<>>, NewWindow, {"row"}),
     Send("PUT", <<":">>, WindowChange, {"row"}),
     Erase(<<":">>, {"deleted"})})
SdkIncidents == By("sdk", <<"api", "incidents">>,
    {Fetch(<<>>, {"status"} \cup Listing, List("items")),
     Fetch(<<"active">>, {"projectId"}, {"items"}),
     Fetch(<<":">>, {}, {"row"}),
     Send("POST", <<>>, NewIncident, {"row"}),
     Send("PUT", <<":">>, IncidentChange, {"row"}),
     Erase(<<":">>, {"deleted"})})
SdkNotifications == By("sdk", <<"api", "notifications">>,
    {Fetch(<<>>, {"projectId"}, {"notifications"}),
     Fetch(<<":">>, {"projectId"}, {}),
     Send("PUT", <<":">>, ChannelInput, {}),
     ApiCall("DELETE", <<":">>, {"projectId"}, Empty, {"deleted"}),
     ApiCall("POST", <<":", "test">>, {"projectId"}, Empty, {})})
SdkSearch == By("sdk", <<"api", "search">>, Always({"q"},
    {Fetch(<<>>, {"q", "projectId", "limit"}, {"issues", "events", "traces"})}))
SdkProjects == By("sdk", <<"api", "projects">>,
    {Fetch(<<>>, {}, {"projects"}),
     Send("POST", <<>>, Body({"name"}, {}), {"project", "apiKey"}),
     Erase(<<":">>, {"deleted"}),
     Send("POST", <<":", "rotate-key">>, Empty, {"apiKey"})})
SdkDashboard == By("sdk", <<"api">>,
    {Fetch(<<"dashboard">>, {"projectId"}, DashboardData)})
SdkDocument == By("sdk", <<"api">>, {Fetch(<<"openapi.json">>, {}, {})})

\* The agent that reports a remote host.
AgentReports == By("agent", <<"api", "agent">>,
    {Send("POST", <<"ingest">>, Body({"hostId", "hostStats", "containers", "hostInfo"}, {}),
          {})})

-----------------------------------------------------------------------------
\* The command line and the MCP server; both take the project of a call that needs
\* one from the first project their key lists.
FirstProject == {Fetch(<<"projects">>, {}, {"projects"})}
CliCommands == By("cli", <<"api">>, FirstProject \cup
    {Fetch(<<"dashboard">>, {}, {"errorCount24h", "traceCount24h", "uptimePercentage",
           "activeContainers", "activeAlerts", "recentIssues", "errorBuckets"}),
     Fetch(<<"issues">>, {"status", "level", "search", "limit"}, {"issues"}),
     Fetch(<<"issues", ":">>, {}, {"row", "events"})}
    \cup Always({"projectId"},
         {Fetch(<<"traces", "stats">>, {"projectId", "groupBy"} \cup Span, {"tokenUsage"})}))
CliReports == By("cli", <<"api">>,
    {Fetch(<<"traces">>, {"workflowName", "agentName", "status", "limit"}, {"traces"}),
     Fetch(<<"monitors">>, {}, {"monitors"}),
     Fetch(<<"logs">>, {"search", "level", "container", "limit"}, {"logs"})})
CliStatus == By("cli", <<>>, {Fetch(<<"health">>, {}, {"status"})}) \cup By("cli", <<"api">>,
    {Fetch(<<"infrastructure", "hosts">>, {}, {"hosts"}),
     Fetch(<<"infrastructure", "containers">>, {}, {"containers"}),
     Fetch(<<"infrastructure", "gpu">>, {}, {"gpus"}),
     Fetch(<<"alerts">>, {}, {"alerts"}),
     Fetch(<<"alerts", "history">>, {"limit"}, {"history"})})
McpOverview == By("mcp", <<"api">>, FirstProject \cup
    {Fetch(<<"dashboard">>, {}, {}),
     Fetch(<<"issues">>, {"status", "level", "search", "limit"}, {}),
     Fetch(<<"issues", ":">>, {}, {}),
     Fetch(<<"traces">>, {"workflowName", "agentName", "status", "limit"}, {}),
     Fetch(<<"monitors">>, {"project_id"}, {}),
     Fetch(<<"logs">>, {"search", "level", "container", "limit"}, {})}
    \cup Always({"projectId"},
         {Fetch(<<"traces", "stats">>, {"projectId", "groupBy"} \cup Span, {})}))
McpOperations == By("mcp", <<"api">>,
    {Fetch(<<"infrastructure", "hosts">>, {}, {}),
     Fetch(<<"infrastructure", "containers">>, {}, {}),
     Fetch(<<"infrastructure", "gpu">>, {}, {}),
     Fetch(<<"alerts">>, {}, {}),
     Fetch(<<"alerts", "history">>, {"limit"}, {}),
     Fetch(<<"incidents">>, {"status", "limit"}, {}),
     Fetch(<<"events">>, {"issueId", "limit"}, {}),
     Fetch(<<"export", "issues">>, {"format"} \cup Span, {}),
     Fetch(<<"export", "traces">>, {"format"} \cup Span, {}),
     Fetch(<<"export", "logs">>, {"format"} \cup Span, {}),
     Fetch(<<"badges", "uptime", ":", ":">>, {"format"}, {}),
     Fetch(<<"badges", "incidents", ":", ":">>, {"format"}, {})}
    \cup Always({"projectId"},
         {Fetch(<<"releases">>, {"projectId", "limit"}, {}),
          Fetch(<<"team">>, {"projectId"}, {}),
          Fetch(<<"notifications">>, {"projectId"}, {}),
          Fetch(<<"logs", "stats">>, {"projectId"}, {}),
          Fetch(<<"saved-searches">>, {"projectId"}, {}),
          Fetch(<<"maintenance">>, {"projectId"}, {})})
    \cup Always({"q", "projectId"}, {Fetch(<<"search">>, {"q", "type", "projectId"}, {})}))

-----------------------------------------------------------------------------
\* The web console; withProject sends the project chosen in it.
ConsoleIssues == By("console", <<"api">>,
    {Fetch(<<"dashboard">>, {"projectId"}, DashboardData),
     Fetch(<<"issues">>, {"status", "search", "environment", "level"} \cup Listing, List("data")),
     Fetch(<<"issues", ":">>, {}, {"row", "events"}),
     Send("PATCH", <<"issues", ":">>, IssueInput, {"row"}),
     Fetch(<<"events">>, {"issueId"} \cup Listing, List("data")),
     Fetch(<<"monitors">>, {"project_id", "hours", "group"}, {"monitors"}),
     Fetch(<<"monitors", "groups">>, {}, {"groups"})}
    \cup Always({"limit"}, {Fetch(<<"monitors", ":", "checks">>, {"limit"}, {"checks"})}))
ConsoleHost == By("console", <<"api">>,
    {Fetch(<<"infrastructure", "containers">>, {}, {"containers"}),
     Fetch(<<"infrastructure", "containers", ":">>, Span, {"containerId", "data", "count"}),
     Fetch(<<"infrastructure", "host">>, {}, {"row"}),
     Fetch(<<"infrastructure", "gpu">>, {}, {"gpus", "count"}),
     Fetch(<<"logs">>, {"container", "level", "search", "regex"} \cup Page, {"data"}),
     Fetch(<<"logs", "stats">>, {}, {"total24h", "byLevel", "byContainer", "byHour"}),
     Fetch(<<"logs", "volume">>, {"interval", "containerId"} \cup Span, {"data"}),
     Fetch(<<"saved-searches">>, {"projectId"}, {"data"}),
     Send("POST", <<"saved-searches">>,
          Body({"name", "query"}, {"filters", "projectId"}), {"data"}),
     Erase(<<"saved-searches", ":">>, {"data"}),
     Fetch(<<"export", "logs">>, {"format", "container", "level"}, {})})
ConsoleAlerts == By("console", <<"api">>,
    {Fetch(<<"traces">>, {"workflow", "agent"} \cup Span \cup Listing, List("data")),
     Fetch(<<"traces", ":">>, {}, {"traceId", "spans"}),
     Fetch(<<"alerts">>, {"projectId"}, List("items")),
     Send("POST", <<"alerts">>, NewAlert, {"row"}),
     Erase(<<"alerts", ":">>, {}),
     Send("POST", <<"alerts", ":", "test">>, Empty, {"ok", "channels"}),
     Send("POST", <<"alerts", "test-all">>, Empty, {"message", "results"}),
     Fetch(<<"alerts", "channels">>, {}, {"channels"})})
ConsoleProjects == By("console", <<"api">>,
    {Fetch(<<"projects">>, {}, {"projects"}),
     Send("POST", <<"projects">>, Body({"name"}, {}), {"project", "apiKey"}),
     Erase(<<"projects", ":">>, {}),
     Send("POST", <<"projects", ":", "rotate-key">>, Empty, {"apiKey"}),
     Fetch(<<"alerts", "history">>, {"alertId"} \cup Listing, Paged("items"))})
ConsoleTeam == By("console", <<"api">>,
    {Fetch(<<"releases">>, {"environment"} \cup Listing, List("data")),
     Send("POST", <<"releases">>, NewRelease, {"row"}),
     Fetch(<<"releases", ":", "health">>, {}, Health),
     Erase(<<"releases", ":">>, {}),
     Fetch(<<"team">>, Listing, List("data")),
     Send("POST", <<"team">>, NewMember, {"row"}),
     Send("PUT", <<"team", ":">>, MemberChange, {"row"}),
     Erase(<<"team", ":">>, {}),
     Fetch(<<"issues", ":", "comments">>, Page, List("data")),
     Send("POST", <<"issues", ":", "comments">>, NewComment, {"row"}),
     Erase(<<"comments", ":">>, {})}
    \cup Always({"q"}, {Fetch(<<"search">>, {"q", "projectId"}, {"issues", "events", "traces"})}))
\* The only calls that pass a key of their own, the instance key.
ConsoleAdmin == By("console admin", <<"api", "admin">>,
    {Fetch(<<"storage">>, {}, {"totalBytes", "totalHuman", "tables"}),
     Fetch(<<"retention">>, {}, {"defaultDays", "tables"}),
     Send("PUT", <<"retention", ":">>, Body({"retentionDays"}, {}),
          {"tableName", "retentionDays"})})
ConsoleIncidents == By("console", <<"api">>,
    {Fetch(<<"status", ":">>, {}, {"project", "overall", "monitors", "incidents"}),
     Fetch(<<"status", ":", "history">>, {"days"}, {"history"}),
     Send("POST", <<"subscribers">>, Body({"projectId", "email", "autoVerify"}, {}), {"row"}),
     Send("POST", <<"subscribers", "public">>, Body({"slug", "email"}, {}), {"id", "subscribed"}),
     Fetch(<<"incidents">>, {"status"} \cup Listing, Paged("items")),
     Fetch(<<"incidents", "active">>, {"projectId"}, {"items"}),
     Send("POST", <<"incidents">>,
          Body({"projectId", "title"}, {"status", "monitorId", "severity", "description"}),
          {"row"}),
     Send("PUT", <<"incidents", ":">>,
          Body({}, {"title", "status", "monitorId", "severity", "description"}), {"row"}),
     Erase(<<"incidents", ":">>, {"deleted"})})
ConsoleRules == By("console", <<"api">>,
    {Fetch(<<"releases", ":">>, {}, {"row"}),
     Send("PUT", <<"releases", ":">>, ReleaseChange, {"row"}),
     Fetch(<<"fingerprint-rules">>, Listing, Paged("data")),
     Fetch(<<"fingerprint-rules", ":">>, {}, {"row"}),
     Send("POST", <<"fingerprint-rules">>,
          Body({"projectId", "name", "pattern"}, {"groupBy", "isActive"}), {"row"}),
     Send("PUT", <<"fingerprint-rules", ":">>,
          Body({}, {"name", "pattern", "groupBy", "isActive"}), {"row"}),
     Erase(<<"fingerprint-rules", ":">>, {"ok"}),
     Fetch(<<"notifications">>, {"projectId"}, {"notifications"})})
ConsoleSettings == By("console", <<"api">>,
    {Fetch(<<"notifications", ":">>, {"projectId"}, {"row", "config", "configured", "source"}),
     Send("PUT", <<"notifications", ":">>, ChannelInput, {"id", "channel", "created", "updated"}),
     ApiCall("DELETE", <<"notifications", ":">>, {"projectId"}, Empty, {"deleted"}),
     ApiCall("POST", <<"notifications", ":", "test">>, {"projectId"}, Empty, {"ok", "error"}),
     Fetch(<<"infrastructure", "host", "history">>, {"hostId", "limit"} \cup Span,
           {"data", "count"}),
     Fetch(<<"monitors", ":">>, {}, {"monitor"}),
     Send("POST", <<"monitors">>, NewMonitor, {"monitor"}),
     Send("PUT", <<"monitors", ":">>, MonitorChange, {"monitor"}),
     Erase(<<"monitors", ":">>, {"deleted"})})

SdkCalls == UNION
    {SdkIssues, SdkEvents, SdkMonitors, SdkAlerts, SdkTraces, SdkLogs, SdkReleases, SdkTeam,
     SdkComments, SdkMaintenance, SdkIncidents, SdkNotifications, SdkSearch, SdkProjects,
     SdkDashboard, SdkDocument}
ToolCalls == UNION {AgentReports, CliCommands, CliReports, CliStatus, McpOverview, McpOperations}
ConsoleCalls == UNION
    {ConsoleIssues, ConsoleHost, ConsoleAlerts, ConsoleProjects, ConsoleTeam, ConsoleAdmin,
     ConsoleIncidents, ConsoleRules, ConsoleSettings}
=============================================================================
