----------------------------- MODULE ApiDocument -----------------------------
(***************************************************************************)
(* The requests the OpenAPI document (lib/openapi.ts) says the server      *)
(* answers, a set per tag, as the calls of a client written from it: the   *)
(* documented parameters, bodies and answers.  Answers that are documented *)
(* without a schema want nothing.                                          *)
(***************************************************************************)
EXTENDS ApiCallers

\* The schemas of request bodies.
IssueBodies ==
    [ProjectCreate |-> Body({"name"}, {}),
     IssueUpdate |-> Body({}, {"status", "assignedTo"}),
     IssueMerge |-> Body({"targetIssueId", "sourceIssueIds"}, {}),
     MonitorCreate |-> Body({"name", "url", "project_id"}, {"type", "group",
         "interval_seconds", "method", "headers", "body", "ignore_ssl", "max_redirects",
         "keyword"}),
     MonitorUpdate |-> Body({}, {"name", "url", "interval_seconds", "active", "method",
         "ignore_ssl", "keyword"})]
RuleBodies ==
    [AlertCreate |-> Body({"name", "projectId", "condition", "channels"}, {"severity",
         "cooldownSeconds"}),
     AlertUpdate |-> Body({}, {"name", "severity", "condition", "channels", "isActive",
         "cooldownSeconds"}),
     ReleaseCreate |-> Body({"projectId", "version"}, {"environment", "deployedAt"}),
     TeamMemberCreate |-> Body({"projectId", "name", "email"}, {"role"}),
     TeamMemberUpdate |-> Body({}, {"name", "email", "role"})]
PlanBodies ==
    [CommentCreate |-> Body({"authorName", "body"}, {}),
     MaintenanceWindowCreate |-> Body({"projectId", "name", "startsAt", "endsAt"},
         {"description", "monitorIds"}),
     MaintenanceWindowUpdate |-> Body({}, {"name", "description", "startsAt", "endsAt",
         "monitorIds"}),
     IncidentCreate |-> Body({"projectId", "title"}, {"monitorId", "status"}),
     IncidentUpdate |-> Body({}, {"title", "status", "monitorId"})]

DocHealth == By("document", <<>>,
    {Fetch(<<"api", "health">>, {}, {}),
     Fetch(<<"health">>, {}, {}),
     Fetch(<<"metrics">>, {}, {})})
DocProjects == By("document", <<"api", "projects">>,
    {Fetch(<<>>, {}, {}),
     Send("POST", <<>>, IssueBodies.ProjectCreate, {}),
     Erase(<<":">>, {}),
     Send("POST", <<":", "rotate-key">>, Empty, {})})
DocIssues == By("document", <<"api", "issues">>,
    {Fetch(<<>>, {"status", "search", "environment", "level"} \cup Listing, Paged("data")),
     Fetch(<<":">>, {}, {}),
     Send("PATCH", <<":">>, IssueBodies.IssueUpdate, {}),
     Erase(<<":">>, {}),
     Send("POST", <<"merge">>, IssueBodies.IssueMerge, {})})
DocEvents == By("document", <<"api", "events">>,
    {Fetch(<<>>, {"issueId"} \cup Listing, List("data")),
     Fetch(<<":">>, {}, {})})
DocMonitors == By("document", <<"api", "monitors">>,
    {Fetch(<<>>, {"project_id", "group", "hours"}, {}),
     Send("POST", <<>>, IssueBodies.MonitorCreate, {}),
     Fetch(<<"groups">>, {"project_id"}, {}),
     Fetch(<<":">>, {}, {}),
     Send("PUT", <<":">>, IssueBodies.MonitorUpdate, {}),
     Erase(<<":">>, {}),
     Fetch(<<":", "checks">>, Page \cup Span, {})})
DocAlerts == By("document", <<"api", "alerts">>,
    {Fetch(<<>>, {"search"} \cup Listing, List("items")),
     Send("POST", <<>>, RuleBodies.AlertCreate, {}),
     Fetch(<<"history">>, {"alertId"} \cup Page, {"items"}),
     Fetch(<<"channels">>, {}, {}),
     Send("POST", <<"test-all">>, Empty, {}),
     Fetch(<<":">>, {}, {}),
     Send("PUT", <<":">>, RuleBodies.AlertUpdate, {}),
     Erase(<<":">>, {}),
     Send("POST", <<":", "test">>, Empty, {})})
DocTraces == By("document", <<"api", "traces">>,
    {Fetch(<<>>, {"traceId", "workflowName", "agentName", "status"} \cup Listing \cup Span,
         List("data")),
     Fetch(<<"stats">>, {"projectId", "groupBy"} \cup Span, {}),
     Fetch(<<"workflows">>, {"workflowName", "status"} \cup Listing, {}),
     Fetch(<<"workflows", ":">>, {}, {}),
     Fetch(<<":">>, {}, {})})
DocLogs == By("document", <<"api", "logs">>,
    {Fetch(<<>>, {"container", "level", "search", "regex", "fuzzy"} \cup Page \cup Span, {}),
     ApiCall("DELETE", <<>>, {"before"}, Empty, {}),
     Fetch(<<"stats">>, {}, {}),
     Fetch(<<"volume">>, {"interval", "containerId"} \cup Span, {}),
     Fetch(<<"containers">>, {}, {})})
DocEmbed == By("document", <<>>,
    {Fetch(<<"api", "dashboard">>, {"projectId", "tenantId"}, DashboardData),
     Fetch(<<"embed">>, {"tenantId", "slug"}, {}),
     Fetch(<<"embed", "dashboard">>, {"tenantId", "projectId", "limit"}, {}),
     Fetch(<<"embed", "status", ":">>, {}, {})})
DocReleases == By("document", <<"api", "releases">>,
    {Fetch(<<>>, {"environment"} \cup Listing, List("data")),
     Send("POST", <<>>, RuleBodies.ReleaseCreate, {}),
     Fetch(<<":">>, {}, {}),
     Send("PUT", <<":">>, Empty, {}),
     Erase(<<":">>, {}),
     Fetch(<<":", "health">>, {}, Health)})
DocTeam == By("document", <<"api", "team">>,
    {Fetch(<<>>, Listing, List("data")),
     Send("POST", <<>>, RuleBodies.TeamMemberCreate, {}),
     Send("PUT", <<":">>, RuleBodies.TeamMemberUpdate, {}),
     Erase(<<":">>, {})})
DocComments == By("document", <<"api">>,
    {Fetch(<<"issues", ":", "comments">>, Page, List("data")),
     Send("POST", <<"issues", ":", "comments">>, PlanBodies.CommentCreate, {}),
     Fetch(<<"comments">>, {"issueId"} \cup Page, Paged("data")),
     Erase(<<"comments", ":">>, {})})
DocMaintenance == By("document", <<"api", "maintenance">>,
    {Fetch(<<>>, {"status"} \cup Listing, List("items")),
     Send("POST", <<>>, PlanBodies.MaintenanceWindowCreate, {}),
     Fetch(<<"active", "now">>, {"projectId"}, {}),
     Fetch(<<":">>, {}, {}),
     Send("PUT", <<":">>, PlanBodies.MaintenanceWindowUpdate, {}),
     Erase(<<":">>, {})})
DocIncidents == By("document", <<"api", "incidents">>,
    {Fetch(<<>>, {"status"} \cup Listing, List("items")),
     Send("POST", <<>>, PlanBodies.IncidentCreate, {}),
     Fetch(<<"active">>, {"projectId"}, {}),
     Fetch(<<":">>, {}, {}),
     Send("PUT", <<":">>, PlanBodies.IncidentUpdate, {}),
     Erase(<<":">>, {})})
DocNotifications == By("document", <<"api">>,
    {Fetch(<<"notifications">>, {"projectId"}, {}),
     Fetch(<<"notifications", ":">>, {"projectId"}, {}),
     Send("PUT", <<"notifications", ":">>, Empty, {}),
     ApiCall("DELETE", <<"notifications", ":">>, {"projectId"}, Empty, {}),
     ApiCall("POST", <<"notifications", ":", "test">>, {"projectId"}, Empty, {})}
    \cup Always({"q"}, {Fetch(<<"search">>, {"q", "projectId", "limit"}, {})}))
DocInfrastructure == By("document", <<"api", "infrastructure">>,
    {Fetch(<<"containers">>, {"hostId"}, {}),
     Fetch(<<"containers", ":">>, {"hostId"} \cup Span, {}),
     Fetch(<<"host">>, {"hostId"}, {}),
     Fetch(<<"host", "history">>, {"hostId"} \cup Span, {}),
     Fetch(<<"overview">>, {"hostId"}, {})})
DocBadges == By("document", <<"api", "badges">>,
    {Fetch(<<"uptime", ":", ":">>, {}, {}),
     Fetch(<<"incidents", ":", ":">>, {}, {})})
DocFingerprints == By("document", <<"api", "fingerprint-rules">>,
    {Fetch(<<>>, Listing, Paged("data")),
     Send("POST", <<>>, Body({"projectId", "name", "pattern"}, {"groupBy", "isActive"}), {}),
     Fetch(<<":">>, {}, {}),
     Send("PUT", <<":">>, Body({}, {"name", "pattern", "groupBy", "isActive"}), {}),
     Erase(<<":">>, {})})
DocSearches == By("document", <<"api", "saved-searches">>,
    {Fetch(<<>>, {"projectId"}, {}),
     Send("POST", <<>>, Body({"name", "query"}, {"filters", "projectId"}), {}),
     Erase(<<":">>, {})})
DocSubscribers == By("document", <<"api", "subscribers">>,
    {Fetch(<<>>, Listing, Paged("data")),
     Send("POST", <<>>, Body({"projectId", "email"}, {"autoVerify"}), {}),
     Send("POST", <<"public">>, Body({"projectId", "email"}, {}), {}),
     Erase(<<":">>, {}),
     Send("POST", <<":", "verify">>, Empty, {})})
DocAgent == By("document", <<"api", "agent", "ingest">>,
    {Send("POST", <<>>, Body({"hostId", "hostStats", "containers"}, {"gpu", "hostInfo"}),
         {})})
DocExport == By("document", <<"api", "export">>,
    {Fetch(<<"issues">>, {"format"} \cup Span, {"data", "count"}),
     Fetch(<<"traces">>, {"format"} \cup Span, {"data", "count"}),
     Fetch(<<"logs">>, {"format", "level", "container"} \cup Span, {"data", "count"})})
DocSourcemaps == By("document", <<"api", "sourcemaps">>,
    {Send("POST", <<":">>, Body({"file", "release"}, {}), {"uploaded", "projectId",
         "release", "size"}),
     Fetch(<<":">>, {}, {"releases"}),
     Fetch(<<":", ":">>, {}, {}),
     Erase(<<":", ":">>, {})})
DocAdmin == By("document", <<"api", "admin">>,
    {Fetch(<<"projects">>, {}, {}),
     Send("POST", <<"projects">>, Body({"name"}, {"tenantId", "apiRole"}), {"project",
         "apiKey", "rotated"}),
     Send("POST", <<"projects", ":", "rotate-key">>, Empty, {"project", "apiKey",
         "apiKeyPreview"}),
     Fetch(<<"tenants", ":">>, {}, {"tenantId", "project"})})
DocTenant == By("document", <<"api", "tenant">>,
    {Fetch(<<":", "health">>, {}, {"tenantId", "projects", "totalIssues", "openIssues",
         "avgUptime", "lastError"})})
DocStatus == By("document", <<"api", "status">>,
    {Fetch(<<":">>, {}, {"project", "overall", "monitors", "incidents"}),
     Fetch(<<":", "history">>, {"days"}, {"history"})})
DocSocket == By("document", <<"ws", "logs">>,
    {Fetch(<<>>, {}, {})})

DocumentedCalls == UNION
    {DocHealth, DocProjects, DocIssues, DocEvents, DocMonitors, DocAlerts, DocTraces, DocLogs,
     DocEmbed, DocReleases, DocTeam, DocComments, DocMaintenance, DocIncidents,
     DocNotifications, DocInfrastructure, DocBadges, DocFingerprints, DocSearches,
     DocSubscribers, DocAgent, DocExport, DocSourcemaps, DocAdmin, DocTenant, DocStatus,
     DocSocket}
=============================================================================
