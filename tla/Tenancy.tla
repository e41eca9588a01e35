------------------------------ MODULE Tenancy ------------------------------
\* The rows of a project in the PostgreSQL tables of src/src/store/schema.ts, the
\* requests and workers that insert and delete them, and the deletions that take
\* several statements: of a project, an alert rule and an issue in a transaction,
\* of a monitor without one.  Every statement sees what is committed when it
\* starts (read committed), so others work between any two of them.
\*
\* Bounds: one row per table and project, at most MaxRows of them besides the
\* projects, and one deletion of several statements at a time.  Requests are
\* those their caller may make; saved searches of no project are left out.
EXTENDS Naturals, FiniteSets, Sequences

CONSTANTS Projects, MaxRows, None

ASSUME TenancyAssumption == MaxRows \in Nat /\ None \notin Projects

VARIABLES
    rows,     \* the committed rows
    link,     \* the project whose row a nullable column refers to, or None
    job,      \* the deletion under way
    verdict   \* how the deletion ended, and why, in the state that follows it

tenancyVars == <<rows, link, job, verdict>>
-----------------------------------------------------------------------------
\* The foreign keys of each table: the table referred to, and what happens to a
\* row when the one it refers to is deleted.  "noAction" refuses that deletion.
\* Defect: the log entries keep the project's id without a foreign key.
LogsUnbound        == [t \in {} |-> ""]

TeamMembers        == [projects |-> "cascade"]
Events             == [projects |-> "noAction", issues |-> "noAction"]
Issues             == [projects |-> "noAction", team_members |-> "setNull"]
Traces             == [projects |-> "noAction"]
UptimeMonitors     == [projects |-> "noAction"]
UptimeChecks       == [uptime_monitors |-> "noAction"]
Alerts             == [projects |-> "noAction"]
AlertHistory       == [alerts |-> "noAction"]
Logs               == [projects |-> "cascade"]
NotificationConfig == [projects |-> "noAction"]
MaintenanceWindows == [projects |-> "noAction"]
Incidents          == [projects |-> "noAction", uptime_monitors |-> "noAction"]
Releases           == [projects |-> "cascade"]
IssueComments      == [issues |-> "cascade"]
FingerprintRules   == [projects |-> "cascade"]
SavedSearches      == [projects |-> "cascade"]
StatusSubscribers  == [projects |-> "cascade"]

Keys == [
    projects |-> [t \in {} |-> ""], team_members |-> TeamMembers, events |-> Events,
    issues |-> Issues, traces |-> Traces, uptime_monitors |-> UptimeMonitors,
    uptime_checks |-> UptimeChecks, alerts |-> Alerts, alert_history |-> AlertHistory,
    logs |-> Logs, notification_config |-> NotificationConfig,
    maintenance_windows |-> MaintenanceWindows, incidents |-> Incidents,
    releases |-> Releases, issue_comments |-> IssueComments,
    fingerprint_rules |-> FingerprintRules, saved_searches |-> SavedSearches,
    status_subscribers |-> StatusSubscribers]

Tables == DOMAIN Keys
Row(t, p) == [table |-> t, project |-> p]
AllRows == [table : Tables, project : Projects]

\* The two columns that may be null, and may name a row of another project: the
\* member an issue is assigned to and the monitor of an incident.
Linking == [table : {"issues", "incidents"}, project : Projects]
LinkTo(t) == IF t = "issues" THEN "team_members" ELSE "uptime_monitors"

\* Row r refers to row d, by a key that treats its deletion as `on` says.
Refers(r, d, on) ==
    /\ d.table \in DOMAIN Keys[r.table] /\ Keys[r.table][d.table] = on
    /\ d.project = IF r \in Linking /\ d.table = LinkTo(r.table)
                   THEN link[r] ELSE r.project

\* What the statement under way still sees, what falls with the rows D, and
\* whether some row that stays forbids it.
Live == rows \ job.doomed
Falls(D) == D \cup {r \in Live : \E d \in D : Refers(r, d, "cascade")}
Held(D) ==
    LET fall == Falls(D) IN
    \E r \in Live \ fall : \E d \in fall : Refers(r, d, "noAction")

Unlinked(D) ==
    [r \in Linking |-> IF r \in D \/ Row(LinkTo(r.table), link[r]) \in D THEN None ELSE link[r]]

NoJob == [kind |-> "none", project |-> None, step |-> 0, known |-> {}, doomed |-> {},
          raced |-> FALSE, named |-> FALSE]

NoVerdict == [kind |-> "none", cause |-> "none"]
Quiet == verdict' = NoVerdict

TenancyInit ==
    /\ rows = {} /\ link = [r \in Linking |-> None]
    /\ job = NoJob /\ verdict = NoVerdict
-----------------------------------------------------------------------------
\* Inserts.  A row that refers to one a transaction has deleted waits for it and
\* then fails on its key; a failed request changes nothing.
Raced(ps) == job' = [job EXCEPT !.raced = @ \/ (job # NoJob /\ job.project \in ps)]

HasRoom == Cardinality({r \in rows : r.table # "projects"}) < MaxRows

Insert(t, p) ==
    /\ Row(t, p) \notin rows
    /\ \A u \in DOMAIN Keys[t] :
           Row(u, p) \in Live \/ (Row(t, p) \in Linking /\ u = LinkTo(t))
    /\ t = "projects" \/ HasRoom
    /\ rows' = rows \cup {Row(t, p)}
    /\ Raced({p})
    /\ Quiet

Put(t, p) == Insert(t, p) /\ UNCHANGED link

CreateProject(p) == Put("projects", p)
ProvisionTenant(p) == Put("projects", p)
ProvisionBootstrap(p) == Put("projects", p)
AddMember(p) == Put("team_members", p)
GroupIssue(p) == Put("issues", p)
IngestEvent(p) == Put("events", p)
AddComment(p) == Put("issue_comments", p)
InsertTraces(p) == Put("traces", p)
CreateMonitor(p) == Put("uptime_monitors", p)
InsertCheck(p) == Put("uptime_checks", p)
CreateAlert(p) == Put("alerts", p)
RecordAlert(p) == Put("alert_history", p)
WriteLog(p) == Put("logs", p)
SetChannel(p) == Put("notification_config", p)
PlanWindow(p) == Put("maintenance_windows", p)
AddRelease(p) == Put("releases", p)
AddRule(p) == Put("fingerprint_rules", p)
SaveSearch(p) == Put("saved_searches", p)
Subscribe(p) == Put("status_subscribers", p)

\* An incident may name any monitor there is, of any project.
OpenIncident(p, m) ==
    /\ m # None => Row("uptime_monitors", m) \in Live
    /\ Row("incidents", p) \notin rows /\ Row("projects", p) \in Live
    /\ HasRoom
    /\ rows' = rows \cup {Row("incidents", p)}
    /\ link' = [link EXCEPT ![Row("incidents", p)] = m]
    /\ Raced({p, m})
    /\ Quiet

RelinkIncident(p, m) ==
    /\ {Row("incidents", p), Row("uptime_monitors", m)} \subseteq Live
    /\ link' = [link EXCEPT ![Row("incidents", p)] = m]
    /\ Raced({m})
    /\ Quiet /\ UNCHANGED rows

\* PATCH of an issue: the member must exist, in whatever project, or be empty.
AssignIssue(p, q) ==
    /\ Row("issues", p) \in Live
    /\ q # None => Row("team_members", q) \in Live
    /\ link' = [link EXCEPT ![Row("issues", p)] = q]
    /\ Quiet /\ UNCHANGED <<rows, job>>
-----------------------------------------------------------------------------
\* Deletions of one statement.
Drop(t, p) ==
    LET D == {Row(t, p)} IN
    /\ D \subseteq Live /\ ~Held(D)
    /\ rows' = rows \ Falls(D)
    /\ link' = Unlinked(Falls(D))
    /\ Quiet /\ UNCHANGED job

RemoveMember(p) == Drop("team_members", p)
DeleteComment(p) == Drop("issue_comments", p)
DeleteIncident(p) == Drop("incidents", p)
DeleteWindow(p) == Drop("maintenance_windows", p)
DeleteChannel(p) == Drop("notification_config", p)
DeleteRelease(p) == Drop("releases", p)
DeleteRule(p) == Drop("fingerprint_rules", p)
DeleteSearch(p) == Drop("saved_searches", p)
Unsubscribe(p) == Drop("status_subscribers", p)
ClearLogs(p) == Drop("logs", p)
Expire(p) == \E t \in {"events", "traces", "logs", "uptime_checks", "alert_history"} : Drop(t, p)
-----------------------------------------------------------------------------
\* Defect: the checks of the monitors are left to the foreign key.
ProjectPlanShort == <<"alert_history", "alerts", "uptime_monitors", "events",
    "issues", "traces", "notification_config", "maintenance_windows", "incidents", "projects">>

\* Deletions of several statements: the tables they go through, in their order.
ProjectPlan == <<"alert_history", "uptime_checks", "alerts", "uptime_monitors", "events",
    "issues", "traces", "notification_config", "maintenance_windows", "incidents", "projects">>

Plan == [
    project |-> ProjectPlan, monitor |-> <<"uptime_checks", "uptime_monitors">>,
    alert |-> <<"alert_history", "alerts">>, issue |-> <<"events", "issues">>]

\* The rows that `known` holds back: the alerts and monitors whose ids were read
\* when the transaction began.
Begin(kind, p, first, known) ==
    /\ job = NoJob /\ first \in rows
    /\ job' = [NoJob EXCEPT !.kind = kind, !.project = p, !.step = 1, !.known = known,
         !.named = \E i \in rows : i.table = "incidents" /\ link[i] = p]
    /\ Quiet /\ UNCHANGED <<rows, link>>

DeleteProject(p) ==
    Begin("project", p, Row("projects", p),
          {t \in {"alert_history", "uptime_checks"} :
             \E u \in DOMAIN Keys[t] : Row(u, p) \in rows})
DeleteMonitor(p) == Begin("monitor", p, Row("uptime_monitors", p), {"uptime_checks"})
DeleteAlert(p) == Begin("alert", p, Row("alerts", p), {"alert_history"})
DeleteIssue(p) == Begin("issue", p, Row("issues", p), {})

\* One statement: its rows fall, in the transaction or for good; or a row that
\* refers to one of them makes it fail, and the transaction with it.
Statement ==
    LET t == Plan[job.kind][job.step]
        D == {r \in Live : /\ r = Row(t, job.project)
                           /\ t \in {"alert_history", "uptime_checks"} => t \in job.known}
    IN
    /\ job # NoJob /\ job.step <= Len(Plan[job.kind])
    /\ \/ /\ Held(D)
          /\ job' = NoJob
          /\ verdict' = [kind |-> job.kind,
               cause |-> IF job.raced THEN "raced" ELSE IF job.named THEN "named" ELSE "unknown"]
          /\ UNCHANGED <<rows, link>>
       \/ /\ ~Held(D) /\ job.kind = "monitor"
          /\ rows' = rows \ Falls(D) /\ link' = Unlinked(Falls(D))
          /\ job' = [job EXCEPT !.step = @ + 1]
          /\ Quiet
       \/ /\ ~Held(D) /\ job.kind # "monitor"
          /\ job' = [job EXCEPT !.step = @ + 1, !.doomed = @ \cup Falls(D)]
          /\ Quiet /\ UNCHANGED <<rows, link>>

Commit ==
    /\ job # NoJob /\ job.step > Len(Plan[job.kind])
    /\ rows' = Live /\ link' = Unlinked(job.doomed)
    /\ job' = NoJob
    /\ verdict' = [kind |-> job.kind, cause |-> "deleted"]

\* The connection to the database is lost: a transaction is rolled back.
ConnectionLost ==
    /\ job # NoJob
    /\ job' = NoJob /\ verdict' = [kind |-> job.kind, cause |-> "lost"]
    /\ UNCHANGED <<rows, link>>
-----------------------------------------------------------------------------
Request(p) ==
    \/ CreateProject(p) \/ ProvisionTenant(p) \/ ProvisionBootstrap(p) \/ AddMember(p)
    \/ AddComment(p) \/ CreateMonitor(p) \/ CreateAlert(p) \/ SetChannel(p) \/ PlanWindow(p)
    \/ AddRelease(p) \/ AddRule(p) \/ SaveSearch(p) \/ Subscribe(p)
    \/ \E m \in Projects \cup {None} : OpenIncident(p, m) \/ AssignIssue(p, m)
    \/ \E m \in Projects : RelinkIncident(p, m)

Telemetry(p) ==
    \/ GroupIssue(p) \/ IngestEvent(p) \/ InsertTraces(p) \/ InsertCheck(p)
    \/ RecordAlert(p) \/ WriteLog(p)

Deletion(p) ==
    \/ RemoveMember(p) \/ DeleteComment(p) \/ DeleteIncident(p) \/ DeleteWindow(p)
    \/ DeleteChannel(p) \/ DeleteRelease(p) \/ DeleteRule(p) \/ DeleteSearch(p)
    \/ Unsubscribe(p) \/ ClearLogs(p) \/ Expire(p)
    \/ DeleteProject(p) \/ DeleteMonitor(p) \/ DeleteAlert(p) \/ DeleteIssue(p)

TenancyNext ==
    \/ \E p \in Projects : Request(p) \/ Telemetry(p) \/ Deletion(p)
    \/ Statement \/ Commit \/ ConnectionLost
-----------------------------------------------------------------------------
TenancySpec == TenancyInit /\ [][TenancyNext]_tenancyVars

TenancyTypeOK ==
    /\ rows \subseteq AllRows
    /\ link \in [Linking -> Projects \cup {None}]
    /\ job.doomed \subseteq rows
    /\ job.kind \in {"none"} \cup DOMAIN Plan /\ job.project \in Projects \cup {None}

\* A project that is gone has left no row behind in any table, and no column
\* names a row that is gone, whatever was inserted while it was being deleted:
\* the deletion lists some tables and leaves the others to their cascade.
ProjectGoesWhole ==
    /\ \A r \in rows : Row("projects", r.project) \in rows
    /\ \A r \in rows \cap Linking : link[r] # None => Row(LinkTo(r.table), link[r]) \in rows

\* A deletion of several statements fails only because the connection was lost,
\* a row that refers to what it deletes appeared while it ran, or an incident
\* names the monitor: its statements are in an order the keys allow.
AbortHasCause == verdict.cause # "unknown"

\* What docs/api.md promises of the deletion of a project, "and all of its
\* associated data": it does not fail over a row that was there when it began.
DeletionTakesAll == verdict # [kind |-> "project", cause |-> "named"]
=============================================================================
