---------------------------- MODULE TenancyProofs ----------------------------
(***************************************************************************)
(* Proofs about the rows of a project (Tenancy), for any number of         *)
(* projects and rows: what the eighteen tables' foreign keys and the order *)
(* of the deletions' statements amount to, and that no interleaving of     *)
(* requests, workers and deletions leaves a row without its project.       *)
(***************************************************************************)
EXTENDS Tenancy, Integers, TLAPS

\* The keys that may not be null: with them a row belongs to its project.
Owning(t) == IF t \in {"issues", "incidents"} THEN DOMAIN Keys[t] \ {LinkTo(t)} ELSE DOMAIN Keys[t]

\* The tables no key but an issue's assignee refers to; the ones that fall with a
\* row they belong to are among them.
Leaves == {"team_members", "issue_comments", "incidents", "maintenance_windows",
    "notification_config", "releases", "fingerprint_rules", "saved_searches",
    "status_subscribers", "logs", "events", "traces", "uptime_checks", "alert_history"}

LEMMA TablesAre ==
    Tables = {"projects", "team_members", "events", "issues", "traces", "uptime_monitors",
        "uptime_checks", "alerts", "alert_history", "logs", "notification_config",
        "maintenance_windows", "incidents", "releases", "issue_comments", "fingerprint_rules",
        "saved_searches", "status_subscribers"}
  BY DEF Tables, Keys

LEMMA KeysAre ==
    /\ DOMAIN Keys["projects"] = {}
    /\ DOMAIN Keys["team_members"] = {"projects"}
    /\ DOMAIN Keys["events"] = {"projects", "issues"}
    /\ DOMAIN Keys["issues"] = {"projects", "team_members"}
    /\ DOMAIN Keys["traces"] = {"projects"}
    /\ DOMAIN Keys["uptime_monitors"] = {"projects"}
    /\ DOMAIN Keys["uptime_checks"] = {"uptime_monitors"}
    /\ DOMAIN Keys["alerts"] = {"projects"}
    /\ DOMAIN Keys["alert_history"] = {"alerts"}
    /\ DOMAIN Keys["logs"] = {"projects"}
    /\ DOMAIN Keys["notification_config"] = {"projects"}
    /\ DOMAIN Keys["maintenance_windows"] = {"projects"}
    /\ DOMAIN Keys["incidents"] = {"projects", "uptime_monitors"}
    /\ DOMAIN Keys["releases"] = {"projects"}
    /\ DOMAIN Keys["issue_comments"] = {"issues"}
    /\ DOMAIN Keys["fingerprint_rules"] = {"projects"}
    /\ DOMAIN Keys["saved_searches"] = {"projects"}
    /\ DOMAIN Keys["status_subscribers"] = {"projects"}
  BY DEF Keys, TeamMembers, Events, Issues, Traces, UptimeMonitors, UptimeChecks, Alerts, AlertHistory,
         Logs, NotificationConfig, MaintenanceWindows, Incidents, Releases, IssueComments,
         FingerprintRules, SavedSearches, StatusSubscribers

LEMMA OnDelete ==
    /\ Keys["team_members"]["projects"] = "cascade"
    /\ Keys["events"]["projects"] = "noAction" /\ Keys["events"]["issues"] = "noAction"
    /\ Keys["issues"]["projects"] = "noAction" /\ Keys["issues"]["team_members"] = "setNull"
    /\ Keys["traces"]["projects"] = "noAction"
    /\ Keys["uptime_monitors"]["projects"] = "noAction"
    /\ Keys["uptime_checks"]["uptime_monitors"] = "noAction"
    /\ Keys["alerts"]["projects"] = "noAction"
    /\ Keys["alert_history"]["alerts"] = "noAction"
    /\ Keys["logs"]["projects"] = "cascade"
    /\ Keys["notification_config"]["projects"] = "noAction"
    /\ Keys["maintenance_windows"]["projects"] = "noAction"
    /\ Keys["incidents"]["projects"] = "noAction" /\ Keys["incidents"]["uptime_monitors"] = "noAction"
    /\ Keys["releases"]["projects"] = "cascade"
    /\ Keys["issue_comments"]["issues"] = "cascade"
    /\ Keys["fingerprint_rules"]["projects"] = "cascade"
    /\ Keys["saved_searches"]["projects"] = "cascade"
    /\ Keys["status_subscribers"]["projects"] = "cascade"
  BY DEF Keys, TeamMembers, Events, Issues, Traces, UptimeMonitors, UptimeChecks, Alerts, AlertHistory,
         Logs, NotificationConfig, MaintenanceWindows, Incidents, Releases, IssueComments,
         FingerprintRules, SavedSearches, StatusSubscribers

\* What holds of every key: what it refers to is a table; only a leaf falls with what
\* it refers to, and a leaf is referred to by nothing but an assignee.
LEMMA KeyFacts ==
    ASSUME NEW t \in Tables, NEW u \in DOMAIN Keys[t]
    PROVE  /\ u \in Tables
           /\ Keys[t][u] = "cascade" => t \in Leaves
           /\ u \in Leaves => t = "issues" /\ u = "team_members" /\ Keys[t][u] = "setNull"
           /\ u \in Owning(t) => Keys[t][u] \in {"cascade", "noAction"}
           /\ u \notin Owning(t) => t \in {"issues", "incidents"} /\ u = LinkTo(t)
<1>1. CASE t \in {"team_members", "logs", "releases", "fingerprint_rules", "saved_searches",
                  "status_subscribers"}
  <2>1. u = "projects"
    BY <1>1, KeysAre
  <2>2. Keys[t]["projects"] = "cascade"
    BY <1>1, OnDelete
  <2> QED
    BY <1>1, <2>1, <2>2, TablesAre DEF Leaves, Owning
<1>2. CASE t \in {"traces", "uptime_monitors", "alerts", "notification_config", "maintenance_windows"}
  <2>1. u = "projects"
    BY <1>2, KeysAre
  <2>2. Keys[t]["projects"] = "noAction"
    BY <1>2, OnDelete
  <2> QED
    BY <1>2, <2>1, <2>2, TablesAre DEF Leaves, Owning
<1>3. CASE t = "issue_comments"
  BY <1>3, KeysAre, OnDelete, TablesAre DEF Leaves, Owning
<1>4. CASE t = "uptime_checks"
  BY <1>4, KeysAre, OnDelete, TablesAre DEF Leaves, Owning
<1>9. CASE t = "alert_history"
  BY <1>9, KeysAre, OnDelete, TablesAre DEF Leaves, Owning
<1>5. CASE t = "events"
  BY <1>5, KeysAre, OnDelete, TablesAre DEF Leaves, Owning
<1>6. CASE t = "issues"
  BY <1>6, KeysAre, OnDelete, TablesAre DEF Leaves, Owning, LinkTo
<1>7. CASE t = "incidents"
  BY <1>7, KeysAre, OnDelete, TablesAre DEF Leaves, Owning, LinkTo
<1>8. CASE t = "projects"
  BY <1>8, KeysAre
<1> QED
  BY <1>1, <1>2, <1>3, <1>4, <1>5, <1>6, <1>7, <1>8, <1>9, TablesAre

\* Every table but projects is two keys from it at most.
LEMMA ProjectAbove ==
    ASSUME NEW t \in Tables, t # "projects"
    PROVE  "projects" \in Owning(t) \/ \E u \in Owning(t) : u \in Tables /\ "projects" \in Owning(u)
  BY TablesAre, KeysAre DEF Owning, LinkTo

\* What refuses the deletion of a row of table u.
LEMMA ReferredBy ==
    ASSUME NEW t \in Tables, NEW u \in Owning(t), Keys[t][u] = "noAction"
    PROVE  /\ u = "alerts" => t = "alert_history"
           /\ u = "uptime_monitors" => t = "uptime_checks"
           /\ u = "issues" => t = "events"
           /\ u = "projects" => t \in {"events", "issues", "traces", "uptime_monitors", "alerts",
                                        "notification_config", "maintenance_windows", "incidents"}
           /\ u \in {"alerts", "uptime_monitors", "issues", "projects"}
<1>1. u \in DOMAIN Keys[t]
  BY DEF Owning
<1>2. CASE t \in {"team_members", "logs", "releases", "fingerprint_rules", "saved_searches",
                  "status_subscribers"}
  <2>1. u = "projects"
    BY <1>1, <1>2, KeysAre
  <2> QED
    BY <1>2, <2>1, OnDelete
<1>3. CASE t \in {"traces", "uptime_monitors", "alerts", "notification_config", "maintenance_windows"}
  <2>1. u = "projects"
    BY <1>1, <1>3, KeysAre
  <2> QED
    BY <1>3, <2>1
<1>4. CASE t = "issue_comments"
  BY <1>1, <1>4, KeysAre, OnDelete
<1>5. CASE t = "uptime_checks"
  BY <1>1, <1>5, KeysAre
<1>6. CASE t = "alert_history"
  BY <1>1, <1>6, KeysAre
<1>7. CASE t = "events"
  BY <1>1, <1>7, KeysAre
<1>8. CASE t = "issues"
  BY <1>8, KeysAre DEF Owning, LinkTo
<1>9. CASE t = "incidents"
  BY <1>9, KeysAre DEF Owning, LinkTo
<1>10. CASE t = "projects"
  BY <1>1, <1>10, KeysAre
<1> QED
  BY <1>2, <1>3, <1>4, <1>5, <1>6, <1>7, <1>8, <1>9, <1>10, TablesAre

\* The deletions of several statements go from what refers to what is referred to.
LEMMA PlansAreOrdered ==
    ASSUME NEW kind \in DOMAIN Plan, NEW k \in 1..Len(Plan[kind]),
           NEW t \in Tables, Plan[kind][k] \in Owning(t), Keys[t][Plan[kind][k]] = "noAction"
    PROVE  \E j \in 1..(k - 1) : Plan[kind][j] = t
<1> DEFINE u == Plan[kind][k]
<1>1. /\ u = "alerts" => t = "alert_history"
      /\ u = "uptime_monitors" => t = "uptime_checks"
      /\ u = "issues" => t = "events"
      /\ u = "projects" => t \in {"events", "issues", "traces", "uptime_monitors", "alerts",
                                   "notification_config", "maintenance_windows", "incidents"}
      /\ u \in {"alerts", "uptime_monitors", "issues", "projects"}
  BY ReferredBy
<1>2. CASE kind = "project"
  <2>1. Plan[kind] = ProjectPlan /\ Len(ProjectPlan) = 11
    BY <1>2 DEF Plan, ProjectPlan
  <2>2. k \in 1..11 /\ u = ProjectPlan[k]
    BY <2>1
  <2>3. /\ ProjectPlan[1] = "alert_history" /\ ProjectPlan[2] = "uptime_checks"
        /\ ProjectPlan[3] = "alerts" /\ ProjectPlan[4] = "uptime_monitors"
        /\ ProjectPlan[5] = "events" /\ ProjectPlan[6] = "issues" /\ ProjectPlan[7] = "traces"
        /\ ProjectPlan[8] = "notification_config" /\ ProjectPlan[9] = "maintenance_windows"
        /\ ProjectPlan[10] = "incidents" /\ ProjectPlan[11] = "projects"
    BY DEF ProjectPlan
  <2> HIDE DEF u
  <2>4. CASE k = 3
    <3>1. ProjectPlan[1] = t /\ 1 \in 1..(k - 1)
      BY <1>1, <2>2, <2>3, <2>4
    <3> QED
      BY <2>1, <3>1
  <2>5. CASE k = 4
    <3>1. ProjectPlan[2] = t /\ 2 \in 1..(k - 1)
      BY <1>1, <2>2, <2>3, <2>5
    <3> QED
      BY <2>1, <3>1
  <2>6. CASE k = 6
    <3>1. ProjectPlan[5] = t /\ 5 \in 1..(k - 1)
      BY <1>1, <2>2, <2>3, <2>6
    <3> QED
      BY <2>1, <3>1
  <2>7. CASE k = 11
    <3>1. t \in {"events", "issues", "traces", "uptime_monitors", "alerts",
                 "notification_config", "maintenance_windows", "incidents"}
      BY <1>1, <2>2, <2>3, <2>7
    <3>2. {3, 4, 5, 6, 7, 8, 9, 10} \subseteq 1..(k - 1)
      BY <2>7
    <3>3. \E j \in {3, 4, 5, 6, 7, 8, 9, 10} : ProjectPlan[j] = t
      BY <2>3, <3>1
    <3> QED
      BY <2>1, <3>2, <3>3
  <2>8. CASE k \in {1, 2, 5, 7, 8, 9, 10}
    BY <1>1, <2>2, <2>3, <2>8
  <2> QED
    BY <2>2, <2>4, <2>5, <2>6, <2>7, <2>8
<1>3. CASE kind \in {"monitor", "alert", "issue"}
  <2>1. /\ Plan["monitor"] = <<"uptime_checks", "uptime_monitors">>
        /\ Plan["alert"] = <<"alert_history", "alerts">>
        /\ Plan["issue"] = <<"events", "issues">>
    BY DEF Plan
  <2>2. ASSUME NEW a, NEW b, Plan[kind] = <<a, b>>
        PROVE  Len(Plan[kind]) = 2 /\ Plan[kind][1] = a /\ Plan[kind][2] = b
    BY <2>2
  <2>3. /\ Len(Plan[kind]) = 2
        /\ kind = "monitor" => Plan[kind][1] = "uptime_checks" /\ Plan[kind][2] = "uptime_monitors"
        /\ kind = "alert" => Plan[kind][1] = "alert_history" /\ Plan[kind][2] = "alerts"
        /\ kind = "issue" => Plan[kind][1] = "events" /\ Plan[kind][2] = "issues"
    <3>1. CASE kind = "monitor"
      BY <2>1, <2>2, <3>1
    <3>2. CASE kind = "alert"
      BY <2>1, <2>2, <3>2
    <3>3. CASE kind = "issue"
      BY <2>1, <2>2, <3>3
    <3> QED
      BY <1>3, <3>1, <3>2, <3>3
  <2>4. k = 1 \/ k = 2
    BY <2>3
  <2>5. u = Plan[kind][k]
    OBVIOUS
  <2> HIDE DEF u
  <2>6. k = 2 /\ Plan[kind][1] = t
    BY <1>1, <1>3, <2>3, <2>4, <2>5
  <2>7. 1 \in 1..(k - 1)
    BY <2>6
  <2> QED
    BY <2>6, <2>7
<1>4. DOMAIN Plan = {"project", "monitor", "alert", "issue"}
  BY DEF Plan
<1> QED
  BY <1>2, <1>3, <1>4

LEMMA PlanLengths == \A kind \in DOMAIN Plan : Len(Plan[kind]) \in Nat
<1>1. /\ Len(Plan["project"]) = 11 /\ Len(Plan["monitor"]) = 2
      /\ Len(Plan["alert"]) = 2 /\ Len(Plan["issue"]) = 2
  BY DEF Plan, ProjectPlan
<1> QED
  BY <1>1 DEF Plan

-----------------------------------------------------------------------------
\* Every row of S finds in S the rows it belongs to.
Closed(S) == \A r \in S : \A u \in Owning(r.table) : Row(u, r.project) \in S

\* Every link names a row that is there.
Linked == \A r \in Linking : link[r] # None => r \in rows /\ Row(LinkTo(r.table), link[r]) \in rows

JobTyped ==
    /\ job \in [kind : {"none"} \cup DOMAIN Plan, project : Projects \cup {None}, step : Nat,
                known : SUBSET Tables, doomed : SUBSET AllRows, raced : BOOLEAN, named : BOOLEAN]
    /\ job # NoJob => job.kind \in DOMAIN Plan /\ job.project \in Projects /\ job.step >= 1
    /\ job.kind = "monitor" => job.doomed = {}

\* The statements so far left nothing of their tables; what they were told to spare
\* is not there; no incident names the row.
Cleared == \A k \in Nat : 1 <= k /\ k < job.step => Row(Plan[job.kind][k], job.project) \notin Live
Spared ==
    \A k \in 1..Len(Plan[job.kind]) :
        Plan[job.kind][k] \in {"alert_history", "uptime_checks"} /\ Plan[job.kind][k] \notin job.known
            => Row(Plan[job.kind][k], job.project) \notin Live
Unnamed == \A r \in rows : r.table = "incidents" => link[r] # job.project

Prepared == job # NoJob /\ job.raced = FALSE => Cleared /\ Spared /\ (job.named = FALSE => Unnamed)

TenancyInv ==
    /\ TenancyTypeOK /\ JobTyped
    /\ Closed(rows) /\ Closed(Live) /\ Linked
    /\ Prepared /\ AbortHasCause

LEMMA RowIs ==
    /\ \A t \in Tables, p \in Projects :
           Row(t, p) \in AllRows /\ Row(t, p).table = t /\ Row(t, p).project = p
    /\ \A r \in AllRows : r.table \in Tables /\ r.project \in Projects /\ r = Row(r.table, r.project)
    /\ \A r \in AllRows : r \in Linking <=> r.table \in {"issues", "incidents"}
    /\ \A r \in Linking : r \in AllRows
<1>1. {"issues", "incidents"} \subseteq Tables
  BY TablesAre
<1> QED
  BY <1>1 DEF Row, AllRows, Linking

\* A row refers to the rows it belongs to.
LEMMA OwnerIs ==
    ASSUME NEW r \in AllRows, NEW u \in Owning(r.table)
    PROVE  /\ u \in Tables /\ Row(u, r.project) \in AllRows
           /\ Refers(r, Row(u, r.project), "cascade") \/ Refers(r, Row(u, r.project), "noAction")
           /\ u \notin Leaves
<1>1. r.table \in Tables /\ r.project \in Projects /\ u \in DOMAIN Keys[r.table]
  BY RowIs DEF Owning
<1>2. u \in Tables /\ Keys[r.table][u] \in {"cascade", "noAction"} /\ u \notin Leaves
  BY <1>1, KeyFacts
<1>3. Row(u, r.project) \in AllRows /\ Row(u, r.project).table = u /\ Row(u, r.project).project = r.project
  BY <1>1, <1>2, RowIs
<1>4. ~(r \in Linking /\ u = LinkTo(r.table))
  BY RowIs DEF Owning
<1> QED
  BY <1>1, <1>2, <1>3, <1>4 DEF Refers

\* What a row that refers to another is to it.
LEMMA RefersBy ==
    ASSUME NEW r \in AllRows, NEW d \in AllRows, NEW on, Refers(r, d, on)
    PROVE  /\ d.table \in DOMAIN Keys[r.table] /\ Keys[r.table][d.table] = on
           /\ \/ d.table \in Owning(r.table) /\ d = Row(d.table, r.project)
              \/ r \in Linking /\ d.table = LinkTo(r.table) /\ d.table \notin Owning(r.table)
                 /\ d.project = link[r]
           /\ on = "cascade" => r.table \in Leaves /\ d.table \notin Leaves
           /\ on = "noAction" => d.table \notin Leaves
<1>1. d.table \in DOMAIN Keys[r.table] /\ Keys[r.table][d.table] = on /\ r.table \in Tables
  BY RowIs DEF Refers
<1>2. CASE r \in Linking /\ d.table = LinkTo(r.table)
  <2>1. d.table \notin Owning(r.table) /\ d.project = link[r]
    BY <1>2, RowIs DEF Refers, Owning
  <2> QED
    BY <1>1, <1>2, <2>1, KeyFacts
<1>3. CASE ~(r \in Linking /\ d.table = LinkTo(r.table))
  <2>1. d.table \in Owning(r.table) /\ d.project = r.project
    BY <1>1, <1>3, RowIs DEF Refers, Owning
  <2>2. d = Row(d.table, r.project)
    BY <2>1, RowIs
  <2> QED
    BY <1>1, <2>1, <2>2, KeyFacts
<1> QED
  BY <1>2, <1>3

\* What a statement deletes, when nothing forbids it, leaves no row without the rows
\* it belongs to: what falls with a row is a leaf, so that one level is all of it.
LEMMA FallsClosed ==
    ASSUME Live \subseteq AllRows, Closed(Live), NEW D, D \subseteq Live, ~Held(D)
    PROVE  Falls(D) \subseteq Live /\ Closed(Live \ Falls(D))
<1>1. Falls(D) \subseteq Live
  BY DEF Falls
<1>2. SUFFICES ASSUME NEW r \in Live \ Falls(D), NEW u \in Owning(r.table), Row(u, r.project) \in Falls(D)
               PROVE  FALSE
  BY <1>1 DEF Closed
<1> DEFINE x == Row(u, r.project)
<1>3. x \in AllRows /\ x \in Falls(D) /\ u \notin Leaves /\ x.table = u
      /\ (Refers(r, x, "cascade") \/ Refers(r, x, "noAction"))
  BY <1>2, OwnerIs, RowIs
<1> HIDE DEF x
<1>4. ~Refers(r, x, "noAction")
  BY <1>2, <1>3 DEF Held
<1>5. x \in D
  <2> SUFFICES ASSUME x \notin D PROVE FALSE
    OBVIOUS
  <2>1. PICK d \in D : Refers(x, d, "cascade")
    BY <1>3 DEF Falls
  <2> QED
    BY <1>3, <2>1, RefersBy
<1> QED
  BY <1>2, <1>3, <1>4, <1>5 DEF Falls

\* No row belongs to a leaf.
LEMMA LeafFalls ==
    ASSUME Live \subseteq AllRows, NEW x \in Live, x.table \in Leaves
    PROVE  Falls({x}) = {x}
<1>1. \A r \in Live : ~Refers(r, x, "cascade")
  BY RefersBy
<1> QED
  BY <1>1 DEF Falls

LEMMA LeafClosed ==
    ASSUME NEW S, S \subseteq AllRows, Closed(S), NEW x \in AllRows, x.table \in Leaves
    PROVE  Closed(S \ {x})
<1> SUFFICES ASSUME NEW r \in S \ {x}, NEW u \in Owning(r.table) PROVE Row(u, r.project) # x
  BY DEF Closed
<1>1. r.table \in Tables /\ r.project \in Projects /\ u \in Tables /\ u \notin Leaves
  BY OwnerIs, RowIs
<1> QED
  BY <1>1, RowIs

\* What the columns name after the rows F are gone.
LEMMA UnlinkedIs ==
    ASSUME link \in [Linking -> Projects \cup {None}], Linked, NEW F
    PROVE  /\ Unlinked(F) \in [Linking -> Projects \cup {None}]
           /\ \A r \in Linking : /\ Unlinked(F)[r] \in {link[r], None}
                                 /\ Unlinked(F)[r] # None =>
                                       r \in rows \ F /\ Row(LinkTo(r.table), Unlinked(F)[r]) \in rows \ F
  BY DEF Unlinked, Linked

LEMMA InvIs ==
    ASSUME TenancyInv
    PROVE  /\ rows \subseteq AllRows /\ Live \subseteq AllRows /\ Live \subseteq rows
           /\ job.doomed \subseteq rows /\ Closed(rows) /\ Closed(Live)
           /\ link \in [Linking -> Projects \cup {None}] /\ Linked
           /\ job.raced \in BOOLEAN /\ job.named \in BOOLEAN /\ job.step \in Nat
           /\ None \notin Projects
  BY TenancyAssumption DEF TenancyInv, TenancyTypeOK, JobTyped, Live, TenancyAssumption

LEMMA NoJobIs ==
    /\ NoJob \in [kind : {"none"} \cup DOMAIN Plan, project : Projects \cup {None}, step : Nat,
                  known : SUBSET Tables, doomed : SUBSET AllRows, raced : BOOLEAN, named : BOOLEAN]
    /\ NoJob.kind = "none" /\ NoJob.doomed = {} /\ NoJob.raced = FALSE /\ NoJob.project = None
    /\ DOMAIN Plan = {"project", "monitor", "alert", "issue"}
  BY DEF NoJob, Plan

LEMMA TenancyInitInv == TenancyInit => TenancyInv
<1> SUFFICES ASSUME TenancyInit PROVE TenancyInv
  OBVIOUS
<1>1. rows = {} /\ job = NoJob /\ Live = {} /\ verdict.cause = "none"
      /\ link = [r \in Linking |-> None]
  BY DEF TenancyInit, Live, NoVerdict
<1>2. TenancyTypeOK
  BY <1>1, NoJobIs DEF TenancyTypeOK
<1>3. JobTyped
  BY <1>1, NoJobIs DEF JobTyped
<1> QED
  BY <1>1, <1>2, <1>3 DEF TenancyInv, Closed, Linked, Prepared, AbortHasCause

\* An insert marks the deletion of the project it is of.
LEMMA RacedIs ==
    ASSUME TenancyInv, NEW ps, Raced(ps)
    PROVE  /\ JobTyped' /\ job'.doomed = job.doomed
           /\ job'.kind = job.kind /\ job'.project = job.project
           /\ job' # NoJob => job # NoJob
           /\ job'.step = job.step /\ job'.known = job.known /\ job'.named = job.named
           /\ job'.raced = FALSE => job.raced = FALSE /\ (job # NoJob => job.project \notin ps)
<1> DEFINE hit == job.raced \/ (job # NoJob /\ job.project \in ps)
<1>1. job' = [job EXCEPT !.raced = hit] /\ hit \in BOOLEAN
  BY InvIs DEF Raced
<1>2. hit = FALSE => job.raced = FALSE /\ (job # NoJob => job.project \notin ps)
  BY InvIs
<1>3. job = NoJob => hit = FALSE
  BY NoJobIs
<1> HIDE DEF hit
<1> DEFINE R == [kind : {"none"} \cup DOMAIN Plan, project : Projects \cup {None}, step : Nat,
                known : SUBSET Tables, doomed : SUBSET AllRows, raced : BOOLEAN, named : BOOLEAN]
<1>4. job \in R
  BY DEF TenancyInv, JobTyped
<1>5. job' \in R
  BY <1>1, <1>4
<1>6. /\ job'.doomed = job.doomed /\ job'.kind = job.kind /\ job'.project = job.project
      /\ job'.step = job.step /\ job'.known = job.known /\ job'.named = job.named
      /\ job'.raced = hit
  BY <1>1, <1>4
<1> HIDE DEF R
<1>7. job' # NoJob => job # NoJob
  <2> SUFFICES ASSUME job = NoJob PROVE job' = job
    OBVIOUS
  <2>1. hit = job.raced
    BY <1>3, NoJobIs
  <2> QED
    BY <1>1, <1>4, <2>1 DEF R
<1>8. JobTyped'
  BY <1>5, <1>6, <1>7 DEF TenancyInv, JobTyped, R
<1> QED
  BY <1>2, <1>6, <1>7, <1>8

\* What a step must leave alone for the deletion under way.
LEMMA PreparedKeeps ==
    ASSUME TenancyInv, job' # NoJob => job # NoJob,
           job'.kind = job.kind, job'.project = job.project, job'.step = job.step,
           job'.known = job.known, job'.named = job.named,
           job'.raced = FALSE => job.raced = FALSE,
           job'.raced = FALSE /\ job # NoJob =>
               /\ \A r \in Live' : r.project = job.project => r \in Live
               /\ \A r \in rows' : r.table = "incidents" /\ link'[r] = job.project =>
                      r \in rows /\ link[r] = job.project
    PROVE  Prepared'
<1> SUFFICES ASSUME job' # NoJob, job'.raced = FALSE
             PROVE  Cleared' /\ Spared' /\ (job'.named = FALSE => Unnamed')
  BY DEF Prepared
<1>1. Cleared /\ Spared /\ (job.named = FALSE => Unnamed)
  BY DEF TenancyInv, Prepared
<1>2. \A t : Row(t, job.project) \in Live' => Row(t, job.project) \in Live
  BY DEF Row
<1>3. Cleared'
  BY <1>1, <1>2 DEF Cleared, Row
<1>4. Spared'
  BY <1>1, <1>2 DEF Spared, Row
<1>5. job.named = FALSE => Unnamed'
  BY <1>1 DEF Unnamed
<1> QED
  BY <1>3, <1>4, <1>5

\* A row is added whose owners are there.
LEMMA AddRow ==
    ASSUME TenancyInv, NEW x \in AllRows, x \notin rows, rows' = rows \cup {x},
           \A u \in Owning(x.table) : Row(u, x.project) \in Live,
           NEW ps, Raced(ps), x.project \in ps,
           link' \in [Linking -> Projects \cup {None}],
           \A r \in Linking : link'[r] = link[r] \/
               (r = x /\ (link'[r] # None => Row(LinkTo(r.table), link'[r]) \in Live /\ link'[r] \in ps)),
           x.table = "incidents" => link'[x] = None \/ link'[x] \in ps,
           verdict' = NoVerdict
    PROVE  TenancyInv'
<1>1. JobTyped' /\ job'.doomed = job.doomed
  BY RacedIs
<1>2. Live' = Live \cup {x}
  BY <1>1, InvIs DEF Live
<1>3. Closed(rows') /\ Closed(Live')
  BY <1>2, InvIs DEF Closed
<1>4. (Closed(rows) /\ Closed(Live))'
  BY <1>3 DEF Closed
<1>5. Linked'
  BY InvIs DEF Linked
<1>6. TenancyTypeOK'
  BY <1>1, InvIs DEF TenancyTypeOK, JobTyped
<1>7. Prepared'
  <2>1. ASSUME job'.raced = FALSE, job # NoJob
        PROVE  /\ \A r \in Live' : r.project = job.project => r \in Live
               /\ \A r \in rows' : r.table = "incidents" /\ link'[r] = job.project =>
                      r \in rows /\ link[r] = job.project
    <3>1. job.project \notin ps /\ job.project \in Projects
      BY <2>1, RacedIs DEF TenancyInv, JobTyped
    <3>2. \A r \in Live' : r.project = job.project => r \in Live
      BY <1>2, <3>1
    <3>3. ASSUME NEW r \in rows', r.table = "incidents", link'[r] = job.project
          PROVE  r \in rows /\ link[r] = job.project
      <4>1. r \in Linking
        BY <3>3, InvIs, RowIs
      <4>2. r # x
        BY <3>1, <3>3, InvIs
      <4> QED
        BY <3>3, <4>1, <4>2
    <3> QED
      BY <3>2, <3>3
  <2> QED
    BY <2>1, RacedIs, PreparedKeeps
<1>8. AbortHasCause'
  BY DEF AbortHasCause, NoVerdict
<1> QED
  BY <1>1, <1>4, <1>5, <1>6, <1>7, <1>8 DEF TenancyInv

LEMMA PutStep == ASSUME TenancyInv, NEW t \in Tables \ {"incidents"}, NEW p \in Projects, Put(t, p) PROVE TenancyInv'
<1> DEFINE x == Row(t, p)
<1>1. x \in AllRows /\ x.table = t /\ x.project = p /\ (x \in Linking <=> t \in {"issues"})
  BY RowIs
<1>2. x \notin rows /\ rows' = rows \cup {x} /\ Raced({p}) /\ UNCHANGED link /\ verdict' = NoVerdict
  BY DEF Put, Insert, Quiet
<1>3. \A u \in Owning(t) : Row(u, p) \in Live
  BY <1>1 DEF Put, Insert, Owning
<1> HIDE DEF x
<1>4. link' \in [Linking -> Projects \cup {None}] /\ \A r \in Linking : link'[r] = link[r]
  BY <1>2, InvIs
<1>5. \A u \in Owning(x.table) : Row(u, x.project) \in Live
  BY <1>1, <1>3
<1>6. x.table # "incidents" /\ x.project \in {p}
  BY <1>1
<1>7. \A r \in Linking : link'[r] = link[r] \/
               (r = x /\ (link'[r] # None => Row(LinkTo(r.table), link'[r]) \in Live /\ link'[r] \in {p}))
  BY <1>4
<1>8. x.table = "incidents" => link'[x] = None \/ link'[x] \in {p}
  BY <1>6
<1>9. link' \in [Linking -> Projects \cup {None}]
  BY <1>4
<1>10. x \in AllRows /\ x \notin rows /\ rows' = rows \cup {x} /\ Raced({p}) /\ verdict' = NoVerdict
  BY <1>1, <1>2
<1> HIDE <1>1, <1>2, <1>4
<1> QED
  BY <1>5, <1>6, <1>7, <1>8, <1>9, <1>10, AddRow

LEMMA OpenIncidentStep ==
    ASSUME TenancyInv, NEW p \in Projects, NEW m \in Projects \cup {None}, OpenIncident(p, m) PROVE TenancyInv'
<1> DEFINE x == Row("incidents", p)
<1>1. x \in AllRows /\ x.table = "incidents" /\ x.project = p /\ x \in Linking
  BY RowIs, TablesAre
<1>2. /\ x \notin rows /\ rows' = rows \cup {x} /\ Raced({p, m}) /\ link' = [link EXCEPT ![x] = m]
      /\ verdict' = NoVerdict /\ (m # None => Row("uptime_monitors", m) \in Live) /\ Row("projects", p) \in Live
  BY DEF OpenIncident, Quiet
<1>3. \A u \in Owning(x.table) : Row(u, x.project) \in Live
  BY <1>1, <1>2, KeysAre DEF Owning, LinkTo
<1>4. LinkTo(x.table) = "uptime_monitors"
  BY <1>1 DEF LinkTo
<1> HIDE DEF x
<1>5. link' \in [Linking -> Projects \cup {None}] /\ link'[x] = m /\ \A r \in Linking : r # x => link'[r] = link[r]
  BY <1>1, <1>2, InvIs
<1>6. \A r \in Linking : link'[r] = link[r] \/
               (r = x /\ (link'[r] # None => Row(LinkTo(r.table), link'[r]) \in Live /\ link'[r] \in {p, m}))
  <2> TAKE r \in Linking
  <2>1. CASE r = x
    <3>1. link'[r] # None => Row("uptime_monitors", m) \in Live /\ link'[r] = m /\ m \in {p, m}
      BY <1>2, <1>5, <2>1
    <3>2. LinkTo(r.table) = "uptime_monitors"
      BY <1>4, <2>1
    <3> QED
      BY <2>1, <3>1, <3>2
  <2>2. CASE r # x
    BY <1>5, <2>2
  <2> QED
    BY <2>1, <2>2
<1> QED
  BY <1>1, <1>2, <1>3, <1>5, <1>6, AddRow

\* A link is set to a row that is there.
LEMMA LinkStep ==
    ASSUME TenancyInv, NEW x \in Linking, x \in Live, NEW m \in Projects \cup {None},
           m # None => Row(LinkTo(x.table), m) \in Live, link' = [link EXCEPT ![x] = m],
           UNCHANGED rows, verdict' = NoVerdict,
           \/ x.table = "incidents" /\ Raced({m})
           \/ x.table = "issues" /\ UNCHANGED job
    PROVE  TenancyInv'
<1>1. link' \in [Linking -> Projects \cup {None}] /\ link'[x] = m /\ \A r \in Linking : r # x => link'[r] = link[r]
  BY InvIs
<1>2. /\ JobTyped' /\ job'.doomed = job.doomed
      /\ job'.kind = job.kind /\ job'.project = job.project
      /\ job' # NoJob => job # NoJob
      /\ job'.step = job.step /\ job'.known = job.known /\ job'.named = job.named
      /\ job'.raced = FALSE => job.raced = FALSE /\ (x.table = "incidents" /\ job # NoJob => job.project # m)
  <2>1. CASE x.table = "incidents" /\ Raced({m})
    BY <2>1, RacedIs
  <2>2. CASE x.table = "issues" /\ UNCHANGED job
    BY <2>2 DEF TenancyInv, JobTyped
  <2> QED
    BY <2>1, <2>2
<1>3. Live' = Live
  BY <1>2 DEF Live
<1>4. (Closed(rows) /\ Closed(Live))'
  BY <1>3, InvIs DEF Closed
<1>5. Linked'
  BY <1>1, InvIs DEF Linked
<1>6. TenancyTypeOK'
  BY <1>1, <1>2, InvIs DEF TenancyTypeOK, JobTyped
<1>7. Prepared'
  <2>1. ASSUME job'.raced = FALSE, job # NoJob, NEW r \in rows', r.table = "incidents", link'[r] = job.project
        PROVE  r \in rows /\ link[r] = job.project
    <3>1. r \in Linking
      BY <2>1, InvIs, RowIs
    <3> QED
      BY <1>1, <1>2, <2>1, <3>1
  <2> QED
    BY <1>2, <1>3, <2>1, PreparedKeeps
<1>8. AbortHasCause'
  BY DEF AbortHasCause, NoVerdict
<1> QED
  BY <1>2, <1>4, <1>5, <1>6, <1>7, <1>8 DEF TenancyInv

\* Rows are deleted for good.
LEMMA LeafStep ==
    ASSUME TenancyInv, NEW t \in Leaves, NEW p \in Projects, Drop(t, p) PROVE TenancyInv'
<1> DEFINE x == Row(t, p)
<1>1. t \in Tables
  BY TablesAre DEF Leaves
<1>2. x \in Live /\ x \in AllRows /\ x.table = t
  BY <1>1, RowIs DEF Drop
<1>3. Falls({x}) = {x}
  BY <1>2, InvIs, LeafFalls
<1>4. rows' = rows \ {x} /\ link' = Unlinked({x}) /\ verdict' = NoVerdict /\ job' = job
  BY <1>3 DEF Drop, Quiet
<1> HIDE DEF x
<1>5. Live' = Live \ {x}
  BY <1>4 DEF Live
<1>6. job.doomed \subseteq rows'
  BY <1>2, <1>4, InvIs DEF Live
<1>7. Closed(rows') /\ Closed(Live')
  BY <1>2, <1>4, <1>5, InvIs, LeafClosed
<1>8. (Closed(rows) /\ Closed(Live))'
  BY <1>7 DEF Closed
<1>9. /\ link' \in [Linking -> Projects \cup {None}]
      /\ \A r \in Linking : /\ link'[r] \in {link[r], None}
                            /\ link'[r] # None => r \in rows' /\ Row(LinkTo(r.table), link'[r]) \in rows'
  BY <1>4, InvIs, UnlinkedIs
<1>10. Linked'
  BY <1>9 DEF Linked
<1>11. JobTyped' /\ TenancyTypeOK'
  BY <1>4, <1>6, <1>9, InvIs DEF TenancyInv, JobTyped, TenancyTypeOK
<1>12. Prepared'
  <2>1. ASSUME job # NoJob, NEW r \in rows', r.table = "incidents", link'[r] = job.project
        PROVE  r \in rows /\ link[r] = job.project
    <3>1. r \in Linking /\ r \in rows /\ job.project # None
      BY <1>4, <2>1, InvIs, RowIs DEF TenancyInv, JobTyped
    <3> QED
      BY <1>9, <2>1, <3>1
  <2> QED
    BY <1>4, <1>5, <2>1, PreparedKeeps
<1>13. AbortHasCause'
  BY <1>4 DEF AbortHasCause, NoVerdict
<1> QED
  BY <1>8, <1>10, <1>11, <1>12, <1>13 DEF TenancyInv

\* A deletion of several statements begins.
LEMMA BeginStep ==
    ASSUME TenancyInv, NEW p \in Projects, DeleteProject(p) \/ DeleteMonitor(p) \/ DeleteAlert(p) \/ DeleteIssue(p)
    PROVE  TenancyInv'
<1>1. PICK kind, known :
        /\ kind \in DOMAIN Plan /\ job = NoJob
        /\ job' = [NoJob EXCEPT !.kind = kind, !.project = p, !.step = 1, !.known = known,
                     !.named = \E i \in rows : i.table = "incidents" /\ link[i] = p]
        /\ verdict' = NoVerdict /\ UNCHANGED <<rows, link>>
        /\ \/ kind = "project" /\ known = {t \in {"alert_history", "uptime_checks"} :
                                              \E u \in DOMAIN Keys[t] : Row(u, p) \in rows}
           \/ kind = "monitor" /\ known = {"uptime_checks"}
           \/ kind = "alert" /\ known = {"alert_history"}
           \/ kind = "issue" /\ known = {}
  BY NoJobIs DEF DeleteProject, DeleteMonitor, DeleteAlert, DeleteIssue, Begin, Quiet
<1> DEFINE named == \E i \in rows : i.table = "incidents" /\ link[i] = p
<1>2. named \in BOOLEAN /\ (named = FALSE => \A r \in rows : r.table = "incidents" => link[r] # p)
  OBVIOUS
<1>3. job' = [NoJob EXCEPT !.kind = kind, !.project = p, !.step = 1, !.known = known, !.named = named]
  BY <1>1
<1>4. known \subseteq Tables /\ kind \in DOMAIN Plan /\ kind # "none"
  BY <1>1, TablesAre, NoJobIs
<1> HIDE DEF named
<1> DEFINE R == [kind : {"none"} \cup DOMAIN Plan, project : Projects \cup {None}, step : Nat,
                known : SUBSET Tables, doomed : SUBSET AllRows, raced : BOOLEAN, named : BOOLEAN]
<1>5. job' \in R
  BY <1>2, <1>3, <1>4, NoJobIs
<1>6. /\ job'.kind = kind /\ job'.project = p /\ job'.step = 1 /\ job'.known = known
      /\ job'.named = named /\ job'.doomed = {} /\ job'.raced = FALSE
  BY <1>3, NoJobIs
<1>7. JobTyped'
  BY <1>4, <1>5, <1>6 DEF JobTyped
<1>8. Live' = rows /\ Live = rows
  BY <1>1, <1>6, NoJobIs DEF Live
<1>9. (Closed(rows) /\ Closed(Live))'
  BY <1>1, <1>8, InvIs DEF Closed
<1>10. Linked' /\ TenancyTypeOK' /\ AbortHasCause'
  BY <1>1, <1>6, <1>7, InvIs DEF Linked, TenancyTypeOK, JobTyped, AbortHasCause, NoVerdict
<1>11. Prepared'
  <2>1. Cleared'
    BY <1>6 DEF Cleared
  <2>2. job'.named = FALSE => Unnamed'
    BY <1>1, <1>2, <1>6 DEF Unnamed
  <2>3. Spared'
    <3> SUFFICES ASSUME NEW k \in 1..Len(Plan[kind]),
                        Plan[kind][k] \in {"alert_history", "uptime_checks"}, Plan[kind][k] \notin known
                 PROVE  Row(Plan[kind][k], p) \notin rows
      BY <1>6, <1>8 DEF Spared
    <3> DEFINE t == Plan[kind][k]
    <3>1. kind = "project"
      <4>1. CASE kind = "monitor"
        <5>1. Plan[kind] = <<"uptime_checks", "uptime_monitors">>
          BY <4>1 DEF Plan
        <5> QED
          BY <1>1, <4>1, <5>1
      <4>2. CASE kind = "alert"
        <5>1. Plan[kind] = <<"alert_history", "alerts">>
          BY <4>2 DEF Plan
        <5> QED
          BY <1>1, <4>2, <5>1
      <4>3. CASE kind = "issue"
        <5>1. Plan[kind] = <<"events", "issues">>
          BY <4>3 DEF Plan
        <5>2. Plan[kind][k] \in {"events", "issues"}
          BY <5>1
        <5> QED
          BY <5>2
      <4> QED
        BY <1>1, <4>1, <4>2, <4>3
    <3>2. t \in Tables /\ \A u \in DOMAIN Keys[t] : Row(u, p) \notin rows
      BY <1>1, <3>1, TablesAre
    <3>3. \E u \in Owning(t) : TRUE
      BY KeysAre DEF Owning
    <3>4. Row(t, p).table = t /\ Row(t, p).project = p
      BY <3>2, RowIs
    <3>5. Owning(t) \subseteq DOMAIN Keys[t]
      BY DEF Owning
    <3> QED
      BY <3>2, <3>3, <3>4, <3>5, InvIs DEF Closed
  <2> QED
    BY <2>1, <2>2, <2>3 DEF Prepared
<1> QED
  BY <1>7, <1>9, <1>10, <1>11 DEF TenancyInv

\* Why a statement is refused: the statements before it took what refers to its row,
\* unless a row came in between or an incident names a monitor.
LEMMA HeldHasCause ==
    ASSUME TenancyInv, job # NoJob, job.step <= Len(Plan[job.kind]), job.raced = FALSE, job.named = FALSE,
           NEW D, D \subseteq Live, D \subseteq {Row(Plan[job.kind][job.step], job.project)}
    PROVE  ~Held(D)
<1> DEFINE t == Plan[job.kind][job.step]
           p == job.project
<1>1. SUFFICES ASSUME NEW r \in Live \ Falls(D), NEW d \in Falls(D), Refers(r, d, "noAction")
               PROVE  FALSE
  BY DEF Held
<1>2. /\ Live \subseteq AllRows /\ Cleared /\ Unnamed /\ job.kind \in DOMAIN Plan /\ p \in Projects
      /\ job.step \in 1..Len(Plan[job.kind]) /\ job.step \in Nat
  BY InvIs, PlanLengths DEF TenancyInv, Prepared, JobTyped
<1>3. r \in AllRows /\ d \in AllRows
  BY <1>1, <1>2 DEF Falls
<1>4. d.table \notin Leaves /\ d.table \in DOMAIN Keys[r.table] /\ Keys[r.table][d.table] = "noAction"
  BY <1>1, <1>3, RefersBy
<1>5. d = Row(t, p)
  <2>1. d \in D
    <3> SUFFICES ASSUME d \notin D PROVE FALSE
      OBVIOUS
    <3>1. PICK e \in D : Refers(d, e, "cascade")
      BY <1>1 DEF Falls
    <3>2. e \in AllRows
      BY <1>2
    <3> QED
      BY <1>3, <1>4, <3>1, <3>2, RefersBy
  <2> QED
    BY <2>1
<1>6. d.table = t /\ d.project = p
  BY <1>5 DEF Row
<1> HIDE DEF t, p
<1>7. CASE d.table \in Owning(r.table) /\ d = Row(d.table, r.project)
  <2>1. r.project = p
    BY <1>6, <1>7 DEF Row
  <2>2. r.table \in Tables /\ t \in Owning(r.table) /\ Keys[r.table][t] = "noAction"
    BY <1>3, <1>4, <1>6, <1>7, RowIs
  <2>3. PICK j \in 1..(job.step - 1) : Plan[job.kind][j] = r.table
    BY <1>2, <2>2, PlansAreOrdered DEF t
  <2>4. j \in Nat /\ 1 <= j /\ j < job.step
    BY <1>2
  <2>5. Row(r.table, p) \notin Live
    BY <1>2, <2>3, <2>4 DEF Cleared, p
  <2>6. r = Row(r.table, p)
    BY <1>3, <2>1, RowIs
  <2> QED
    BY <1>1, <2>5, <2>6
<1>8. CASE r \in Linking /\ d.table = LinkTo(r.table) /\ d.project = link[r]
  <2>1. r.table = "incidents"
    BY <1>3, <1>4, <1>8, RowIs, OnDelete DEF LinkTo
  <2>2. r \in rows /\ link[r] = p
    BY <1>1, <1>6, <1>8, InvIs
  <2> QED
    BY <1>2, <2>1, <2>2 DEF Unnamed, p
<1> QED
  BY <1>1, <1>3, <1>7, <1>8, RefersBy

\* A statement is refused.
LEMMA AbortStep ==
    ASSUME TenancyInv, job' = NoJob, UNCHANGED <<rows, link>>, verdict'.cause # "unknown"
    PROVE  TenancyInv'
<1>1. Live' = rows
  BY NoJobIs DEF Live
<1>2. (Closed(rows) /\ Closed(Live))'
  BY <1>1, InvIs DEF Closed
<1>3. Linked' /\ TenancyTypeOK' /\ AbortHasCause' /\ JobTyped' /\ Prepared'
  BY InvIs, NoJobIs DEF Linked, TenancyTypeOK, JobTyped, AbortHasCause, Prepared
<1> QED
  BY <1>2, <1>3 DEF TenancyInv

\* A statement succeeds: what is left of its table it may not touch is not there.
LEMMA ClearsTable ==
    ASSUME TenancyInv, job # NoJob, job.raced = FALSE, job.step \in 1..Len(Plan[job.kind]),
           NEW t, t = Plan[job.kind][job.step], NEW D,
           D = {r \in Live : /\ r = Row(t, job.project)
                             /\ t \in {"alert_history", "uptime_checks"} => t \in job.known}
    PROVE  Row(t, job.project) \in Live => Row(t, job.project) \in D
  BY DEF TenancyInv, Prepared, Spared

LEMMA StatementStep == ASSUME TenancyInv, Statement PROVE TenancyInv'
<1> DEFINE t == Plan[job.kind][job.step]
           D == {r \in Live : /\ r = Row(t, job.project)
                              /\ t \in {"alert_history", "uptime_checks"} => t \in job.known}
<1>1. /\ job # NoJob /\ job.step <= Len(Plan[job.kind])
      /\ \/ /\ Held(D)
            /\ job' = NoJob
            /\ verdict' = [kind |-> job.kind,
                 cause |-> IF job.raced THEN "raced" ELSE IF job.named THEN "named" ELSE "unknown"]
            /\ UNCHANGED <<rows, link>>
         \/ /\ ~Held(D) /\ job.kind = "monitor"
            /\ rows' = rows \ Falls(D) /\ link' = Unlinked(Falls(D))
            /\ job' = [job EXCEPT !.step = job.step + 1]
            /\ verdict' = NoVerdict
         \/ /\ ~Held(D) /\ job.kind # "monitor"
            /\ job' = [job EXCEPT !.step = job.step + 1, !.doomed = job.doomed \cup Falls(D)]
            /\ verdict' = NoVerdict /\ UNCHANGED <<rows, link>>
  BY DEF Statement, Quiet
<1>2. D \subseteq Live /\ D \subseteq {Row(t, job.project)}
  OBVIOUS
<1>3. job.step \in 1..Len(Plan[job.kind]) /\ job.step \in Nat /\ job.kind \in DOMAIN Plan /\ job.project \in Projects
  BY <1>1, PlanLengths DEF TenancyInv, JobTyped
<1>4. job.raced = FALSE => (Row(t, job.project) \in Live => Row(t, job.project) \in D)
  BY <1>1, <1>3, ClearsTable
<1>5. CASE Held(D)
  <2>1. job.raced = TRUE \/ job.named = TRUE
    BY <1>1, <1>2, <1>5, InvIs, HeldHasCause
  <2>2. verdict'.cause # "unknown"
    BY <1>1, <1>5, <2>1
  <2>3. job' = NoJob /\ UNCHANGED <<rows, link>>
    BY <1>1, <1>5
  <2> QED
    BY <2>2, <2>3, AbortStep
<1> DEFINE F == Falls(D)
<1>6. CASE ~Held(D)
  <2>1. F \subseteq Live /\ Closed(Live \ F) /\ D \subseteq F
    BY <1>2, <1>6, InvIs, FallsClosed DEF Falls
  <2> HIDE DEF D, F, t
  <2>2. \/ /\ job.kind = "monitor" /\ rows' = rows \ F /\ link' = Unlinked(F)
           /\ job' = [job EXCEPT !.step = job.step + 1]
        \/ /\ job.kind # "monitor" /\ rows' = rows /\ link' = link
           /\ job' = [job EXCEPT !.step = job.step + 1, !.doomed = job.doomed \cup F]
    BY <1>1, <1>6 DEF F
  <2>3. /\ job' \in [kind : {"none"} \cup DOMAIN Plan, project : Projects \cup {None}, step : Nat,
                known : SUBSET Tables, doomed : SUBSET AllRows, raced : BOOLEAN, named : BOOLEAN]
        /\ job'.kind = job.kind /\ job'.project = job.project /\ job'.step = job.step + 1
        /\ job'.known = job.known /\ job'.named = job.named /\ job'.raced = job.raced
        /\ job'.doomed = IF job.kind = "monitor" THEN job.doomed ELSE job.doomed \cup F
    <3>1. job \in [kind : {"none"} \cup DOMAIN Plan, project : Projects \cup {None}, step : Nat,
                known : SUBSET Tables, doomed : SUBSET AllRows, raced : BOOLEAN, named : BOOLEAN]
      BY DEF TenancyInv, JobTyped
    <3>2. job.doomed \cup F \in SUBSET AllRows /\ job.step + 1 \in Nat
      BY <1>3, <2>1, <3>1, InvIs
    <3>3. CASE job.kind = "monitor"
      BY <2>2, <3>1, <3>2, <3>3
    <3>4. CASE job.kind # "monitor"
      BY <2>2, <3>1, <3>2, <3>4
    <3> QED
      BY <3>3, <3>4
  <2>4. Live' = Live \ F
    BY <2>2, <2>3 DEF Live
  <2>5. job.kind = "monitor" => job.doomed = {} /\ Live = rows
    BY DEF TenancyInv, JobTyped, Live
  <2>6. Closed(rows') /\ Closed(Live')
    BY <2>1, <2>2, <2>4, <2>5, InvIs
  <2>7. (Closed(rows) /\ Closed(Live))'
    BY <2>6 DEF Closed
  <2>8. /\ link' \in [Linking -> Projects \cup {None}]
        /\ \A r \in Linking : /\ link'[r] \in {link[r], None}
                              /\ link'[r] # None => r \in rows' /\ Row(LinkTo(r.table), link'[r]) \in rows'
    <3>1. CASE job.kind = "monitor"
      BY <2>2, <3>1, InvIs, UnlinkedIs
    <3>2. CASE job.kind # "monitor"
      BY <2>2, <3>2, InvIs DEF Linked
    <3> QED
      BY <3>1, <3>2
  <2>9. Linked'
    BY <2>8 DEF Linked
  <2>10. rows' \subseteq rows /\ job'.doomed \subseteq rows'
    BY <2>1, <2>2, <2>3, <2>5, InvIs
  <2>11. JobTyped' /\ TenancyTypeOK'
    <3>1. job'.step >= 1
      BY <1>3, <2>3
    <3>2. JobTyped'
      BY <1>3, <2>3, <2>5, <3>1 DEF JobTyped
    <3> QED
      BY <1>3, <2>3, <2>8, <2>10, <3>2, InvIs DEF TenancyTypeOK
  <2>12. Prepared'
    <3> SUFFICES ASSUME job'.raced = FALSE
                 PROVE  Cleared' /\ Spared' /\ (job'.named = FALSE => Unnamed')
      BY DEF Prepared
    <3>1. Cleared /\ Spared /\ (job.named = FALSE => Unnamed)
      BY <1>1, <2>3 DEF TenancyInv, Prepared
    <3>2. Row(t, job.project) \notin Live'
      BY <1>4, <2>1, <2>3, <2>4
    <3>3. Cleared'
      <4> SUFFICES ASSUME NEW k \in Nat, 1 <= k, k < job.step + 1
                   PROVE  Row(Plan[job.kind][k], job.project) \notin Live'
        BY <2>3 DEF Cleared, Row
      <4>1. CASE k = job.step
        BY <3>2, <4>1 DEF t
      <4>2. CASE k # job.step
        <5>1. k < job.step
          BY <1>3, <4>2
        <5> QED
          BY <2>4, <3>1, <5>1 DEF Cleared
      <4> QED
        BY <4>1, <4>2
    <3>4. Spared'
      BY <2>3, <2>4, <3>1 DEF Spared, Row
    <3>5. job.named = FALSE => Unnamed'
      <4> SUFFICES ASSUME job.named = FALSE, NEW r \in rows', r.table = "incidents"
                   PROVE  link'[r] # job.project
        BY <2>3 DEF Unnamed
      <4>1. r \in rows /\ r \in Linking /\ link[r] # job.project /\ job.project # None
        BY <1>3, <2>10, <3>1, InvIs, RowIs DEF Unnamed
      <4> QED
        BY <2>8, <4>1
    <3> QED
      BY <2>3, <3>3, <3>4, <3>5
  <2>13. AbortHasCause'
    BY <1>1, <1>6 DEF AbortHasCause, NoVerdict, D
  <2> QED
    BY <2>7, <2>9, <2>11, <2>12, <2>13 DEF TenancyInv
<1> QED
  BY <1>5, <1>6

\* The transaction is committed: its rows are gone, and the columns that named them.
LEMMA CommitStep == ASSUME TenancyInv, Commit PROVE TenancyInv'
<1>1. rows' = Live /\ link' = Unlinked(job.doomed) /\ job' = NoJob /\ verdict'.cause = "deleted"
  BY DEF Commit
<1>2. Live' = Live
  BY <1>1, NoJobIs DEF Live
<1>3. (Closed(rows) /\ Closed(Live))'
  BY <1>1, <1>2, InvIs DEF Closed
<1>4. /\ link' \in [Linking -> Projects \cup {None}]
      /\ \A r \in Linking : link'[r] # None =>
             r \in rows \ job.doomed /\ Row(LinkTo(r.table), link'[r]) \in rows \ job.doomed
  BY <1>1, InvIs, UnlinkedIs
<1>5. Linked'
  BY <1>1, <1>4 DEF Linked, Live
<1>6. TenancyTypeOK' /\ AbortHasCause' /\ JobTyped' /\ Prepared'
  BY <1>1, <1>4, InvIs, NoJobIs DEF TenancyTypeOK, JobTyped, AbortHasCause, Prepared
<1> QED
  BY <1>3, <1>5, <1>6 DEF TenancyInv

LEMMA TenancyNextInv == TenancyInv /\ [TenancyNext]_tenancyVars => TenancyInv'
<1> SUFFICES ASSUME TenancyInv, [TenancyNext]_tenancyVars PROVE TenancyInv'
  OBVIOUS
<1>1. ASSUME NEW p \in Projects, Request(p) PROVE TenancyInv'
  <2>1. CASE \E t \in Tables \ {"incidents"} : Put(t, p)
    BY <2>1, PutStep
  <2>2. CASE \E m \in Projects \cup {None} : OpenIncident(p, m)
    BY <2>2, OpenIncidentStep
  <2>3. ASSUME NEW m \in Projects \cup {None}, AssignIssue(p, m) PROVE TenancyInv'
    <3> DEFINE x == Row("issues", p)
    <3>1. x \in Linking /\ x.table = "issues" /\ LinkTo(x.table) = "team_members"
      BY TablesAre, RowIs DEF LinkTo
    <3>2. x \in Live /\ (m # None => Row("team_members", m) \in Live)
          /\ link' = [link EXCEPT ![x] = m] /\ verdict' = NoVerdict /\ UNCHANGED <<rows, job>>
      BY <2>3 DEF AssignIssue, Quiet
    <3> HIDE DEF x
    <3> QED
      BY <3>1, <3>2, LinkStep
  <2>4. ASSUME NEW m \in Projects, RelinkIncident(p, m) PROVE TenancyInv'
    <3> DEFINE x == Row("incidents", p)
    <3>1. x \in Linking /\ x.table = "incidents" /\ LinkTo(x.table) = "uptime_monitors"
      BY TablesAre, RowIs DEF LinkTo
    <3>2. x \in Live /\ Row("uptime_monitors", m) \in Live
          /\ link' = [link EXCEPT ![x] = m] /\ verdict' = NoVerdict /\ UNCHANGED rows /\ Raced({m})
      BY <2>4 DEF RelinkIncident, Quiet
    <3> HIDE DEF x
    <3> QED
      BY <3>1, <3>2, LinkStep
  <2>5. \/ \E t \in Tables \ {"incidents"} : Put(t, p)
        \/ \E m \in Projects \cup {None} : OpenIncident(p, m) \/ AssignIssue(p, m)
        \/ \E m \in Projects : RelinkIncident(p, m)
    BY <1>1, TablesAre DEF Request, CreateProject, ProvisionTenant, ProvisionBootstrap, AddMember,
       AddComment, CreateMonitor, CreateAlert, SetChannel, PlanWindow, AddRelease, AddRule,
       SaveSearch, Subscribe
  <2> QED
    BY <2>1, <2>2, <2>3, <2>4, <2>5
<1>2. ASSUME NEW p \in Projects, Telemetry(p) PROVE TenancyInv'
  <2>1. \E t \in Tables \ {"incidents"} : Put(t, p)
    BY <1>2, TablesAre DEF Telemetry, GroupIssue, IngestEvent, InsertTraces, InsertCheck, RecordAlert, WriteLog
  <2> QED
    BY <2>1, PutStep
<1>3. ASSUME NEW p \in Projects, Deletion(p) PROVE TenancyInv'
  <2>1. \/ \E t \in Leaves : Drop(t, p)
        \/ DeleteProject(p) \/ DeleteMonitor(p) \/ DeleteAlert(p) \/ DeleteIssue(p)
    BY <1>3 DEF Deletion, RemoveMember, DeleteComment, DeleteIncident, DeleteWindow, DeleteChannel,
       DeleteRelease, DeleteRule, DeleteSearch, Unsubscribe, ClearLogs, Expire, Leaves
  <2> QED
    BY <2>1, LeafStep, BeginStep
<1>4. CASE ConnectionLost
  <2>1. job' = NoJob /\ verdict'.cause = "lost" /\ UNCHANGED <<rows, link>>
    BY <1>4 DEF ConnectionLost
  <2> QED
    BY <2>1, AbortStep
<1>5. CASE UNCHANGED tenancyVars
  BY <1>5 DEF tenancyVars, TenancyInv, TenancyTypeOK, JobTyped, Closed, Live, Linked, Prepared,
              Cleared, Spared, Unnamed, AbortHasCause
<1> QED
  BY <1>1, <1>2, <1>3, <1>4, <1>5, StatementStep, CommitStep DEF TenancyNext

LEMMA TenancyKeep == TenancySpec => []TenancyInv
  BY TenancyInitInv, TenancyNextInv, PTL DEF TenancySpec

\* The type invariant of the tenants' rows; the rows a transaction has deleted are
\* among the committed ones until it ends.
THEOREM TenancyTypeCorrect == TenancySpec => []TenancyTypeOK
<1>1. TenancyInv => TenancyTypeOK
  BY DEF TenancyInv
<1> QED
  BY <1>1, TenancyKeep, PTL

\* A project that is gone has left no row behind in any of the eighteen tables, and no
\* column names a row that is gone, whatever was inserted while it was being deleted
\* (api/projects.ts and the foreign keys of store/schema.ts), for any number of
\* projects and rows.
THEOREM ProjectLeavesNothing == TenancySpec => []ProjectGoesWhole
<1>1. ASSUME TenancyInv PROVE ProjectGoesWhole
  <2>1. ASSUME NEW r \in rows PROVE Row("projects", r.project) \in rows
    <3>1. r \in AllRows /\ r.table \in Tables /\ r = Row(r.table, r.project) /\ r.project \in Projects
      BY <1>1, InvIs, RowIs
    <3>2. CASE r.table = "projects"
      BY <3>1, <3>2
    <3>3. CASE "projects" \in Owning(r.table)
      BY <1>1, <3>3, InvIs DEF Closed
    <3>4. ASSUME NEW u \in Owning(r.table), u \in Tables, "projects" \in Owning(u)
          PROVE  Row("projects", r.project) \in rows
      <4>1. Row(u, r.project) \in rows
        BY <1>1, <3>4, InvIs DEF Closed
      <4>2. Row(u, r.project).table = u /\ Row(u, r.project).project = r.project
        BY DEF Row
      <4> QED
        BY <1>1, <3>4, <4>1, <4>2, InvIs DEF Closed
    <3> QED
      BY <3>1, <3>2, <3>3, <3>4, ProjectAbove
  <2>2. \A r \in rows \cap Linking : link[r] # None => Row(LinkTo(r.table), link[r]) \in rows
    BY <1>1, InvIs DEF Linked
  <2> QED
    BY <2>1, <2>2 DEF ProjectGoesWhole
<1> QED
  BY <1>1, TenancyKeep, PTL

\* A deletion of several statements fails only because the connection was lost, a row
\* that refers to what it deletes appeared while it ran, or an incident names the
\* monitor: its statements are in an order the foreign keys allow.
THEOREM DeletionOrderIsSound == TenancySpec => []AbortHasCause
<1>1. TenancyInv => AbortHasCause
  BY DEF TenancyInv
<1> QED
  BY <1>1, TenancyKeep, PTL
==============================================================================
