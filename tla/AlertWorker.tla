----------------------------- MODULE AlertWorker -----------------------------
(***************************************************************************)
(* The alert worker (src/alerts/worker.ts) with the parts of the rules     *)
(* engine, the Redis deduplication and the dispatcher it drives: a timer   *)
(* starts an evaluation cycle unless one is running; the cycle reads the   *)
(* projects with active rules, and project by project skips those in       *)
(* maintenance, evaluates the rules, claims the cooldown key of each rule  *)
(* that triggered, delivers it to every channel and logs it.  Every step   *)
(* below is the code between two awaits.                                   *)
(*                                                                         *)
(* Database rows and the data behind the conditions change at any time.    *)
(* Cooldowns are abstracted to the presence of their Redis key, which      *)
(* expires at any time after it was set.                                   *)
(***************************************************************************)
EXTENDS FiniteSets

CONSTANTS Projects, Rules,
          ProjectOf,       \* the project of each rule
          ResourceRules,   \* the rules of type resource_threshold
          Channels,        \* the channels a dispatch goes to
          Cycles,          \* invocations of runEvaluationCycle
          None,
          Faulty           \* whether Postgres and Redis may fail

ASSUME AlertAssumption ==
    /\ ProjectOf \in [Rules -> Projects]
    /\ ResourceRules \subseteq Rules
    /\ None \notin Projects \cup Rules
    /\ Faulty \in BOOLEAN

VARIABLES
    on,           \* intervalId: the timer is set
    running,      \* the concurrency guard
    cycle,        \* the invocations of runEvaluationCycle
    rule,         \* the row of each rule: active, inactive or gone
    firing,       \* the rules whose condition holds on the current data
    maintenance,  \* the projects with a maintenance window now
    held,         \* Redis: the rules whose cooldown key exists
    since         \* history: what was the case at some time since the running
                  \* cycle began

vars == <<on, running, cycle, rule, firing, maintenance, held, since>>
data == <<rule, firing, maintenance>>

Phases == {"idle", "collect", "window", "rules", "eval", "send"}

\* projects: still to be handled; project: being handled; stats: the resource
\* rules that hold on the host statistics read at the start; rules: still to be
\* evaluated; triggered: still to be notified; rule, channels: being delivered.
CycleStates ==
    [phase : Phases, projects : SUBSET Projects, project : Projects \cup {None},
     stats : SUBSET Rules, rules : SUBSET Rules, triggered : SUBSET Rules,
     rule : Rules \cup {None}, channels : SUBSET Channels]
Idle ==
    [phase |-> "idle", projects |-> {}, project |-> None, stats |-> {},
     rules |-> {}, triggered |-> {}, rule |-> None, channels |-> {}]

Active == {r \in Rules : rule[r] = "active"}
RulesOf(p) == {r \in Rules : ProjectOf[r] = p}
\* checkCondition; a resource rule is evaluated on the statistics passed in.
Holds(r, stats) == IF r \in ResourceRules THEN r \in stats ELSE r \in firing

Init ==
    /\ on = FALSE
    /\ running = FALSE
    /\ cycle = [c \in Cycles |-> Idle]
    /\ rule = [r \in Rules |-> "active"]
    /\ firing = {}
    /\ maintenance = {}
    /\ held = {}
    /\ since = [active |-> {}, firing |-> {}, open |-> {}]

-----------------------------------------------------------------------------
(***************************************************************************)
(* Starting, skipping and ending a cycle.                                  *)
(***************************************************************************)
\* Defect: the guard is set but not tested.
BeginUnguarded(c) ==
    /\ cycle[c] = Idle
    /\ running' = TRUE
    /\ cycle' = [cycle EXCEPT ![c].phase = "collect"]
    /\ since' = [active |-> Active, firing |-> firing,
                 open |-> Projects \ maintenance]

\* runEvaluationCycle up to its first await.
Begin(c) ==
    /\ ~running
    /\ cycle[c] = Idle
    /\ running' = TRUE
    /\ cycle' = [cycle EXCEPT ![c].phase = "collect"]
    /\ since' = [active |-> Active, firing |-> firing,
                 open |-> Projects \ maintenance]

Timer == on /\ (\E c \in Cycles : Begin(c)) /\ UNCHANGED <<on, data, held>>

\* startAlertWorker runs a cycle at once; if the last one before a stop is still
\* running it is skipped.
StartWorker ==
    /\ ~on
    /\ on' = TRUE
    /\ \/ \E c \in Cycles : Begin(c)
       \/ running /\ UNCHANGED <<running, cycle, since>>
    /\ UNCHANGED <<data, held>>

StopWorker ==
    /\ on
    /\ on' = FALSE
    /\ UNCHANGED <<running, cycle, data, held, since>>

\* The finally block.
End(c) ==
    /\ running' = FALSE
    /\ cycle' = [cycle EXCEPT ![c] = Idle]

\* Defect: the guard is not lowered when the cycle throws.
AbortWedges(c) ==
    /\ Faulty
    /\ cycle[c] # Idle
    /\ cycle' = [cycle EXCEPT ![c] = Idle]
    /\ UNCHANGED <<on, running, data, held, since>>

\* An await of the cycle rejects.
Abort(c) ==
    /\ Faulty
    /\ cycle[c] # Idle
    /\ End(c)
    /\ UNCHANGED <<on, data, held, since>>

\* The process dies; Redis and Postgres stay.
Crash ==
    /\ on' = FALSE
    /\ running' = FALSE
    /\ cycle' = [c \in Cycles |-> Idle]
    /\ UNCHANGED <<data, held, since>>

-----------------------------------------------------------------------------
(***************************************************************************)
(* The steps of a cycle.                                                   *)
(***************************************************************************)
\* The host statistics and the projects with active rules have been read.
Collected(c) ==
    /\ cycle[c].phase = "collect"
    /\ cycle' = [cycle EXCEPT
          ![c].phase = "window",
          ![c].projects = {ProjectOf[r] : r \in Active},
          ![c].stats = firing \cap ResourceRules]
    /\ UNCHANGED <<running, held>>

\* Defect: a project in maintenance ends the loop over the projects.
WindowReadReturns(c, p) ==
    /\ cycle[c].phase = "window"
    /\ p \in cycle[c].projects
    /\ cycle' = IF p \in maintenance
                THEN [cycle EXCEPT ![c].projects = {}]
                ELSE [cycle EXCEPT ![c].phase = "rules",
                                   ![c].projects = @ \ {p},
                                   ![c].project = p]
    /\ UNCHANGED <<running, held>>

\* isInMaintenanceWindow(p), asked without monitors: any window suppresses.
WindowRead(c, p) ==
    /\ cycle[c].phase = "window"
    /\ p \in cycle[c].projects
    /\ cycle' = IF p \in maintenance
                THEN [cycle EXCEPT ![c].projects = @ \ {p}]
                ELSE [cycle EXCEPT ![c].phase = "rules",
                                   ![c].projects = @ \ {p},
                                   ![c].project = p]
    /\ UNCHANGED <<running, held>>

\* Defect: the filter on is_active is missing.
RulesReadAll(c) ==
    /\ cycle[c].phase = "rules"
    /\ cycle' = [cycle EXCEPT
          ![c].phase = "eval",
          ![c].rules = RulesOf(cycle[c].project)]
    /\ UNCHANGED <<running, held>>

RulesRead(c) ==
    /\ cycle[c].phase = "rules"
    /\ cycle' = [cycle EXCEPT
          ![c].phase = "eval",
          ![c].rules = RulesOf(cycle[c].project) \cap Active]
    /\ UNCHANGED <<running, held>>

\* One condition has been evaluated.
Evaluate(c, r) ==
    /\ cycle[c].phase = "eval"
    /\ r \in cycle[c].rules
    /\ cycle' = [cycle EXCEPT
          ![c].rules = @ \ {r},
          ![c].triggered = IF Holds(r, cycle[c].stats) THEN @ \cup {r} ELSE @]
    /\ UNCHANGED <<running, held>>

\* Defect: SET EX without NX succeeds although the key exists.
ClaimWithoutNX(c, r) ==
    /\ cycle[c].phase = "eval" /\ cycle[c].rules = {}
    /\ r \in cycle[c].triggered
    /\ held' = held \cup {r}
    /\ cycle' = [cycle EXCEPT ![c].triggered = @ \ {r},
                              ![c].phase = "send",
                              ![c].rule = r,
                              ![c].channels = Channels]
    /\ UNCHANGED running

\* shouldFireAlert: SET NX EX.  Escalation never overrides a refusal, the rule
\* built by evaluateRules having no escalationMinutes.
Claim(c, r) ==
    /\ cycle[c].phase = "eval" /\ cycle[c].rules = {}
    /\ r \in cycle[c].triggered
    /\ held' = held \cup {r}
    /\ cycle' = IF r \in held
                THEN [cycle EXCEPT ![c].triggered = @ \ {r}]
                ELSE [cycle EXCEPT ![c].triggered = @ \ {r},
                                   ![c].phase = "send",
                                   ![c].rule = r,
                                   ![c].channels = Channels]
    /\ UNCHANGED running

\* Every notifier catches its own errors: a channel that fails is only logged as
\* such.
Deliver(c, ch) ==
    /\ cycle[c].phase = "send"
    /\ ch \in cycle[c].channels
    /\ cycle' = [cycle EXCEPT ![c].channels = @ \ {ch}]
    /\ UNCHANGED <<running, held>>

\* The insert into alert_history; its foreign key fails, and with it the cycle,
\* when the rule was deleted meanwhile.
LogRow(c) ==
    /\ cycle[c].phase = "send" /\ cycle[c].channels = {}
    /\ IF rule[cycle[c].rule] = "gone"
       THEN End(c)
       ELSE /\ cycle' = [cycle EXCEPT ![c].phase = "eval", ![c].rule = None]
            /\ UNCHANGED running
    /\ UNCHANGED held

ProjectDone(c) ==
    /\ cycle[c].phase = "eval"
    /\ cycle[c].rules = {} /\ cycle[c].triggered = {}
    /\ cycle' = [cycle EXCEPT ![c].phase = "window", ![c].project = None]
    /\ UNCHANGED <<running, held>>

\* recordWorkerRun, then the finally block.
CycleDone(c) ==
    /\ cycle[c].phase = "window" /\ cycle[c].projects = {}
    /\ End(c)
    /\ UNCHANGED held

CycleStep(c) ==
    /\ \/ Collected(c) \/ RulesRead(c) \/ LogRow(c)
       \/ ProjectDone(c) \/ CycleDone(c)
       \/ \E p \in Projects : WindowRead(c, p)
       \/ \E r \in Rules : Evaluate(c, r) \/ Claim(c, r)
       \/ \E ch \in Channels : Deliver(c, ch)
    /\ UNCHANGED <<on, data, since>>

-----------------------------------------------------------------------------
(***************************************************************************)
(* The rest of the system: the data, the rows and the cooldown keys.       *)
(***************************************************************************)
Remember == since' = [active |-> since.active \cup {r \in Rules : rule'[r] = "active"},
                      firing |-> since.firing \cup firing',
                      open |-> since.open \cup (Projects \ maintenance')]

\* PUT /api/alerts/:id switches a rule on or off, DELETE removes it.
EditRule(r) ==
    /\ rule[r] # "gone"
    /\ \E to \in {"active", "inactive", "gone"} \ {rule[r]} :
          rule' = [rule EXCEPT ![r] = to]
    /\ UNCHANGED <<on, running, cycle, firing, maintenance, held>>
    /\ Remember

DataChanges(r) ==
    /\ firing' = IF r \in firing THEN firing \ {r} ELSE firing \cup {r}
    /\ UNCHANGED <<on, running, cycle, rule, maintenance, held>>
    /\ Remember

WindowChanges(p) ==
    /\ maintenance' = IF p \in maintenance THEN maintenance \ {p}
                                           ELSE maintenance \cup {p}
    /\ UNCHANGED <<on, running, cycle, rule, firing, held>>
    /\ Remember

KeyExpires(r) ==
    /\ r \in held
    /\ held' = held \ {r}
    /\ UNCHANGED <<on, running, cycle, data, since>>

Next ==
    \/ Timer \/ StartWorker \/ StopWorker \/ Crash
    \/ \E c \in Cycles : CycleStep(c) \/ Abort(c)
    \/ \E r \in Rules : EditRule(r) \/ DataChanges(r) \/ KeyExpires(r)
    \/ \E p \in Projects : WindowChanges(p)

Spec == Init /\ [][Next]_vars

\* The event loop runs the timer, every await settles and keys expire.
FairSpec ==
    /\ Spec
    /\ WF_vars(Timer)
    /\ \A c \in Cycles : WF_vars(CycleStep(c))
    /\ \A r \in Rules : WF_vars(KeyExpires(r))

-----------------------------------------------------------------------------
(***************************************************************************)
(* Properties.                                                             *)
(***************************************************************************)
\* Every variable keeps its shape; a cycle that is over left nothing behind, and
\* one that is delivering knows the rule.
TypeOK ==
    /\ on \in BOOLEAN /\ running \in BOOLEAN
    /\ cycle \in [Cycles -> CycleStates]
    /\ \A c \in Cycles :
          /\ cycle[c].phase = "idle" => cycle[c] = Idle
          /\ cycle[c].phase = "send" => cycle[c].rule \in Rules
          /\ cycle[c].phase \in {"rules", "eval", "send"}
               => cycle[c].project \in Projects
    /\ rule \in [Rules -> {"active", "inactive", "gone"}]
    /\ firing \subseteq Rules
    /\ maintenance \subseteq Projects
    /\ held \subseteq Rules
    /\ since \in [active : SUBSET Rules, firing : SUBSET Rules,
                  open : SUBSET Projects]

\* The concurrency guard (worker.ts:19,52-57,109): through stops, restarts,
\* failures and crashes, no two cycles are ever in flight, and the guard is up
\* exactly while one is.
OneCycle ==
    /\ \A c, d \in Cycles : cycle[c] # Idle /\ cycle[d] # Idle => c = d
    /\ running <=> \E c \in Cycles : cycle[c] # Idle

\* No notification is decided on data older than its cycle: a rule being
\* delivered was active, did trigger, and its project was out of maintenance,
\* each at some time since the cycle began.
NotifiedForCause ==
    \A c \in Cycles :
        cycle[c].phase = "send" =>
            /\ cycle[c].rule \in since.active \cap since.firing
            /\ ProjectOf[cycle[c].rule] \in since.open

\* The rules some cycle is delivering.
Delivering == {cycle[c].rule : c \in {d \in Cycles : cycle[d].phase = "send"}}

Promise == INSTANCE AlertCooldown
               WITH Keys <- Rules, open <- held, pending <- Delivering

\* Deduplication (dedup.ts:16-21): the worker notifies of a rule only once per
\* cooldown window and never while it is still delivering the rule.
CooldownKept == Promise!Spec

\* A failed cycle does not wedge the worker (worker.ts:107-110): as long as it
\* is not stopped, cycles begin again and again.
CyclesGoOn == <>[]on => []<>(\E c \in Cycles : cycle[c].phase = "collect")

\* A cycle ends at its end, or because of a rule deleted while it was delivered.
EndsInOrder(c) == Abort(c) => CycleDone(c) \/ LogRow(c)

\* A rule that stays active and triggered, in a project out of maintenance, is
\* delivered to all channels again and again, once cycles no longer throw
\* (worker.ts:62-106).
PersistentAlertRepeats ==
    (<>[][\A c \in Cycles : EndsInOrder(c)]_vars) =>
        \A r \in Rules :
            <>[](/\ on /\ rule[r] = "active" /\ r \in firing
                 /\ ProjectOf[r] \notin maintenance)
              => []<>(\E c \in Cycles : /\ cycle[c].phase = "send"
                                        /\ cycle[c].rule = r
                                        /\ cycle[c].channels = {})
=============================================================================
