---------------------------- MODULE RulesEngine ----------------------------
\* What alerts/rules-engine.ts makes of the checks of a project for a rule of type
\* uptime_down, and whether a maintenance window silences it.  The evaluator reads
\* the newest Failures * PerFailure checks of all monitors of the project together
\* and looks for the longest run of failures that begins at a monitor's newest.
\*
\* Every monitor has an interval of its own and may be paused at any time: its
\* checks come among those of the others as they may.  Bounds: the newest
\* MaxChecks checks are kept.
EXTENDS Integers, Sequences, FiniteSets, FiniteSetsExt

CONSTANTS
    Monitors,    \* of the project
    Http,        \* those whose probe reports a status code
    Failures,    \* consecutiveFailures of the rule
    PerFailure,  \* checks read per failure asked for: 10 in the code
    MaxChecks

ASSUME RulesAssumption ==
    /\ Failures \in Nat \ {0} /\ PerFailure \in Nat \ {0} /\ MaxChecks \in Nat \ {0}
    /\ IsFiniteSet(Monitors) /\ Http \subseteq Monitors

VARIABLES
    checks,   \* the uptime_checks, the newest first
    windows   \* the monitors each active maintenance window names; at most one is

rulesVars == <<checks, windows>>

RulesInit == checks = <<>> /\ windows = {}
-----------------------------------------------------------------------------
\* A check fails by its status code, or without one (0) by its outcome; a keyword
\* that is missing from a page fails the probe and leaves its status code 200.
Failure(check) == IF check.code = 0 THEN ~check.success ELSE check.code < 200 \/ check.code >= 400

Newest(n) == SubSeq(checks, 1, IF Len(checks) < n THEN Len(checks) ELSE n)

\* Defect: as many checks as failures, of all monitors together.
RecentOfAll == Newest(Failures)
Recent == Newest(Failures * PerFailure)

\* Where the checks of m are in s.
Own(m, s) == {i \in DOMAIN s : s[i].monitor = m}

\* The failures that the recent checks of m begin with.
Consecutive(m) ==
    LET own == Own(m, Recent)
    IN  Cardinality({i \in own : \A j \in own : j <= i => Failure(Recent[j])})

WorstConsecutive == Max({0} \cup {Consecutive(m) : m \in Monitors})

Compare(value, operator, threshold) ==
    CASE operator = "gt" -> value > threshold
      [] operator = "lt" -> value < threshold
      [] operator = "eq" -> value = threshold
      [] operator = "gte" -> value >= threshold
      [] operator = "lte" -> value <= threshold

EvaluateUptimeDown(operator) == Compare(WorstConsecutive, operator, Failures)

\* evaluateRules passes no monitors: a window that names some silences the
\* project like one that names none.
IsInMaintenanceWindow(monitors) ==
    /\ windows # {}
    /\ \/ {} \in windows
       \/ monitors = {}
       \/ monitors \cap UNION windows # {}

EvaluateRules(operator) == ~IsInMaintenanceWindow({}) /\ EvaluateUptimeDown(operator)
-----------------------------------------------------------------------------
\* A page answers with a status or not at all; any other probe succeeds or fails.
InsertCheckOf(m) ==
    \E code \in {0, 200, 500}, success \in BOOLEAN :
        /\ IF m \in Http THEN code # 200 => ~success ELSE code = 0
        /\ checks' = <<[monitor |-> m, code |-> code, success |-> success]>> \o Newest(MaxChecks - 1)
        /\ UNCHANGED windows

OpenWindow(ms) == windows = {} /\ windows' = {ms} /\ UNCHANGED checks
CloseWindow(ms) == ms \in windows /\ windows' = windows \ {ms} /\ UNCHANGED checks

RulesNext ==
    \/ \E m \in Monitors : InsertCheckOf(m)
    \/ \E ms \in SUBSET Monitors : OpenWindow(ms) \/ CloseWindow(ms)

RulesSpec == RulesInit /\ [][RulesNext]_rulesVars
-----------------------------------------------------------------------------
RulesTypeOK ==
    /\ Len(checks) <= MaxChecks
    /\ \A i \in DOMAIN checks : checks[i].monitor \in Monitors
    /\ windows \subseteq SUBSET Monitors

\* Which of its checks the one at i is, counted from the newest.
Rank(m, i) == Cardinality({j \in Own(m, checks) : j <= i})

\* The newest checks of m, as many as the rule asks for, were not successful, and
\* none of them for a keyword alone.
Down(m) ==
    /\ Cardinality(Own(m, checks)) >= Failures
    /\ \A i \in Own(m, checks) :
          Rank(m, i) <= Failures => ~checks[i].success /\ checks[i].code # 200

\* While m was checked Failures times, the other monitors were checked more often
\* than PerFailure - 1 times as often: their intervals are shorter, or many.
Outpaced(m) ==
    \E i \in Own(m, checks) :
        /\ Rank(m, i) = Failures
        /\ Cardinality({j \in 1..i : checks[j].monitor # m}) > Failures * (PerFailure - 1)

\* However the checks of the monitors come among each other, an uptime_down rule fires
\* exactly if no window is active and some monitor is down that the others do not
\* outpace (evaluateUptimeDown): the failures of several are never joined into a run,
\* and reading the checks of all together hides no other monitor that is down.
DownIsSeen ==
    EvaluateRules("gte") <=> windows = {} /\ \E m \in Monitors : Down(m) /\ ~Outpaced(m)
=============================================================================
