---------------------------- MODULE UptimeWorker ----------------------------
(***************************************************************************)
(* The uptime worker (src/monitoring/uptime-worker.ts): a timer tick every *)
(* 10 seconds launches a check of every due monitor; each check awaits the *)
(* probe, the insert of its row and, when a monitor that was down answers  *)
(* again, the recovery notification.  Nothing stops the next tick from     *)
(* starting while checks of the previous one are pending, so several       *)
(* checks of one monitor may be in flight.                                 *)
(*                                                                         *)
(* Time is counted in ticks and relative to now: nextAt[m] is the number   *)
(* of ticks until m is due, cooldown[r] what is left of a Redis key's TTL. *)
(* All monitors belong to one project, whose uptime_down rules are Rules.  *)
(***************************************************************************)
EXTENDS Naturals, FiniteSets, Functions

CONSTANTS Monitors,    \* ids of rows of uptime_monitors
          Rules,       \* ids of the project's uptime_down rules
          Slots,       \* bound: checks in flight at once
          Interval,    \* Interval[m]: the monitor's period, in ticks
          DownAfter,   \* failed checks in a row that make a monitor down
          Cooldown,    \* TTL of a recovery cooldown key, in ticks
          Faulty       \* whether Postgres, Redis and a probe may throw

ASSUME UptimeAssumption ==
    /\ IsFiniteSet(Slots)
    /\ Interval \in [Monitors -> Nat \ {0}]
    /\ DownAfter \in Nat \ {0}
    /\ Cooldown \in Nat \ {0}
    /\ Faulty \in BOOLEAN

VARIABLES
    on,            \* running: the interval timer is set
    row,           \* the monitor's row: active, paused (inactive) or gone
    liveRules,     \* the rules with is_active
    nextAt,        \* Map nextCheckAt: monitor id -> ticks until it is due
    monitorState,  \* Map monitorState: id -> wasDown, consecutiveFailures
    check,         \* the pending iterations of the Promise.allSettled body
    cooldown,      \* Redis: ticks left of alert:cooldown:<rule>:recovery
    streak,        \* history: failed checks recorded in a row, up to DownAfter
    recoveries     \* history: recovered notifications of this outage, up to 2

vars == <<on, row, liveRules, nextAt, monitorState, check, cooldown, streak,
          recoveries>>
maps == <<nextAt, monitorState>>
env == <<on, row, liveRules>>
history == <<streak, recoveries>>

Rows == {"active", "paused", "gone"}
States == [wasDown : BOOLEAN, consecutiveFailures : 0..DownAfter]
Fresh == [wasDown |-> FALSE, consecutiveFailures |-> 0]
Idle == [phase |-> "idle"]
\* A check awaiting its probe, the insert of its row (saveUp, saveDown), the
\* rules to notify, the cooldown of one of the rules left in todo, or the
\* dispatch.  age: ticks since the `now` of its tick, up to the interval.
Checks == UNION {[phase : {"probe", "saveUp", "saveDown", "lookup", "claim",
                           "dispatch"},
                  mon : {m}, age : 0..Interval[m], todo : SUBSET Rules] :
                 m \in Monitors}

Active == {m \in Monitors : row[m] = "active"}
Busy(m) == {s \in Slots : check[s] # Idle /\ check[s].mon = m}
IdleSlots == {s \in Slots : check[s] = Idle}
Recovering == {"lookup", "claim", "dispatch"}

Set(map, k, v) == [x \in DOMAIN map \cup {k} |-> IF x = k THEN v ELSE map[x]]
Lesser(a, b) == IF a < b THEN a ELSE b
Less1(n) == IF n = 0 THEN 0 ELSE n - 1

\* monitorState.get(id) ?? { wasDown: false, consecutiveFailures: 0 }
StateOf(m) == IF m \in DOMAIN monitorState THEN monitorState[m] ELSE Fresh
Down(m) == StateOf(m).wasDown

Init ==
    /\ on = FALSE
    /\ row = [m \in Monitors |-> "active"]
    /\ liveRules = Rules
    /\ nextAt = <<>>
    /\ monitorState = <<>>
    /\ check = [s \in Slots |-> Idle]
    /\ cooldown = [r \in Rules |-> 0]
    /\ streak = [m \in Monitors |-> 0]
    /\ recoveries = [m \in Monitors |-> 0]

-----------------------------------------------------------------------------
(***************************************************************************)
(* The tick.                                                               *)
(***************************************************************************)
\* tick() with the row of every monitor just read: drop the monitors that are
\* no longer active, add the new ones as due now, launch the due ones.  sched
\* is nextCheckAt with the time that has passed already taken off.
RunTick(sched, aged) ==
    LET known == [m \in Active |-> IF m \in DOMAIN sched THEN sched[m] ELSE 0]
        due   == {m \in Active : known[m] = 0}
    IN  \E at \in Injection(due, IdleSlots) :
          /\ nextAt' = known
          /\ monitorState' =
               Restrict(monitorState,
                        DOMAIN monitorState \ (DOMAIN nextAt \ Active))
          /\ check' = [s \in Slots |->
               IF \E m \in due : at[m] = s
               THEN [phase |-> "probe", mon |-> CHOOSE m \in due : at[m] = s,
                     age |-> 0, todo |-> {}]
               ELSE aged[s]]

\* One interval of the timer passes for every pending check and Redis key.
Older(c) == IF c = Idle THEN c
            ELSE [c EXCEPT !.age = Lesser(c.age + 1, Interval[c.mon])]
Aged == [s \in Slots |-> Older(check[s])]
\* Defect: an entry's due time is pushed back at every tick.
ElapsedNever == nextAt
Elapsed == [m \in DOMAIN nextAt |-> Less1(nextAt[m])]
KeysExpire == cooldown' = [r \in Rules |-> Less1(cooldown[r])]

\* The timer fires.
Tick ==
    /\ on
    /\ RunTick(Elapsed, Aged)
    /\ KeysExpire
    /\ UNCHANGED <<env, history>>

\* The timer fires but getMonitors() rejects: the catch leaves the maps alone.
TickFails ==
    /\ on /\ Faulty
    /\ nextAt' = Elapsed
    /\ check' = Aged
    /\ KeysExpire
    /\ UNCHANGED <<env, monitorState, history>>

\* Time passes while the worker is stopped.
Pause ==
    /\ ~on
    /\ nextAt' = Elapsed
    /\ check' = Aged
    /\ KeysExpire
    /\ UNCHANGED <<env, monitorState, history>>

\* startUptimeWorker: one tick at once, then the interval.
Start ==
    /\ ~on
    /\ on' = TRUE
    /\ RunTick(nextAt, check)
    /\ UNCHANGED <<row, liveRules, cooldown, history>>

\* stopUptimeWorker: the maps are cleared, the checks in flight go on.
Stop ==
    /\ on
    /\ on' = FALSE
    /\ nextAt' = <<>>
    /\ monitorState' = <<>>
    /\ UNCHANGED <<row, liveRules, check, cooldown, history>>

\* The process dies: the maps and the checks in flight are lost, Redis is not.
Crash ==
    /\ on' = FALSE
    /\ nextAt' = <<>>
    /\ monitorState' = <<>>
    /\ check' = [s \in Slots |-> Idle]
    /\ UNCHANGED <<row, liveRules, cooldown, history>>

-----------------------------------------------------------------------------
(***************************************************************************)
(* One check.                                                              *)
(***************************************************************************)
\* monitorState.set(id, state), then nextAt = now + interval, the now being the
\* one the check's tick started with.
Finish(s, st) ==
    LET m == check[s].mon
    IN  /\ monitorState' = Set(monitorState, m, st)
        /\ nextAt' = IF m \in DOMAIN nextAt
                     THEN [nextAt EXCEPT ![m] = Interval[m] - check[s].age]
                     ELSE nextAt
        /\ check' = [check EXCEPT ![s] = Idle]

\* The body threw: neither the state nor the schedule is touched.
Abandon(s) ==
    /\ check' = [check EXCEPT ![s] = Idle]
    /\ UNCHANGED maps

Goto(s, p) == check' = [check EXCEPT ![s].phase = p]

Probed(s) ==
    /\ check[s].phase = "probe"
    /\ \/ Goto(s, "saveUp") /\ UNCHANGED maps
       \/ Goto(s, "saveDown") /\ UNCHANGED maps
       \/ Faulty /\ Abandon(s)
    /\ UNCHANGED <<env, cooldown, history>>

\* insertCheck rejects: Postgres fails, or the foreign key does because the
\* monitor was deleted.
SaveRejected(s) ==
    /\ check[s].phase \in {"saveUp", "saveDown"}
    /\ Faulty \/ row[check[s].mon] = "gone"
    /\ Abandon(s)
    /\ UNCHANGED <<env, cooldown, history>>

\* insertCheck resolved after a failed probe.
SavedDown(s) ==
    LET m == check[s].mon
        n == Lesser(StateOf(m).consecutiveFailures + 1, DownAfter)
        k == Lesser(streak[m] + 1, DownAfter)
    IN  /\ check[s].phase = "saveDown"
        /\ row[m] # "gone"
        /\ streak' = [streak EXCEPT ![m] = k]
        /\ recoveries' = [recoveries EXCEPT
                            ![m] = IF k = DownAfter /\ streak[m] < k THEN 0 ELSE @]
        /\ Finish(s, [wasDown |-> Down(m) \/ n >= DownAfter,
                      consecutiveFailures |-> n])
        /\ UNCHANGED <<env, cooldown>>

\* Defect: a success of a monitor that is not down leaves the counter alone.
SavedUpNoReset(s) ==
    LET m == check[s].mon
    IN  /\ check[s].phase = "saveUp"
        /\ row[m] # "gone"
        /\ streak' = [streak EXCEPT ![m] = 0]
        /\ IF Down(m) THEN Goto(s, "lookup") /\ UNCHANGED maps
                      ELSE Finish(s, StateOf(m))
        /\ UNCHANGED <<env, cooldown, recoveries>>

\* insertCheck resolved after a successful probe.
SavedUp(s) ==
    LET m == check[s].mon
    IN  /\ check[s].phase = "saveUp"
        /\ row[m] # "gone"
        /\ streak' = [streak EXCEPT ![m] = 0]
        /\ IF Down(m) THEN Goto(s, "lookup") /\ UNCHANGED maps
                      ELSE Finish(s, Fresh)
        /\ UNCHANGED <<env, cooldown, recoveries>>

\* getMonitor and the active uptime_down rules have been read.
LookedUp(s) ==
    /\ check[s].phase = "lookup"
    /\ \/ /\ row[check[s].mon] # "gone"
          /\ check' = [check EXCEPT ![s].phase = "claim", ![s].todo = liveRules]
          /\ UNCHANGED maps
       \/ /\ Faulty \/ row[check[s].mon] = "gone"
          /\ Finish(s, Fresh)
    /\ UNCHANGED <<env, cooldown, history>>

\* shouldFireAlert("<rule>:recovery"): SET NX EX.  A refusal moves on to the
\* next rule, the rows coming in no particular order.
Claim(s, r) ==
    LET m == check[s].mon
    IN  /\ check[s].phase = "claim"
        /\ r \in check[s].todo
        /\ IF cooldown[r] = 0
           THEN /\ cooldown' = [cooldown EXCEPT ![r] = Cooldown]
                /\ recoveries' = [recoveries EXCEPT ![m] = Lesser(@ + 1, 2)]
                /\ Goto(s, "dispatch")
           ELSE /\ check' = [check EXCEPT ![s].todo = @ \ {r}]
                /\ UNCHANGED <<cooldown, recoveries>>
        /\ UNCHANGED <<env, maps, streak>>

\* Defect: only the counter is reset when the recovery has been announced.
RecoveryKeepsDown(s) ==
    /\ \/ check[s].phase = "claim" /\ (check[s].todo = {} \/ Faulty)
       \/ check[s].phase = "dispatch"
    /\ Finish(s, [Fresh EXCEPT !.wasDown = TRUE])
    /\ UNCHANGED <<env, cooldown, history>>

\* The recovery block ends: no rule is left, the dispatch is over (its outcome
\* makes no difference) or something threw and was caught.
RecoveryOver(s) ==
    /\ \/ check[s].phase = "claim" /\ (check[s].todo = {} \/ Faulty)
       \/ check[s].phase = "dispatch"
    /\ Finish(s, Fresh)
    /\ UNCHANGED <<env, cooldown, history>>

CheckStep(s) ==
    \/ Probed(s) \/ SaveRejected(s) \/ SavedDown(s) \/ SavedUp(s)
    \/ LookedUp(s) \/ RecoveryOver(s)
    \/ \E r \in Rules : Claim(s, r)

-----------------------------------------------------------------------------
(***************************************************************************)
(* The operators of the console, who edit rows the worker reads.           *)
(***************************************************************************)
EditMonitor(m) ==
    /\ row[m] # "gone"
    /\ \E to \in Rows \ {row[m]} : row' = [row EXCEPT ![m] = to]
    /\ UNCHANGED <<on, liveRules, maps, check, cooldown, history>>

EditRule(r) ==
    /\ liveRules' = IF r \in liveRules THEN liveRules \ {r} ELSE liveRules \cup {r}
    /\ UNCHANGED <<on, row, maps, check, cooldown, history>>

Work == Tick \/ TickFails \/ Start \/ \E s \in Slots : CheckStep(s)

Next ==
    \/ Work
    \/ Pause \/ Stop \/ Crash
    \/ \E m \in Monitors : EditMonitor(m)
    \/ \E r \in Rules : EditRule(r)

Spec == Init /\ [][Next]_vars

\* The behaviours of Spec in which nobody edits a row or stops the worker.
QuietSpec == Init /\ [][Work]_vars

\* The event loop runs the timer, and every await of a check settles: probes
\* have timeouts and the clients of Postgres and Redis answer or fail.
FairSpec == Spec /\ WF_vars(Tick) /\ \A s \in Slots : WF_vars(CheckStep(s))

-----------------------------------------------------------------------------
(***************************************************************************)
(* Properties.                                                             *)
(***************************************************************************)
\* Every variable keeps its shape; the two maps hold only known monitors.
TypeOK ==
    /\ on \in BOOLEAN
    /\ row \in [Monitors -> Rows]
    /\ liveRules \subseteq Rules
    /\ DOMAIN nextAt \subseteq Monitors
    /\ \A m \in DOMAIN nextAt : nextAt[m] \in 0..Interval[m]
    /\ DOMAIN monitorState \subseteq Monitors
    /\ \A m \in DOMAIN monitorState : monitorState[m] \in States
    /\ check \in [Slots -> Checks \cup {Idle}]
    /\ cooldown \in [Rules -> 0..Cooldown]
    /\ streak \in [Monitors -> 0..DownAfter]
    /\ recoveries \in [Monitors -> 0..2]

Announcing(m) == \E s \in Busy(m) : check[s].phase \in Recovering

\* No false outage: however the checks of a monitor overlap, and through
\* restarts and edits, the worker holds a monitor down only after DownAfter
\* failed checks recorded in a row, unless it is just announcing the recovery
\* (uptime-worker.ts:218-284).
DownIsEarned ==
    \A m \in Monitors :
        Down(m) /\ ~Announcing(m) => streak[m] = DownAfter

\* A check of m sets wasDown back to false.
Cleared(m) == Down(m) /\ ~Down(m)' /\ m \in DOMAIN monitorState'

\* "Recovery notifications are dispatched when a previously-down monitor comes
\* back online" (docs/architecture.md:574): wherever a check clears wasDown of
\* an active monitor whose rules are active, this outage's recovery was sent.
RecoveryAnnounced ==
    [][\A m \in Monitors :
         Cleared(m) /\ m \in Active /\ liveRules = Rules
           => recoveries[m] > 0]_vars

\* A monitor that stays active under a running worker is probed again and
\* again, whatever Postgres, Redis and the probes answer.
KeepsBeingProbed ==
    \A m \in Monitors :
        <>[](on /\ m \in Active)
          => []<>(\E s \in Busy(m) : check[s].phase = "probe")

\* A monitor that answers again is not held down for ever: when from some time on
\* no check of it is recorded as failed, and successful ones keep being
\* recorded, the down state ends, even if the recovery block throws each time or
\* races with other checks (uptime-worker.ts:219-277).
HealthyMonitorIsCleared ==
    \A m \in Monitors :
        (/\ <>[](on /\ m \in Active /\ streak[m] = 0)
         /\ []<><<\E s \in Slots : SavedUp(s) /\ check[s].mon = m>>_vars)
          => <>[]~Down(m)

=============================================================================
