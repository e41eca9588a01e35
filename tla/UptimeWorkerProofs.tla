------------------------- MODULE UptimeWorkerProofs -------------------------
(***************************************************************************)
(* Proofs about UptimeWorker, for any number of monitors, rules and checks *)
(* in flight, any intervals and any number of failures that make a monitor *)
(* down.                                                                   *)
(***************************************************************************)
EXTENDS UptimeWorker, TLAPS

USE UptimeAssumption

-----------------------------------------------------------------------------
(***************************************************************************)
(* Checks.                                                                 *)
(***************************************************************************)
Phases == {"probe", "saveUp", "saveDown", "lookup", "claim", "dispatch"}

\* The fields of a pending check, apart from the set they come from.
IsCheck(c) ==
    /\ c = [phase |-> c.phase, mon |-> c.mon, age |-> c.age, todo |-> c.todo]
    /\ c.phase \in Phases /\ c.mon \in Monitors
    /\ c.age \in 0..Interval[c.mon] /\ c.todo \subseteq Rules

LEMMA CheckFields == ASSUME NEW c PROVE c \in Checks <=> IsCheck(c)
<1>1. ASSUME c \in Checks PROVE IsCheck(c)
  <2>1. PICK m \in Monitors : c \in [phase : Phases, mon : {m}, age : 0..Interval[m],
                                     todo : SUBSET Rules]
    BY <1>1 DEF Checks, Phases
  <2> QED
    BY <2>1 DEF IsCheck
<1>2. ASSUME IsCheck(c) PROVE c \in Checks
  <2>1. c \in [phase : Phases, mon : {c.mon}, age : 0..Interval[c.mon], todo : SUBSET Rules]
    BY <1>2 DEF IsCheck
  <2> QED
    BY <1>2, <2>1 DEF IsCheck, Checks, Phases
<1> QED
  BY <1>1, <1>2

\* A slot that is not idle holds a check, and its phase tells that it does.
LEMMA SlotHolds ==
    ASSUME TypeOK, NEW s \in Slots
    PROVE  /\ check[s] # Idle <=> IsCheck(check[s])
           /\ check[s].phase # "idle" => IsCheck(check[s])
<1>1. check[s] = Idle => check[s].phase = "idle"
  BY DEF Idle
<1>2. IsCheck(check[s]) => check[s].phase # "idle"
  BY DEF IsCheck, Phases
<1>3. check[s] \in Checks \/ check[s] = Idle
  BY DEF TypeOK
<1> QED
  BY <1>1, <1>2, <1>3, CheckFields

-----------------------------------------------------------------------------
(***************************************************************************)
(* Types, part by part.                                                    *)
(***************************************************************************)
Times(map) == DOMAIN map \subseteq Monitors /\ \A m \in DOMAIN map : map[m] \in 0..Interval[m]
StatesTyped ==
    DOMAIN monitorState \subseteq Monitors
    /\ \A m \in DOMAIN monitorState : monitorState[m] \in States
Slotted(c) == c \in [Slots -> Checks \cup {Idle}]
RestTyped ==
    /\ on \in BOOLEAN /\ row \in [Monitors -> Rows] /\ liveRules \subseteq Rules
    /\ cooldown \in [Rules -> 0..Cooldown]
    /\ streak \in [Monitors -> 0..DownAfter] /\ recoveries \in [Monitors -> 0..2]

LEMMA TypeParts == TypeOK <=> Times(nextAt) /\ StatesTyped /\ Slotted(check) /\ RestTyped
  BY DEF TypeOK, Times, StatesTyped, Slotted, RestTyped

\* The state of a monitor, kept or fresh, has its type.
LEMMA StateTyped ==
    ASSUME TypeOK, NEW m \in Monitors
    PROVE  /\ StateOf(m) \in States
           /\ StateOf(m).consecutiveFailures \in 0..DownAfter /\ StateOf(m).wasDown \in BOOLEAN
<1>1. StateOf(m) \in States
  BY DEF TypeOK, StateOf, States, Fresh
<1> QED
  BY <1>1 DEF States

\* Time takes due times down to 0 and ages up to the interval.
LEMMA Aging ==
    ASSUME TypeOK
    PROVE  /\ Times(Elapsed) /\ Slotted(Aged)
           /\ \A s \in Slots :
                /\ Aged[s] = Idle <=> check[s] = Idle
                /\ check[s] # Idle => Aged[s].mon = check[s].mon /\ Aged[s].phase = check[s].phase
<1>1. Times(Elapsed)
  BY DEF TypeOK, Times, Elapsed, Less1
<1>2. ASSUME NEW s \in Slots
      PROVE  /\ Aged[s] \in Checks \cup {Idle} /\ (Aged[s] = Idle <=> check[s] = Idle)
             /\ check[s] # Idle => Aged[s].mon = check[s].mon /\ Aged[s].phase = check[s].phase
  <2> DEFINE c == check[s]
             n == Lesser(c.age + 1, Interval[c.mon])
  <2>1. CASE c = Idle
    BY <2>1 DEF Aged, Older
  <2>2. CASE c # Idle
    <3>1. IsCheck(c)
      BY <2>2, SlotHolds
    <3>2. n \in 0..Interval[c.mon]
      BY <3>1 DEF IsCheck, Lesser
    <3>3. Aged[s] = [c EXCEPT !.age = n]
      BY <2>2 DEF Aged, Older
    <3>4. Aged[s] = [phase |-> c.phase, mon |-> c.mon, age |-> n, todo |-> c.todo]
      BY <3>1, <3>3 DEF IsCheck
    <3>5. IsCheck(Aged[s])
      BY <3>1, <3>2, <3>4 DEF IsCheck
    <3>6. Aged[s] # Idle
      BY <3>1, <3>4 DEF IsCheck, Phases, Idle
    <3> QED
      BY <2>2, <3>4, <3>5, <3>6, CheckFields
  <2> QED
    BY <2>1, <2>2
<1>3. Slotted(Aged)
  BY <1>2 DEF Slotted, Aged
<1> QED
  BY <1>1, <1>2, <1>3

\* A tick launches checks in idle slots only, and forgets states of monitors.
LEMMA TickShape ==
    ASSUME TypeOK, NEW sched, Times(sched), NEW aged, Slotted(aged), RunTick(sched, aged)
    PROVE  /\ Times(nextAt') /\ StatesTyped' /\ Slotted(check')
           /\ \A s \in Slots : check[s] # Idle => check'[s] = aged[s]
           /\ \A s \in Slots : check'[s] = aged[s] \/ check'[s].phase = "probe"
           /\ \A m \in DOMAIN monitorState' :
                m \in DOMAIN monitorState /\ monitorState'[m] = monitorState[m]
<1> DEFINE known == [m \in Active |-> IF m \in DOMAIN sched THEN sched[m] ELSE 0]
           due == {m \in Active : known[m] = 0}
           gone == DOMAIN nextAt \ Active
<1>1. PICK at \in Injection(due, IdleSlots) :
        /\ nextAt' = known
        /\ monitorState' = Restrict(monitorState, DOMAIN monitorState \ gone)
        /\ check' = [s \in Slots |->
               IF \E m \in due : at[m] = s
               THEN [phase |-> "probe", mon |-> CHOOSE m \in due : at[m] = s,
                     age |-> 0, todo |-> {}]
               ELSE aged[s]]
  BY DEF RunTick
<1>2. Active \subseteq Monitors /\ due \subseteq Monitors
  BY DEF Active
<1>3. Times(nextAt')
  BY <1>1, <1>2 DEF Times
<1>4. monitorState' = [m \in DOMAIN monitorState \ gone |-> monitorState[m]]
  BY <1>1 DEF Restrict
<1>5. /\ StatesTyped'
      /\ \A m \in DOMAIN monitorState' :
           m \in DOMAIN monitorState /\ monitorState'[m] = monitorState[m]
  <2> HIDE DEF gone
  <2> QED
    BY <1>4 DEF TypeOK, StatesTyped
<1>6. at \in [due -> IdleSlots]
  BY <1>1 DEF Injection
<1> HIDE DEF due, known
<1>7. ASSUME NEW s \in Slots, check[s] # Idle PROVE check'[s] = aged[s]
  BY <1>1, <1>6, <1>7 DEF IdleSlots
<1>8. ASSUME NEW s \in Slots PROVE check'[s] \in Checks \cup {Idle}
  <2>1. CASE \E m \in due : at[m] = s
    <3> DEFINE m == CHOOSE m \in due : at[m] = s
    <3>1. m \in Monitors
      BY <1>2, <2>1
    <3> HIDE DEF m
    <3>2. IsCheck([phase |-> "probe", mon |-> m, age |-> 0, todo |-> {}])
      BY <3>1 DEF IsCheck, Phases
    <3>3. check'[s] = [phase |-> "probe", mon |-> m, age |-> 0, todo |-> {}]
      BY <1>1, <2>1 DEF m
    <3> QED
      BY <3>2, <3>3, CheckFields
  <2>2. CASE ~\E m \in due : at[m] = s
    BY <1>1, <2>2 DEF Slotted
  <2> QED
    BY <2>1, <2>2
<1>9. Slotted(check')
  BY <1>1, <1>8 DEF Slotted
<1>10. \A s \in Slots : check'[s] = aged[s] \/ check'[s].phase = "probe"
  BY <1>1
<1> QED
  BY <1>3, <1>5, <1>7, <1>9, <1>10

\* A check that ends stores the state of its monitor and touches no other.
LEMMA FinishShape ==
    ASSUME TypeOK, NEW s \in Slots, IsCheck(check[s]), NEW st \in States, Finish(s, st)
    PROVE  /\ Times(nextAt') /\ StatesTyped' /\ Slotted(check')
           /\ monitorState' = Set(monitorState, check[s].mon, st)
<1> DEFINE m == check[s].mon
<1>1. /\ m \in Monitors /\ check[s].age \in 0..Interval[m] /\ Interval[m] \in Nat
  BY DEF IsCheck
<1>2. /\ monitorState' = Set(monitorState, m, st)
      /\ nextAt' = IF m \in DOMAIN nextAt
                   THEN [nextAt EXCEPT ![m] = Interval[m] - check[s].age] ELSE nextAt
      /\ check' = [check EXCEPT ![s] = Idle]
  BY DEF Finish
<1>3. Interval[m] - check[s].age \in 0..Interval[m]
  BY <1>1
<1> HIDE DEF m
<1>4. Times(nextAt')
  BY <1>2, <1>3 DEF TypeOK, Times
<1>5. StatesTyped'
  BY <1>1, <1>2 DEF TypeOK, StatesTyped, Set
<1>6. Slotted(check')
  BY <1>2 DEF TypeOK, Slotted
<1> QED
  BY <1>2, <1>4, <1>5, <1>6 DEF m

\* A check that goes on keeps its monitor.
LEMMA GoOnTyped ==
    ASSUME TypeOK, NEW s \in Slots, IsCheck(check[s]), NEW p \in Phases, NEW t, t \subseteq Rules,
           check' = [check EXCEPT ![s].phase = p, ![s].todo = t]
    PROVE  /\ Slotted(check') /\ check'[s].mon = check[s].mon /\ check'[s].phase = p
           /\ check'[s] # Idle
<1> DEFINE c == check[s]
<1>1. check'[s] = [c EXCEPT !.phase = p, !.todo = t]
  BY DEF TypeOK
<1>2. check'[s] = [phase |-> p, mon |-> c.mon, age |-> c.age, todo |-> t]
  <2>1. c = [phase |-> c.phase, mon |-> c.mon, age |-> c.age, todo |-> c.todo]
    BY DEF IsCheck
  <2> HIDE DEF c
  <2> QED
    BY <1>1, <2>1
<1>3. IsCheck(check'[s])
  <2>1. c.mon \in Monitors /\ c.age \in 0..Interval[c.mon]
    BY DEF IsCheck
  <2> DEFINE d == check'[s]
  <2>2. d.phase = p /\ d.mon = c.mon /\ d.age = c.age /\ d.todo = t
    BY <1>2
  <2> HIDE DEF c, d
  <2>3. d = [phase |-> d.phase, mon |-> d.mon, age |-> d.age, todo |-> d.todo]
    BY <1>2, <2>2 DEF d
  <2>4. IsCheck(d)
    BY <2>1, <2>2, <2>3 DEF IsCheck
  <2> QED
    BY <2>4 DEF d
<1>4. \A q \in Slots : check'[q] \in Checks \cup {Idle}
  BY <1>3, CheckFields DEF TypeOK
<1>5. check'[s] # Idle
  BY <1>2 DEF Idle, Phases
<1> QED
  BY <1>2, <1>4, <1>5 DEF TypeOK, Slotted

LEMMA GotoTyped ==
    ASSUME TypeOK, NEW s \in Slots, IsCheck(check[s]), NEW p \in Phases, Goto(s, p)
    PROVE  /\ Slotted(check') /\ check'[s].mon = check[s].mon /\ check'[s].phase = p
           /\ check'[s] # Idle
<1>1. check'[s] = [check[s] EXCEPT !.phase = p]
  BY DEF TypeOK, Goto
<1>2. check[s].todo \subseteq Rules
  BY DEF IsCheck
<1>3. [check[s] EXCEPT !.phase = p] = [check[s] EXCEPT !.phase = p, !.todo = check[s].todo]
  BY DEF IsCheck
<1>4. check' = [check EXCEPT ![s].phase = p, ![s].todo = check[s].todo]
  BY <1>1, <1>3 DEF TypeOK, Goto
<1> QED
  BY <1>2, <1>4, GoOnTyped

\* A check that moves on to the next rule keeps its monitor and its phase.
LEMMA DroppedTyped ==
    ASSUME TypeOK, NEW s \in Slots, IsCheck(check[s]), NEW r,
           check' = [check EXCEPT ![s].todo = @ \ {r}]
    PROVE  /\ Slotted(check') /\ check'[s].mon = check[s].mon
           /\ check'[s].phase = check[s].phase /\ check'[s] # Idle
<1> DEFINE t == check[s].todo \ {r}
<1>1. check'[s] = [check[s] EXCEPT !.todo = t]
  BY DEF TypeOK
<1>2. check[s].phase \in Phases /\ t \subseteq Rules
  BY DEF IsCheck
<1>3. [check[s] EXCEPT !.todo = t] = [check[s] EXCEPT !.phase = check[s].phase, !.todo = t]
  BY DEF IsCheck
<1>4. check' = [check EXCEPT ![s].phase = check[s].phase, ![s].todo = t]
  BY <1>1, <1>3 DEF TypeOK
<1> QED
  BY <1>2, <1>4, GoOnTyped

-----------------------------------------------------------------------------
(***************************************************************************)
(* Type correctness.                                                       *)
(***************************************************************************)
\* The two Maps, cleared, hold nothing.
LEMMA EmptyMap == DOMAIN <<>> = {}
  OBVIOUS

LEMMA TypeInit == Init => TypeOK
<1> SUFFICES ASSUME Init PROVE TypeOK
  OBVIOUS
<1>1. DOMAIN nextAt = {} /\ DOMAIN monitorState = {}
  BY EmptyMap DEF Init
<1>2. on \in BOOLEAN /\ row \in [Monitors -> Rows] /\ liveRules \subseteq Rules
  BY DEF Init, Rows
<1>3. /\ cooldown \in [Rules -> 0..Cooldown] /\ streak \in [Monitors -> 0..DownAfter]
      /\ recoveries \in [Monitors -> 0..2] /\ check \in [Slots -> Checks \cup {Idle}]
  BY DEF Init
<1> QED
  BY <1>1, <1>2, <1>3 DEF TypeOK

LEMMA CheckStepTyped ==
    ASSUME TypeOK, NEW s \in Slots, CheckStep(s) PROVE TypeOK'
<1>1. CASE check[s].phase = "idle"
  BY <1>1 DEF CheckStep, Probed, SaveRejected, SavedDown, SavedUp, LookedUp, Claim, RecoveryOver
<1>2. CASE check[s].phase # "idle"
  <2> DEFINE m == check[s].mon
  <2>1. IsCheck(check[s]) /\ m \in Monitors
    BY <1>2, SlotHolds DEF IsCheck
  <2>2. Fresh \in States
    BY DEF Fresh, States
  <2>3. ASSUME Abandon(s) PROVE Slotted(check') /\ UNCHANGED maps
    BY <2>3 DEF Abandon, TypeOK, Slotted
  <2>4. ASSUME NEW p \in Phases, Goto(s, p) PROVE Slotted(check')
    BY <2>1, <2>4, GotoTyped
  <2>5. ASSUME Slotted(check'), UNCHANGED maps, RestTyped' PROVE TypeOK'
    BY <2>5 DEF TypeOK, Slotted, RestTyped, maps
  <2>6. ASSUME NEW st \in States, Finish(s, st), RestTyped' PROVE TypeOK'
    <3>1. Times(nextAt') /\ StatesTyped' /\ Slotted(check')
      BY <2>1, <2>6, FinishShape
    <3> QED
      BY <2>6, <3>1 DEF TypeOK, Times, StatesTyped, Slotted, RestTyped
  <2>7. CASE Probed(s)
    <3>1. RestTyped'
      BY <2>7 DEF Probed, TypeOK, RestTyped, env, history
    <3>2. Slotted(check') /\ UNCHANGED maps
      BY <2>3, <2>4, <2>7 DEF Probed, Phases
    <3> QED
      BY <2>5, <3>1, <3>2
  <2>8. CASE SaveRejected(s)
    <3>1. RestTyped'
      BY <2>8 DEF SaveRejected, TypeOK, RestTyped, env, history
    <3> QED
      BY <2>3, <2>5, <2>8, <3>1 DEF SaveRejected
  <2>9. CASE SavedDown(s)
    <3> DEFINE n == Lesser(StateOf(m).consecutiveFailures + 1, DownAfter)
               k == Lesser(streak[m] + 1, DownAfter)
    <3>1. StateOf(m).consecutiveFailures \in 0..DownAfter /\ Down(m) \in BOOLEAN
      BY <2>1, StateTyped DEF Down
    <3>2. streak[m] \in 0..DownAfter /\ recoveries[m] \in 0..2
      BY <2>1 DEF TypeOK
    <3>3. n \in 0..DownAfter /\ k \in 0..DownAfter
      BY <3>1, <3>2 DEF Lesser
    <3>4. /\ streak' = [streak EXCEPT ![m] = k]
          /\ recoveries' = [recoveries EXCEPT
                              ![m] = IF k = DownAfter /\ streak[m] < k THEN 0 ELSE @]
          /\ Finish(s, [wasDown |-> Down(m) \/ n >= DownAfter, consecutiveFailures |-> n])
          /\ UNCHANGED <<env, cooldown>>
      BY <2>9 DEF SavedDown
    <3>5. [wasDown |-> Down(m) \/ n >= DownAfter, consecutiveFailures |-> n] \in States
      BY <3>3 DEF States
    <3> HIDE DEF m, n, k
    <3>6. streak' \in [Monitors -> 0..DownAfter]
      BY <3>3, <3>4 DEF TypeOK
    <3>7. recoveries' \in [Monitors -> 0..2]
      <4> DEFINE v == IF k = DownAfter /\ streak[m] < k THEN 0 ELSE recoveries[m]
      <4>1. v \in 0..2 /\ recoveries' = [recoveries EXCEPT ![m] = v]
        BY <3>2, <3>4
      <4> HIDE DEF v
      <4> QED
        BY <4>1 DEF TypeOK
    <3>8. RestTyped'
      BY <3>4, <3>6, <3>7 DEF TypeOK, RestTyped, env
    <3> QED
      BY <2>6, <3>4, <3>5, <3>8
  <2>10. CASE SavedUp(s)
    <3>1. streak' = [streak EXCEPT ![m] = 0] /\ UNCHANGED <<env, cooldown, recoveries>>
      BY <2>10 DEF SavedUp
    <3> HIDE DEF m
    <3>2. streak' \in [Monitors -> 0..DownAfter]
      <4>1. streak \in [Monitors -> 0..DownAfter] /\ 0 \in 0..DownAfter
        BY DEF TypeOK
      <4>2. streak' = [streak EXCEPT ![m] = 0]
        BY <3>1
      <4> QED
        BY <4>1, <4>2
    <3>3. RestTyped'
      BY <3>1, <3>2 DEF TypeOK, RestTyped, env
    <3> QED
      BY <2>2, <2>4, <2>5, <2>6, <2>10, <3>3 DEF SavedUp, Phases
  <2>11. CASE LookedUp(s)
    <3>1. RestTyped'
      BY <2>11 DEF LookedUp, TypeOK, RestTyped, env, history
    <3>2. CASE check' = [check EXCEPT ![s].phase = "claim", ![s].todo = liveRules]
               /\ UNCHANGED maps
      <4>1. liveRules \subseteq Rules /\ "claim" \in Phases
        BY DEF TypeOK, Phases
      <4>2. Slotted(check')
        BY <2>1, <3>2, <4>1, GoOnTyped
      <4> QED
        BY <2>5, <3>1, <3>2, <4>2
    <3>3. CASE Finish(s, Fresh)
      BY <2>2, <2>6, <3>1, <3>3
    <3> QED
      BY <2>11, <3>2, <3>3 DEF LookedUp
  <2>12. ASSUME NEW r \in Rules, Claim(s, r) PROVE TypeOK'
    <3>1. recoveries[m] \in 0..2 /\ UNCHANGED <<env, maps, streak>>
      BY <2>1, <2>12 DEF TypeOK, Claim
    <3>2. CASE cooldown[r] = 0
      <4>1. /\ cooldown' = [cooldown EXCEPT ![r] = Cooldown]
            /\ recoveries' = [recoveries EXCEPT ![m] = Lesser(@ + 1, 2)]
            /\ Goto(s, "dispatch")
        BY <2>12, <3>2 DEF Claim
      <4>2. Lesser(recoveries[m] + 1, 2) \in 0..2
        BY <3>1 DEF Lesser
      <4>3. Slotted(check')
        BY <2>4, <4>1 DEF Phases
      <4> HIDE DEF m
      <4>4. recoveries' \in [Monitors -> 0..2]
        BY <4>1, <4>2 DEF TypeOK
      <4>5. cooldown' \in [Rules -> 0..Cooldown]
        BY <4>1 DEF TypeOK
      <4>6. RestTyped'
        BY <3>1, <4>4, <4>5 DEF TypeOK, RestTyped, env
      <4> QED
        BY <2>5, <3>1, <4>3, <4>6
    <3>3. CASE cooldown[r] # 0
      <4>1. /\ check' = [check EXCEPT ![s].todo = @ \ {r}]
            /\ UNCHANGED <<cooldown, recoveries>>
        BY <2>12, <3>3 DEF Claim
      <4>2. Slotted(check')
        BY <2>1, <4>1, DroppedTyped
      <4>3. RestTyped'
        BY <3>1, <4>1 DEF TypeOK, RestTyped, env
      <4> QED
        BY <2>5, <3>1, <4>2, <4>3
    <3> QED
      BY <3>2, <3>3
  <2>13. CASE RecoveryOver(s)
    <3>1. RestTyped'
      BY <2>13 DEF RecoveryOver, TypeOK, RestTyped, env, history
    <3> QED
      BY <2>2, <2>6, <2>13, <3>1 DEF RecoveryOver
  <2> QED
    BY <2>7, <2>8, <2>9, <2>10, <2>11, <2>12, <2>13 DEF CheckStep
<1> QED
  BY <1>1, <1>2

LEMMA TypeStep == TypeOK /\ [Next]_vars => TypeOK'
<1> SUFFICES ASSUME TypeOK, [Next]_vars PROVE TypeOK'
  OBVIOUS
<1>1. ASSUME Times(nextAt'), StatesTyped', Slotted(check'), RestTyped' PROVE TypeOK'
  BY <1>1 DEF TypeOK, Times, StatesTyped, Slotted, RestTyped
<1>2. ASSUME UNCHANGED <<env, history>>, KeysExpire PROVE RestTyped'
  <2>1. \A r \in Rules : Less1(cooldown[r]) \in 0..Cooldown
    BY DEF TypeOK, Less1
  <2> QED
    BY <1>2, <2>1 DEF TypeOK, RestTyped, env, history, KeysExpire
<1>3. CASE Tick
  <2>1. Times(Elapsed) /\ Slotted(Aged) /\ RunTick(Elapsed, Aged)
    BY <1>3, Aging DEF Tick
  <2>2. Times(nextAt') /\ StatesTyped' /\ Slotted(check')
    BY <2>1, TickShape
  <2> QED
    BY <1>1, <1>2, <1>3, <2>2 DEF Tick
<1>4. CASE TickFails \/ Pause
  <2>1. /\ nextAt' = Elapsed /\ check' = Aged /\ KeysExpire
        /\ UNCHANGED <<env, monitorState, history>>
    BY <1>4 DEF TickFails, Pause
  <2>2. Times(nextAt') /\ Slotted(check')
    BY <2>1, Aging
  <2>3. StatesTyped'
    BY <2>1 DEF TypeOK, StatesTyped
  <2> QED
    BY <1>1, <1>2, <2>1, <2>2, <2>3
<1>5. CASE Start
  <2>1. Times(nextAt) /\ Slotted(check) /\ RunTick(nextAt, check)
    BY <1>5, TypeParts DEF Start
  <2>2. Times(nextAt') /\ StatesTyped' /\ Slotted(check')
    BY <2>1, TickShape
  <2>3. RestTyped'
    BY <1>5 DEF Start, TypeOK, RestTyped, history
  <2> QED
    BY <1>1, <2>2, <2>3
<1>6. CASE Stop
  <2>1. DOMAIN nextAt' = {} /\ DOMAIN monitorState' = {}
    BY <1>6, EmptyMap DEF Stop
  <2> QED
    BY <1>6, <2>1 DEF Stop, TypeOK, history
<1>7. CASE Crash
  <2>1. DOMAIN nextAt' = {} /\ DOMAIN monitorState' = {}
    BY <1>7, EmptyMap DEF Crash
  <2>2. Slotted(check')
    BY <1>7 DEF Crash, Slotted
  <2> QED
    BY <1>7, <2>1, <2>2 DEF Crash, TypeOK, Slotted, history
<1>8. CASE \E s \in Slots : CheckStep(s)
  BY <1>8, CheckStepTyped
<1>9. ASSUME NEW m \in Monitors, EditMonitor(m) PROVE TypeOK'
  BY <1>9 DEF EditMonitor, TypeOK, maps, history
<1>10. ASSUME NEW r \in Rules, EditRule(r) PROVE TypeOK'
  BY <1>10 DEF EditRule, TypeOK, maps, history
<1>11. CASE UNCHANGED vars
  BY <1>11 DEF vars, TypeOK
<1> QED
  BY <1>3, <1>4, <1>5, <1>6, <1>7, <1>8, <1>9, <1>10, <1>11 DEF Next, Work

\* Every variable keeps its shape through ticks, checks that overlap, edits,
\* stops and crashes (uptime-worker.ts:40-323).
THEOREM TypeCorrect == Spec => []TypeOK
  BY TypeInit, TypeStep, PTL DEF Spec

-----------------------------------------------------------------------------
(***************************************************************************)
(* No false outage.                                                        *)
(***************************************************************************)
\* What the worker holds of a monitor is covered by the failures recorded in a
\* row, unless a recovery is being announced: then streak may be 0 already while
\* the state still says down.
Settled(m) ==
    /\ StateOf(m).consecutiveFailures <= streak[m]
    /\ Down(m) => streak[m] = DownAfter
Covered(m) == Announcing(m) \/ Settled(m)
Earned == \A m \in Monitors : Covered(m)

LEMMA EarnedImplies == Earned => DownIsEarned
  BY DEF Earned, Covered, Settled, DownIsEarned

\* A slot announces a recovery: the witness of Announcing.
LEMMA AnnouncingBy ==
    ASSUME NEW m, NEW s \in Slots, check[s] # Idle, check[s].mon = m,
           check[s].phase \in Recovering
    PROVE  Announcing(m)
  BY DEF Announcing, Busy

LEMMA InitEarned == Init => Earned
<1> SUFFICES ASSUME Init, NEW m \in Monitors PROVE Settled(m)
  BY DEF Earned, Covered
<1>1. StateOf(m) = Fresh /\ streak[m] = 0
  BY EmptyMap DEF Init, StateOf
<1> QED
  BY <1>1 DEF Settled, Down, Fresh

\* A monitor whose state is fresh is settled.
LEMMA FreshSettled ==
    ASSUME TypeOK', NEW m \in Monitors, StateOf(m)' = Fresh
    PROVE  Settled(m)'
<1>1. streak'[m] \in Nat
  BY DEF TypeOK
<1> QED
  BY <1>1 DEF Settled, Down, Fresh

\* Ticks, edits and idle time: pending checks keep their monitor and their phase,
\* the states of monitors are kept or forgotten.
LEMMA KeptOrForgotten ==
    ASSUME TypeOK, TypeOK', Earned, streak' = streak,
           \A s \in Slots : check[s] # Idle =>
              /\ check'[s] # Idle
              /\ check'[s].mon = check[s].mon /\ check'[s].phase = check[s].phase,
           \A m \in DOMAIN monitorState' :
              m \in DOMAIN monitorState /\ monitorState'[m] = monitorState[m]
    PROVE  Earned'
<1> SUFFICES ASSUME NEW m \in Monitors PROVE Covered(m)'
  BY DEF Earned
<1>1. CASE Announcing(m)
  <2>1. PICK s \in Slots : check[s] # Idle /\ check[s].mon = m /\ check[s].phase \in Recovering
    BY <1>1 DEF Announcing, Busy
  <2>2. check'[s] # Idle /\ check'[s].mon = m /\ check'[s].phase \in Recovering
    BY <2>1
  <2> QED
    BY <2>2 DEF Covered, Announcing, Busy, Recovering
<1>2. CASE Settled(m) /\ m \in DOMAIN monitorState'
  <2>1. StateOf(m)' = StateOf(m)
    BY <1>2 DEF StateOf
  <2> QED
    BY <1>2, <2>1 DEF Covered, Settled, Down
<1>3. CASE m \notin DOMAIN monitorState'
  <2>1. StateOf(m)' = Fresh
    BY <1>3 DEF StateOf, Fresh
  <2> QED
    BY <2>1, FreshSettled DEF Covered
<1> QED
  BY <1>1, <1>2, <1>3 DEF Earned, Covered

\* A step of one check, as another check or another monitor sees it.
LEMMA OthersCovered ==
    ASSUME NEW s \in Slots, NEW m \in Monitors, Covered(m),
           \A q \in Slots \ {s} : check'[q] = check[q],
           \/ check[s].mon # m \/ check[s].phase \notin Recovering
           \/ check'[s] # Idle /\ check'[s].mon = m /\ check'[s].phase \in Recovering,
           Announcing(m) \/ (StateOf(m)' = StateOf(m) /\ streak'[m] = streak[m])
    PROVE  Covered(m)'
<1>1. CASE Announcing(m)
  <2>1. PICK q \in Slots : check[q] # Idle /\ check[q].mon = m /\ check[q].phase \in Recovering
    BY <1>1 DEF Announcing, Busy
  <2>2. PICK r \in Slots :
          check'[r] # Idle /\ check'[r].mon = m /\ check'[r].phase \in Recovering
    BY <2>1
  <2> QED
    BY <2>2 DEF Covered, Announcing, Busy, Recovering
<1>2. CASE ~Announcing(m)
  BY <1>2 DEF Covered, Settled, Down
<1> QED
  BY <1>1, <1>2

\* A check that goes on leaves states and streaks alone.
LEMMA GoOnEarned ==
    ASSUME Earned, NEW s \in Slots, UNCHANGED <<maps, streak>>,
           \A q \in Slots \ {s} : check'[q] = check[q],
           \/ check[s].phase \notin Recovering
           \/ check'[s] # Idle /\ check'[s].mon = check[s].mon /\ check'[s].phase \in Recovering
    PROVE  Earned'
<1> SUFFICES ASSUME NEW m \in Monitors PROVE Covered(m)'
  BY DEF Earned
<1>1. StateOf(m)' = StateOf(m) /\ streak'[m] = streak[m]
  BY DEF StateOf, maps, Fresh
<1> QED
  BY <1>1, OthersCovered DEF Earned

\* A check that ends: its own monitor has to be shown covered.
LEMMA FinishEarned ==
    ASSUME TypeOK, Earned, NEW s \in Slots, IsCheck(check[s]), NEW st \in States, Finish(s, st),
           NEW k \in Monitors, check[s].mon = k,
           \A m \in Monitors \ {k} : streak'[m] = streak[m],
           StateOf(k)' = st => Covered(k)'
    PROVE  Earned'
<1> SUFFICES ASSUME NEW m \in Monitors PROVE Covered(m)'
  BY DEF Earned
<1>1. /\ monitorState' = Set(monitorState, k, st)
      /\ \A q \in Slots \ {s} : check'[q] = check[q]
  BY FinishShape DEF Finish, TypeOK
<1>2. CASE m = k
  <2>1. StateOf(m)' = st
    BY <1>1, <1>2 DEF StateOf, Set
  <2> QED
    BY <1>2, <2>1
<1>3. CASE m # k
  <2>1. StateOf(m)' = StateOf(m)
    BY <1>1, <1>3 DEF StateOf, Set, Fresh
  <2>2. streak'[m] = streak[m] /\ Covered(m)
    BY <1>3 DEF Earned
  <2> QED
    BY <1>1, <1>3, <2>1, <2>2, OthersCovered
<1> QED
  BY <1>2, <1>3

LEMMA CheckStepEarned ==
    ASSUME TypeOK, TypeOK', Earned, NEW s \in Slots, CheckStep(s) PROVE Earned'
<1>1. CASE check[s].phase = "idle"
  BY <1>1 DEF CheckStep, Probed, SaveRejected, SavedDown, SavedUp, LookedUp, Claim, RecoveryOver
<1>2. CASE check[s].phase # "idle"
  <2>1. PICK m \in Monitors : check[s].mon = m /\ IsCheck(check[s]) /\ Covered(m)
    BY <1>2, SlotHolds DEF IsCheck, Earned
  <2>2. Fresh \in States
    BY DEF Fresh, States
  <2>3. ASSUME Finish(s, Fresh), \A o \in Monitors \ {m} : streak'[o] = streak[o] PROVE Earned'
    <3>1. StateOf(m)' = Fresh => Covered(m)'
      BY <2>1, FreshSettled DEF Covered
    <3> QED
      BY <2>1, <2>2, <2>3, <3>1, FinishEarned
  <2>4. CASE Probed(s)
    <3>1. /\ UNCHANGED <<maps, streak>> /\ check[s].phase \notin Recovering
          /\ \A q \in Slots \ {s} : check'[q] = check[q]
      BY <2>4 DEF Probed, Goto, Abandon, history, Recovering, TypeOK
    <3> QED
      BY <3>1, GoOnEarned
  <2>5. CASE SaveRejected(s)
    <3>1. /\ UNCHANGED <<maps, streak>> /\ check[s].phase \notin Recovering
          /\ \A q \in Slots \ {s} : check'[q] = check[q]
      BY <2>5 DEF SaveRejected, Abandon, history, Recovering, TypeOK
    <3> QED
      BY <3>1, GoOnEarned
  <2>6. CASE SavedDown(s)
    <3> DEFINE f == StateOf(m).consecutiveFailures
               n == Lesser(f + 1, DownAfter)
               k == Lesser(streak[m] + 1, DownAfter)
               st == [wasDown |-> Down(m) \/ n >= DownAfter, consecutiveFailures |-> n]
    <3>0. st.wasDown <=> Down(m) \/ n >= DownAfter
      BY Zenon
    <3>1. f \in 0..DownAfter /\ Down(m) \in BOOLEAN /\ streak[m] \in 0..DownAfter
      BY <2>1, StateTyped DEF Down, TypeOK
    <3>2. /\ n \in 0..DownAfter /\ k \in 0..DownAfter
          /\ f <= streak[m] => n <= k
          /\ streak[m] = DownAfter => k = DownAfter
      BY <3>1 DEF Lesser
    <3>3. st \in States
      BY <3>2 DEF States
    <3>4. /\ check[s].phase = "saveDown" /\ streak' = [streak EXCEPT ![m] = k] /\ Finish(s, st)
      BY <2>1, <2>6 DEF SavedDown
    <3>5. streak'[m] = k /\ \A o \in Monitors \ {m} : streak'[o] = streak[o]
      BY <2>1, <3>4 DEF TypeOK
    <3>6. ASSUME StateOf(m)' = st PROVE Covered(m)'
      <4>1. CASE Announcing(m)
        <5>1. \A q \in Slots \ {s} : check'[q] = check[q]
          BY <3>4 DEF Finish, TypeOK
        <5>2. check[s].phase \notin Recovering
          BY <3>4 DEF Recovering
        <5> QED
          <6> HIDE DEF n, k, st
          <6> QED
            BY <2>1, <4>1, <5>1, <5>2, OthersCovered
      <4>2. CASE Settled(m)
        <5>1. f <= streak[m] /\ (Down(m) => streak[m] = DownAfter)
          BY <4>2 DEF Settled
        <5>2. n <= k /\ (Down(m) \/ n >= DownAfter => k = DownAfter)
          BY <3>1, <3>2, <5>1
        <5>3. StateOf(m)'.consecutiveFailures = n
          BY <3>6
        <5>4. StateOf(m)'.wasDown => Down(m) \/ n >= DownAfter
          <6> HIDE DEF st
          <6> QED
            BY <3>0, <3>6
        <5> HIDE DEF n, k, st
        <5> QED
          BY <3>5, <5>2, <5>3, <5>4 DEF Covered, Settled, Down
      <4> QED
        BY <2>1, <4>1, <4>2 DEF Covered
    <3> HIDE DEF st
    <3> QED
      BY <2>1, <3>3, <3>4, <3>5, <3>6, FinishEarned
  <2>7. CASE SavedUp(s)
    <3>1. check[s].phase = "saveUp" /\ streak' = [streak EXCEPT ![m] = 0]
      BY <2>1, <2>7 DEF SavedUp
    <3>2. \A o \in Monitors \ {m} : streak'[o] = streak[o]
      BY <3>1 DEF TypeOK
    <3>3. CASE ~Down(m)
      BY <2>1, <2>3, <2>7, <3>2, <3>3 DEF SavedUp
    <3>4. CASE Down(m)
      <4>1. Goto(s, "lookup") /\ UNCHANGED maps
        BY <2>1, <2>7, <3>4 DEF SavedUp
      <4>2. check'[s].mon = m /\ check'[s].phase \in Recovering /\ check'[s] # Idle
        BY <2>1, <4>1, GotoTyped DEF Phases, Recovering
      <4>3. \A q \in Slots \ {s} : check'[q] = check[q]
        BY <4>1 DEF Goto, TypeOK
      <4>4. Covered(m)'
        BY <4>2 DEF Covered, Announcing, Busy, Recovering
      <4>5. ASSUME NEW o \in Monitors \ {m} PROVE Covered(o)'
        <5>1. StateOf(o)' = StateOf(o)
          BY <4>1 DEF maps, StateOf, Fresh
        <5>2. streak'[o] = streak[o] /\ Covered(o)
          BY <3>2 DEF Earned
        <5> QED
          BY <2>1, <4>3, <5>1, <5>2, OthersCovered
      <4> QED
        BY <4>4, <4>5 DEF Earned
    <3> QED
      BY <3>3, <3>4
  <2>8. CASE LookedUp(s)
    <3>1. check[s].phase = "lookup" /\ streak' = streak
      BY <2>8 DEF LookedUp, history
    <3>2. CASE check' = [check EXCEPT ![s].phase = "claim", ![s].todo = liveRules]
               /\ UNCHANGED maps
      <4>1. liveRules \subseteq Rules /\ "claim" \in Phases
        BY DEF TypeOK, Phases
      <4>2. check'[s].mon = m /\ check'[s].phase \in Recovering /\ check'[s] # Idle
        BY <2>1, <3>2, <4>1, GoOnTyped DEF Recovering
      <4>3. \A q \in Slots \ {s} : check'[q] = check[q]
        BY <3>2 DEF TypeOK
      <4> QED
        BY <2>1, <3>1, <3>2, <4>2, <4>3, GoOnEarned
    <3>3. CASE Finish(s, Fresh)
      BY <2>3, <3>1, <3>3
    <3> QED
      BY <2>8, <3>2, <3>3 DEF LookedUp
  <2>9. ASSUME NEW r \in Rules, Claim(s, r) PROVE Earned'
    <3>1. check[s].phase = "claim" /\ UNCHANGED <<maps, streak>>
      BY <2>9 DEF Claim
    <3>2. /\ check'[s] # Idle /\ check'[s].mon = m /\ check'[s].phase \in Recovering
          /\ \A q \in Slots \ {s} : check'[q] = check[q]
      <4>1. CASE Goto(s, "dispatch")
        BY <2>1, <4>1, GotoTyped DEF Phases, Recovering, Goto, TypeOK
      <4>2. CASE check' = [check EXCEPT ![s].todo = @ \ {r}]
        <5>1. check'[s] # Idle /\ check'[s].mon = m /\ check'[s].phase = "claim"
          BY <2>1, <3>1, <4>2, DroppedTyped
        <5> QED
          BY <4>2, <5>1 DEF Recovering, TypeOK
      <4> QED
        BY <2>9, <4>1, <4>2 DEF Claim
    <3> QED
      BY <2>1, <3>1, <3>2, GoOnEarned
  <2>10. CASE RecoveryOver(s)
    BY <2>3, <2>10 DEF RecoveryOver, history
  <2> QED
    BY <2>4, <2>5, <2>6, <2>7, <2>8, <2>9, <2>10 DEF CheckStep
<1> QED
  BY <1>1, <1>2

LEMMA EarnedStep == TypeOK /\ TypeOK' /\ Earned /\ [Next]_vars => Earned'
<1> SUFFICES ASSUME TypeOK, TypeOK', Earned, [Next]_vars PROVE Earned'
  OBVIOUS
<1>1. ASSUME DOMAIN monitorState' = {} PROVE Earned'
  <2>1. \A m \in Monitors : StateOf(m)' = Fresh
    BY <1>1 DEF StateOf, Fresh
  <2> QED
    BY <2>1, FreshSettled DEF Earned, Covered
<1>2. CASE Tick
  <2>1. Times(Elapsed) /\ Slotted(Aged) /\ RunTick(Elapsed, Aged) /\ streak' = streak
    BY <1>2, Aging DEF Tick, history
  <2>2. /\ \A s \in Slots : check[s] # Idle => check'[s] = Aged[s]
        /\ \A m \in DOMAIN monitorState' :
             m \in DOMAIN monitorState /\ monitorState'[m] = monitorState[m]
    BY <2>1, TickShape
  <2> QED
    BY <2>1, <2>2, Aging, KeptOrForgotten
<1>3. CASE TickFails \/ Pause
  <2>1. check' = Aged /\ UNCHANGED <<monitorState, streak>>
    BY <1>3 DEF TickFails, Pause, history
  <2> QED
    BY <2>1, Aging, KeptOrForgotten
<1>4. CASE Start
  <2>1. Times(nextAt) /\ Slotted(check) /\ RunTick(nextAt, check) /\ streak' = streak
    BY <1>4, TypeParts DEF Start, history
  <2>2. /\ \A s \in Slots : check[s] # Idle => check'[s] = check[s]
        /\ \A m \in DOMAIN monitorState' :
             m \in DOMAIN monitorState /\ monitorState'[m] = monitorState[m]
    BY <2>1, TickShape
  <2> QED
    BY <2>1, <2>2, KeptOrForgotten
<1>5. CASE Stop \/ Crash
  BY <1>1, <1>5, EmptyMap DEF Stop, Crash
<1>6. CASE \E s \in Slots : CheckStep(s)
  BY <1>6, CheckStepEarned
<1>7. ASSUME UNCHANGED <<monitorState, check, streak>> PROVE Earned'
  BY <1>7, KeptOrForgotten
<1>8. CASE \E m \in Monitors : EditMonitor(m)
  BY <1>7, <1>8 DEF EditMonitor, maps, history
<1>9. CASE \E r \in Rules : EditRule(r)
  BY <1>7, <1>9 DEF EditRule, maps, history
<1>10. CASE UNCHANGED vars
  BY <1>7, <1>10 DEF vars
<1> QED
  BY <1>2, <1>3, <1>4, <1>5, <1>6, <1>8, <1>9, <1>10 DEF Next, Work

\* However many checks of a monitor overlap, and through crashes, stops and edits,
\* the worker holds it down only after DownAfter recorded failures in a row
\* (uptime-worker.ts:218-284).
THEOREM OutagesEarned == Spec => []DownIsEarned
<1>1. Init => TypeOK /\ Earned
  BY TypeInit, InitEarned
<1>2. TypeOK /\ Earned /\ [Next]_vars => (TypeOK /\ Earned)'
  BY TypeStep, EarnedStep
<1> QED
  BY <1>1, <1>2, EarnedImplies, PTL DEF Spec

-----------------------------------------------------------------------------
(***************************************************************************)
(* Where recoveries are announced.                                         *)
(***************************************************************************)
\* A check of a monitor is over before the next one starts.
OneAtATime ==
    \A s, q \in Slots :
        check[s] # Idle /\ check[q] # Idle /\ check[s].mon = check[q].mon => s = q

\* A recovery block that asks for its cooldowns finds an active rule none of whose
\* recoveries was announced within the last Cooldown ticks.
FreeToAnnounce ==
    \A s \in Slots :
        check[s].phase = "claim" => \E r \in check[s].todo : cooldown[r] = 0

\* A check that dispatches has claimed a cooldown, in the same outage.
Told == \A s \in Slots : check[s].phase = "dispatch" => recoveries[check[s].mon] > 0

LEMMA ToldSame ==
    ASSUME TypeOK, Told, recoveries' = recoveries,
           \A s \in Slots : check'[s].phase = "dispatch" =>
               check[s].phase = "dispatch" /\ check'[s].mon = check[s].mon
    PROVE  Told'
  BY DEF Told

LEMMA CheckStepTold ==
    ASSUME TypeOK, OneAtATime, Told, NEW s \in Slots, CheckStep(s)
    PROVE  Told'
<1>0. Idle.phase = "idle" /\ \A q \in Slots : check[q].phase # "idle" => check[q] # Idle
  BY DEF Idle
<1>1. CASE check[s].phase = "idle"
  BY <1>1 DEF CheckStep, Probed, SaveRejected, SavedDown, SavedUp, LookedUp, Claim, RecoveryOver
<1>2. CASE check[s].phase # "idle"
  <2>1. PICK m \in Monitors : check[s].mon = m /\ IsCheck(check[s])
    BY <1>2, SlotHolds DEF IsCheck
  <2>2. /\ recoveries \in [Monitors -> 0..2]
        /\ \A q \in Slots : check[q] # Idle => check[q].mon \in Monitors
    BY SlotHolds DEF TypeOK, IsCheck
  <2>3. ASSUME \A q \in Slots \ {s} : check'[q] = check[q], check'[s].phase # "dispatch",
               recoveries' = recoveries
        PROVE  Told'
    BY <2>3, ToldSame
  <2>4. ASSUME NEW st, Finish(s, st)
        PROVE  check'[s] = Idle /\ \A q \in Slots \ {s} : check'[q] = check[q]
    BY <2>4 DEF Finish, TypeOK
  <2>5. ASSUME NEW p \in Phases, Goto(s, p)
        PROVE  /\ check'[s].phase = p /\ check'[s].mon = m
               /\ \A q \in Slots \ {s} : check'[q] = check[q]
    BY <2>1, <2>5, GotoTyped DEF Goto, TypeOK
  <2>6. CASE Probed(s) \/ SaveRejected(s)
    <3>1. CASE Abandon(s)
      BY <1>0, <2>3, <2>6, <3>1 DEF Probed, SaveRejected, Abandon, history, TypeOK
    <3>2. CASE Goto(s, "saveUp") \/ Goto(s, "saveDown")
      BY <2>3, <2>5, <2>6, <3>2 DEF Probed, SaveRejected, history, Phases
    <3> QED
      BY <2>6, <3>1, <3>2 DEF Probed, SaveRejected
  <2>7. CASE SavedDown(s)
    <3>1. /\ check'[s] = Idle /\ \A q \in Slots \ {s} : check'[q] = check[q]
          /\ check[s].phase = "saveDown"
      BY <2>4, <2>7 DEF SavedDown
    <3>2. \A o \in Monitors \ {m} : recoveries'[o] = recoveries[o]
      BY <2>1, <2>2, <2>7 DEF SavedDown
    <3>3. ASSUME NEW q \in Slots \ {s}, check[q].phase = "dispatch" PROVE check[q].mon # m
      BY <1>0, <1>2, <2>1, <3>3 DEF OneAtATime
    <3> QED
      BY <1>0, <2>2, <3>1, <3>2, <3>3 DEF Told
  <2>8. CASE SavedUp(s)
    <3>1. CASE Goto(s, "lookup")
      BY <2>3, <2>5, <2>8, <3>1 DEF SavedUp, Phases
    <3>2. CASE Finish(s, Fresh)
      BY <1>0, <2>3, <2>4, <2>8, <3>2 DEF SavedUp
    <3> QED
      BY <2>8, <3>1, <3>2 DEF SavedUp
  <2>9. CASE LookedUp(s)
    <3>1. CASE check' = [check EXCEPT ![s].phase = "claim", ![s].todo = liveRules]
      <4>1. check'[s].phase = "claim" /\ \A q \in Slots \ {s} : check'[q] = check[q]
        BY <2>1, <3>1, GoOnTyped DEF TypeOK, Phases
      <4> QED
        BY <2>3, <2>9, <4>1 DEF LookedUp, history
    <3>2. CASE Finish(s, Fresh)
      BY <1>0, <2>3, <2>4, <2>9, <3>2 DEF LookedUp, history
    <3> QED
      BY <2>9, <3>1, <3>2 DEF LookedUp
  <2>10. ASSUME NEW r \in Rules, Claim(s, r) PROVE Told'
    <3>1. CASE cooldown[r] = 0
      <4>1. /\ recoveries' = [recoveries EXCEPT ![m] = Lesser(@ + 1, 2)] /\ Goto(s, "dispatch")
        BY <2>1, <2>10, <3>1 DEF Claim
      <4>2. recoveries'[m] > 0 /\ \A o \in Monitors \ {m} : recoveries'[o] = recoveries[o]
        BY <2>2, <4>1 DEF Lesser
      <4>3. check'[s].mon = m /\ \A q \in Slots \ {s} : check'[q] = check[q]
        BY <2>5, <4>1 DEF Phases
      <4> QED
        BY <1>0, <2>2, <4>2, <4>3 DEF Told
    <3>2. CASE cooldown[r] # 0
      <4>1. /\ check[s].phase = "claim" /\ recoveries' = recoveries
            /\ check' = [check EXCEPT ![s].todo = @ \ {r}]
        BY <2>10, <3>2 DEF Claim
      <4>2. check'[s].phase = "claim" /\ \A q \in Slots \ {s} : check'[q] = check[q]
        BY <2>1, <4>1, DroppedTyped DEF TypeOK
      <4> QED
        BY <2>3, <4>1, <4>2
    <3> QED
      BY <3>1, <3>2
  <2>11. CASE RecoveryOver(s)
    BY <1>0, <2>3, <2>4, <2>11 DEF RecoveryOver, history
  <2> QED
    BY <2>6, <2>7, <2>8, <2>9, <2>10, <2>11 DEF CheckStep
<1> QED
  BY <1>1, <1>2

\* The states of monitors are kept or forgotten.
Kept ==
    \A m \in DOMAIN monitorState' :
        m \in DOMAIN monitorState /\ monitorState'[m] = monitorState[m]

\* A step that is none of a check's changes no state and announces nothing.
LEMMA NoCheckStep ==
    ASSUME TypeOK, Told, [Next]_vars, ~\E s \in Slots : CheckStep(s)
    PROVE  Told' /\ Kept
<1>0. Idle.phase = "idle"
  BY DEF Idle
<1>1. CASE Tick
  <2>1. Times(Elapsed) /\ Slotted(Aged) /\ RunTick(Elapsed, Aged) /\ recoveries' = recoveries
    BY <1>1, Aging DEF Tick, history
  <2>2. Kept /\ \A s \in Slots : check'[s] = Aged[s] \/ check'[s].phase = "probe"
    BY <2>1, TickShape DEF Kept
  <2> QED
    BY <1>0, <2>1, <2>2, Aging, ToldSame
<1>2. CASE TickFails \/ Pause
  <2>1. check' = Aged /\ UNCHANGED <<monitorState, recoveries>>
    BY <1>2 DEF TickFails, Pause, history
  <2> QED
    BY <1>0, <2>1, Aging, ToldSame DEF Kept
<1>3. CASE Start
  <2>1. Times(nextAt) /\ Slotted(check) /\ RunTick(nextAt, check) /\ recoveries' = recoveries
    BY <1>3, TypeParts DEF Start, history
  <2>2. Kept /\ \A s \in Slots : check'[s] = check[s] \/ check'[s].phase = "probe"
    BY <2>1, TickShape DEF Kept
  <2> QED
    BY <2>1, <2>2, ToldSame
<1>4. CASE Stop
  BY <1>4, EmptyMap, ToldSame DEF Stop, history, Kept
<1>5. CASE Crash
  <2>1. \A s \in Slots : check'[s] = Idle
    BY <1>5 DEF Crash
  <2> QED
    BY <1>0, <1>5, <2>1, EmptyMap, ToldSame DEF Crash, history, Kept
<1>6. ASSUME UNCHANGED <<monitorState, check, recoveries>> PROVE Told' /\ Kept
  BY <1>6, ToldSame DEF Kept
<1>7. CASE \E m \in Monitors : EditMonitor(m)
  BY <1>6, <1>7 DEF EditMonitor, maps, history
<1>8. CASE \E r \in Rules : EditRule(r)
  BY <1>6, <1>8 DEF EditRule, maps, history
<1>9. CASE UNCHANGED vars
  BY <1>6, <1>9 DEF vars
<1> QED
  BY <1>1, <1>2, <1>3, <1>4, <1>5, <1>7, <1>8, <1>9 DEF Next, Work

LEMMA ToldStep == TypeOK /\ OneAtATime /\ Told /\ [Next]_vars => Told'
  BY CheckStepTold, NoCheckStep

\* A monitor whose check ends unannounced keeps its state, or was deleted.
LEMMA ClearedAnnounced ==
    ASSUME ~Faulty, TypeOK, Told, FreeToAnnounce, NEW s \in Slots, CheckStep(s),
           NEW m \in Monitors, Cleared(m), m \in Active
    PROVE  recoveries[m] > 0
<1>1. CASE check[s].phase = "idle"
  BY <1>1 DEF CheckStep, Probed, SaveRejected, SavedDown, SavedUp, LookedUp, Claim, RecoveryOver
<1>2. CASE check[s].phase # "idle"
  <2>1. PICK k \in Monitors : check[s].mon = k /\ IsCheck(check[s])
    BY <1>2, SlotHolds DEF IsCheck
  <2>2. ASSUME monitorState' = monitorState PROVE FALSE
    BY <2>2 DEF Cleared, Down, StateOf, Fresh
  <2>3. ASSUME NEW st, Finish(s, st) PROVE m = k /\ StateOf(m)' = st
    <3>1. monitorState' = Set(monitorState, k, st)
      BY <2>1, <2>3 DEF Finish
    <3>2. CASE m # k
      <4>1. StateOf(m)' = StateOf(m)
        BY <3>1, <3>2 DEF StateOf, Set, Fresh
      <4> QED
        BY <4>1 DEF Cleared, Down
    <3>3. CASE m = k
      BY <3>1, <3>3 DEF StateOf, Set
    <3> QED
      BY <3>2, <3>3
  <2>4. CASE Probed(s) \/ SaveRejected(s)
    BY <2>2, <2>4 DEF Probed, SaveRejected, Abandon, maps
  <2>5. CASE SavedDown(s)
    <3> DEFINE n == Lesser(StateOf(k).consecutiveFailures + 1, DownAfter)
               st == [wasDown |-> Down(k) \/ n >= DownAfter, consecutiveFailures |-> n]
    <3>1. Finish(s, st)
      BY <2>1, <2>5 DEF SavedDown
    <3>2. st.wasDown <=> Down(k) \/ n >= DownAfter
      BY Zenon
    <3> HIDE DEF st
    <3> QED
      BY <2>3, <3>1, <3>2 DEF Cleared, Down
  <2>6. CASE SavedUp(s)
    <3>1. \/ UNCHANGED maps
          \/ ~Down(k) /\ Finish(s, Fresh)
      BY <2>1, <2>6 DEF SavedUp
    <3> QED
      BY <2>2, <2>3, <3>1 DEF Cleared, maps
  <2>7. CASE LookedUp(s)
    <3>1. \/ UNCHANGED maps
          \/ row[k] = "gone" /\ Finish(s, Fresh)
      BY <2>1, <2>7 DEF LookedUp
    <3> QED
      BY <2>2, <2>3, <3>1 DEF Active, maps
  <2>8. ASSUME NEW r \in Rules, Claim(s, r) PROVE FALSE
    BY <2>2, <2>8 DEF Claim, maps
  <2>9. CASE RecoveryOver(s)
    <3>1. check[s].phase = "dispatch" /\ Finish(s, Fresh)
      BY <2>9 DEF RecoveryOver, FreeToAnnounce
    <3> QED
      BY <2>1, <2>3, <3>1 DEF Told
  <2> QED
    BY <2>4, <2>5, <2>6, <2>7, <2>8, <2>9 DEF CheckStep
<1> QED
  BY <1>1, <1>2

\* The documented promise holds of a worker whose checks of a monitor do not overlap,
\* whose calls do not throw, and whose recovery blocks find a rule outside its cooldown:
\* through stops, crashes and edits, a check clears the down state of an active monitor
\* only after this outage's recovery was sent.  Each of these conditions is one the code
\* does not establish (uptime-worker.ts:218-277).
THEOREM RecoveriesAnnounced ==
    ASSUME ~Faulty
    PROVE  Spec /\ [](OneAtATime /\ FreeToAnnounce) => RecoveryAnnounced
<1>1. Init => Told
  BY DEF Init, Told, Idle
<1>2. TypeOK /\ Told /\ FreeToAnnounce /\ [Next]_vars =>
        [\A m \in Monitors :
           Cleared(m) /\ m \in Active /\ liveRules = Rules => recoveries[m] > 0]_vars
  <2> SUFFICES ASSUME TypeOK, Told, FreeToAnnounce, [Next]_vars, NEW m \in Monitors,
                      Cleared(m), m \in Active
               PROVE  recoveries[m] > 0
    OBVIOUS
  <2>1. ASSUME Kept PROVE FALSE
    <3>1. StateOf(m)' = StateOf(m)
      BY <2>1 DEF Kept, Cleared, StateOf
    <3> QED
      BY <3>1 DEF Cleared, Down
  <2> QED
    BY <2>1, NoCheckStep, ClearedAnnounced
<1>3. Spec /\ [](OneAtATime /\ FreeToAnnounce) => []Told
  BY <1>1, ToldStep, TypeCorrect, PTL DEF Spec
<1> QED
  BY <1>2, <1>3, TypeCorrect, PTL DEF Spec, RecoveryAnnounced

=============================================================================
