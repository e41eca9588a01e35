-------------------------- MODULE AlertWorkerProofs --------------------------
(***************************************************************************)
(* Proofs about AlertWorker, for any sets of projects, rules, channels and *)
(* cycles.                                                                 *)
(***************************************************************************)
EXTENDS AlertWorker, TLAPS

-----------------------------------------------------------------------------
(***************************************************************************)
(* Type correctness.                                                       *)
(***************************************************************************)
\* What TypeOK says of one invocation of runEvaluationCycle.
CycleOK(cy) ==
    /\ cy \in CycleStates
    /\ cy.phase = "idle" => cy = Idle
    /\ cy.phase = "send" => cy.rule \in Rules
    /\ cy.phase \in {"rules", "eval", "send"} => cy.project \in Projects

\* An invocation that is over is well typed.
LEMMA IdleOK == CycleOK(Idle) /\ Idle.phase = "idle"
  BY DEF CycleOK, CycleStates, Phases, Idle

\* TypeOK survives a step that gives one cycle a well-typed record and leaves
\* the data alone.
LEMMA CycleChange ==
    ASSUME TypeOK, NEW c \in Cycles, NEW cy, CycleOK(cy),
           cycle' = [cycle EXCEPT ![c] = cy],
           on' \in BOOLEAN, running' \in BOOLEAN, held' \subseteq Rules,
           UNCHANGED <<data, since>>
    PROVE  TypeOK'
  BY DEF TypeOK, CycleOK, data

\* Every step of a cycle keeps the types.
LEMMA TypeCycleStep ==
    ASSUME TypeOK, NEW c \in Cycles, CycleStep(c)
    PROVE  TypeOK'
<1> USE AlertAssumption
<1>0. CycleOK(cycle[c]) /\ on' \in BOOLEAN /\ UNCHANGED <<data, since>>
  BY DEF TypeOK, CycleOK, CycleStep
<1>1. CASE Collected(c)
  <2> DEFINE cy == [cycle[c] EXCEPT !.phase = "window",
                                    !.projects = {ProjectOf[r] : r \in Active},
                                    !.stats = firing \cap ResourceRules]
  <2>1. {ProjectOf[r] : r \in Active} \subseteq Projects
    BY DEF Active
  <2>2. CycleOK(cy)
    BY <1>0, <2>1, <1>1 DEF CycleOK, CycleStates, Phases, Collected
  <2>3. cycle' = [cycle EXCEPT ![c] = cy]
    BY <1>1 DEF Collected, TypeOK
  <2> QED
    BY <1>0, <1>1, <2>2, <2>3, CycleChange DEF Collected, TypeOK
<1>2. CASE RulesRead(c)
  <2> DEFINE cy == [cycle[c] EXCEPT !.phase = "eval",
                                    !.rules = RulesOf(cycle[c].project) \cap Active]
  <2>1. CycleOK(cy)
    BY <1>0, <1>2 DEF CycleOK, CycleStates, Phases, RulesRead, RulesOf
  <2>2. cycle' = [cycle EXCEPT ![c] = cy]
    BY <1>2 DEF RulesRead, TypeOK
  <2> QED
    BY <1>0, <1>2, <2>1, <2>2, CycleChange DEF RulesRead, TypeOK
<1>3. CASE LogRow(c)
  <2>1. CASE rule[cycle[c].rule] = "gone"
    BY <1>0, <1>3, <2>1, IdleOK, CycleChange DEF LogRow, End, TypeOK
  <2>2. CASE rule[cycle[c].rule] # "gone"
    <3> DEFINE cy == [cycle[c] EXCEPT !.phase = "eval", !.rule = None]
    <3>1. CycleOK(cy)
      BY <1>0, <1>3 DEF CycleOK, CycleStates, Phases, LogRow
    <3>2. cycle' = [cycle EXCEPT ![c] = cy]
      BY <1>3, <2>2 DEF LogRow, TypeOK
    <3> QED
      BY <1>0, <1>3, <2>2, <3>1, <3>2, CycleChange DEF LogRow, TypeOK
  <2> QED
    BY <2>1, <2>2
<1>4. CASE ProjectDone(c)
  <2> DEFINE cy == [cycle[c] EXCEPT !.phase = "window", !.project = None]
  <2>1. CycleOK(cy)
    BY <1>0 DEF CycleOK, CycleStates, Phases
  <2>2. cycle' = [cycle EXCEPT ![c] = cy]
    BY <1>4 DEF ProjectDone, TypeOK
  <2> QED
    BY <1>0, <1>4, <2>1, <2>2, CycleChange DEF ProjectDone, TypeOK
<1>5. CASE CycleDone(c)
  BY <1>0, <1>5, IdleOK, CycleChange DEF CycleDone, End, TypeOK
<1>6. ASSUME NEW p \in Projects, WindowRead(c, p)
      PROVE  TypeOK'
  <2> DEFINE skip == [cycle[c] EXCEPT !.projects = @ \ {p}]
             take == [cycle[c] EXCEPT !.phase = "rules", !.projects = @ \ {p},
                                      !.project = p]
  <2>1. CycleOK(skip) /\ CycleOK(take)
    BY <1>0, <1>6 DEF CycleOK, CycleStates, Phases, WindowRead
  <2>2. \/ cycle' = [cycle EXCEPT ![c] = skip]
        \/ cycle' = [cycle EXCEPT ![c] = take]
    BY <1>6 DEF WindowRead, TypeOK
  <2>3. running' \in BOOLEAN /\ held' \subseteq Rules
    BY <1>6 DEF WindowRead, TypeOK
  <2> HIDE DEF skip, take
  <2> QED
    BY <1>0, <2>1, <2>2, <2>3, CycleChange
<1>7. ASSUME NEW r \in Rules, Evaluate(c, r)
      PROVE  TypeOK'
  <2> DEFINE cy == [cycle[c] EXCEPT !.rules = @ \ {r},
                       !.triggered = IF Holds(r, cycle[c].stats)
                                     THEN @ \cup {r} ELSE @]
  <2>1. CycleOK(cy)
    BY <1>0, <1>7 DEF CycleOK, CycleStates, Phases, Evaluate
  <2>2. cycle' = [cycle EXCEPT ![c] = cy]
    BY <1>7 DEF Evaluate, TypeOK
  <2> QED
    BY <1>0, <1>7, <2>1, <2>2, CycleChange DEF Evaluate, TypeOK
<1>8. ASSUME NEW r \in Rules, Claim(c, r)
      PROVE  TypeOK'
  <2> DEFINE skip == [cycle[c] EXCEPT !.triggered = @ \ {r}]
             take == [cycle[c] EXCEPT !.triggered = @ \ {r}, !.phase = "send",
                                      !.rule = r, !.channels = Channels]
  <2>1. CycleOK(skip) /\ CycleOK(take)
    BY <1>0, <1>8 DEF CycleOK, CycleStates, Phases, Claim
  <2>2. \/ cycle' = [cycle EXCEPT ![c] = skip]
        \/ cycle' = [cycle EXCEPT ![c] = take]
    BY <1>8 DEF Claim, TypeOK
  <2>3. running' \in BOOLEAN /\ held' \subseteq Rules
    BY <1>8 DEF Claim, TypeOK
  <2> HIDE DEF skip, take
  <2> QED
    BY <1>0, <2>1, <2>2, <2>3, CycleChange
<1>9. ASSUME NEW ch \in Channels, Deliver(c, ch)
      PROVE  TypeOK'
  <2> DEFINE cy == [cycle[c] EXCEPT !.channels = @ \ {ch}]
  <2>1. CycleOK(cy)
    BY <1>0, <1>9 DEF CycleOK, CycleStates, Phases, Deliver
  <2>2. cycle' = [cycle EXCEPT ![c] = cy]
    BY <1>9 DEF Deliver, TypeOK
  <2> QED
    BY <1>0, <1>9, <2>1, <2>2, CycleChange DEF Deliver, TypeOK
<1> QED
  BY <1>1, <1>2, <1>3, <1>4, <1>5, <1>6, <1>7, <1>8, <1>9 DEF CycleStep

\* Every variable keeps its shape whatever the order of cycles, edits, failures
\* and crashes: the invariant of the run alert_safety, for all constants.
THEOREM TypeCorrect == Spec => []TypeOK
<1>1. Init => TypeOK
  <2> SUFFICES ASSUME Init
               PROVE  TypeOK
    OBVIOUS
  <2>1. cycle \in [Cycles -> CycleStates] /\ \A c \in Cycles : cycle[c] = Idle
    BY IdleOK DEF Init, CycleOK
  <2>2. since \in [active : SUBSET Rules, firing : SUBSET Rules,
                   open : SUBSET Projects]
    BY DEF Init
  <2> QED
    BY <2>1, <2>2, IdleOK DEF Init, TypeOK
<1>2. TypeOK /\ [Next]_vars => TypeOK'
  <2> SUFFICES ASSUME TypeOK, [Next]_vars
               PROVE  TypeOK'
    OBVIOUS
  <2>1. ASSUME NEW c \in Cycles, Begin(c), on' \in BOOLEAN, UNCHANGED <<data, held>>
        PROVE  TypeOK'
    <3>1. cycle' \in [Cycles -> CycleStates]
      BY <2>1 DEF TypeOK, Begin, CycleStates, Phases, Idle
    <3>2. \A d \in Cycles :
             /\ cycle'[d].phase = "idle" => cycle'[d] = Idle
             /\ cycle'[d].phase = "send" => cycle'[d].rule \in Rules
             /\ cycle'[d].phase \in {"rules", "eval", "send"}
                  => cycle'[d].project \in Projects
      BY <2>1 DEF TypeOK, Begin, CycleStates, Phases, Idle
    <3>3. since' \in [active : SUBSET Rules, firing : SUBSET Rules,
                      open : SUBSET Projects]
      BY <2>1 DEF TypeOK, Begin, Active
    <3>4. running' \in BOOLEAN
      BY <2>1 DEF Begin
    <3> QED
      BY <2>1, <3>1, <3>2, <3>3, <3>4 DEF TypeOK, data
  <2>2. CASE Timer
    BY <2>1, <2>2 DEF Timer, TypeOK
  <2>3. CASE StartWorker
    <3>1. CASE running /\ UNCHANGED <<running, cycle, since>>
      BY <2>3, <3>1 DEF StartWorker, TypeOK, data
    <3>2. CASE \E c \in Cycles : Begin(c)
      BY <2>1, <2>3, <3>2 DEF StartWorker
    <3> QED
      BY <2>3, <3>1, <3>2 DEF StartWorker
  <2>4. CASE StopWorker
    BY <2>4 DEF StopWorker, TypeOK, data
  <2>5. CASE Crash
    <3>1. cycle' \in [Cycles -> CycleStates]
      BY <2>5, IdleOK DEF Crash, CycleOK
    <3>2. \A c \in Cycles : cycle'[c] = Idle
      BY <2>5 DEF Crash
    <3>3. /\ on' \in BOOLEAN /\ running' \in BOOLEAN
          /\ UNCHANGED <<data, held, since>>
      BY <2>5 DEF Crash
    <3> QED
      BY <3>1, <3>2, <3>3, IdleOK DEF TypeOK, data
  <2>6. ASSUME NEW c \in Cycles, CycleStep(c)
        PROVE  TypeOK'
    BY <2>6, TypeCycleStep
  <2>7. ASSUME NEW c \in Cycles, Abort(c)
        PROVE  TypeOK'
    BY <2>7, IdleOK, CycleChange DEF Abort, End, TypeOK
  <2>8. ASSUME Remember, UNCHANGED <<on, running, cycle, held>>,
               rule' \in [Rules -> {"active", "inactive", "gone"}],
               firing' \subseteq Rules, maintenance' \subseteq Projects
        PROVE  TypeOK'
    BY <2>8 DEF Remember, TypeOK
  <2>9. ASSUME NEW r \in Rules, EditRule(r)
        PROVE  TypeOK'
    <3>1. rule' \in [Rules -> {"active", "inactive", "gone"}]
      BY <2>9 DEF EditRule, TypeOK
    <3> QED
      BY <2>8, <2>9, <3>1 DEF EditRule, TypeOK
  <2>10. ASSUME NEW r \in Rules, DataChanges(r)
         PROVE  TypeOK'
    BY <2>8, <2>10 DEF DataChanges, TypeOK
  <2>11. ASSUME NEW p \in Projects, WindowChanges(p)
         PROVE  TypeOK'
    BY <2>8, <2>11 DEF WindowChanges, TypeOK
  <2>12. ASSUME NEW r \in Rules, KeyExpires(r)
         PROVE  TypeOK'
    BY <2>12 DEF KeyExpires, TypeOK, data
  <2>13. CASE UNCHANGED vars
    BY <2>13 DEF vars, TypeOK
  <2> QED
    BY <2>2, <2>3, <2>4, <2>5, <2>6, <2>7, <2>9, <2>10, <2>11, <2>12, <2>13
       DEF Next
<1> QED
  BY <1>1, <1>2, PTL DEF Spec

-----------------------------------------------------------------------------
(***************************************************************************)
(* The concurrency guard.                                                  *)
(***************************************************************************)
\* A step of a cycle either ends it, lowering the guard, or leaves the guard
\* alone; no other cycle moves.
LEMMA CycleStepShape ==
    ASSUME TypeOK, NEW c \in Cycles, CycleStep(c)
    PROVE  /\ cycle[c] # Idle
           /\ \A d \in Cycles \ {c} : cycle'[d] = cycle[d]
           /\ \/ cycle'[c] = Idle /\ running' = FALSE
              \/ cycle'[c] # Idle /\ running' = running
<1> DEFINE Shape == /\ cycle[c].phase # "idle"
                    /\ \A d \in Cycles \ {c} : cycle'[d] = cycle[d]
                    /\ \/ cycle'[c] = Idle /\ running' = FALSE
                       \/ cycle'[c].phase # "idle" /\ running' = running
<1>0. cycle \in [Cycles -> CycleStates]
  BY DEF TypeOK
<1>1. ASSUME Collected(c) PROVE Shape
  BY <1>0, <1>1 DEF Collected, CycleStates
<1>2. ASSUME RulesRead(c) PROVE Shape
  BY <1>0, <1>2 DEF RulesRead, CycleStates
<1>3. ASSUME LogRow(c) PROVE Shape
  BY <1>0, <1>3 DEF LogRow, End, CycleStates
<1>4. ASSUME ProjectDone(c) PROVE Shape
  BY <1>0, <1>4 DEF ProjectDone, CycleStates
<1>5. ASSUME CycleDone(c) PROVE Shape
  BY <1>0, <1>5 DEF CycleDone, End, CycleStates
<1>6. ASSUME NEW p \in Projects, WindowRead(c, p) PROVE Shape
  BY <1>0, <1>6 DEF WindowRead, CycleStates
<1>7. ASSUME NEW r \in Rules, Evaluate(c, r) PROVE Shape
  BY <1>0, <1>7 DEF Evaluate, CycleStates
<1>8. ASSUME NEW r \in Rules, Claim(c, r) PROVE Shape
  BY <1>0, <1>8 DEF Claim, CycleStates
<1>9. ASSUME NEW ch \in Channels, Deliver(c, ch) PROVE Shape
  BY <1>0, <1>9 DEF Deliver, CycleStates
<1>10. Shape
  BY <1>1, <1>2, <1>3, <1>4, <1>5, <1>6, <1>7, <1>8, <1>9 DEF CycleStep
<1> QED
  BY <1>10, IdleOK

\* The steps outside the cycles, seen by the cycles: one begins with the guard
\* lowered, all end at once, or none moves.
LEMMA OtherSteps ==
    ASSUME TypeOK, [Next]_vars, \A c \in Cycles : ~CycleStep(c) /\ ~Abort(c)
    PROVE  \/ \E c \in Cycles : Begin(c) /\ UNCHANGED <<data, held>>
           \/ /\ cycle' = [c \in Cycles |-> Idle]
              /\ running' = FALSE
              /\ UNCHANGED <<data, held, since>>
           \/ /\ UNCHANGED <<running, cycle>>
              /\ \/ Remember /\ UNCHANGED held
                 \/ /\ UNCHANGED <<data, since>>
                    /\ UNCHANGED held \/ \E r \in Rules : KeyExpires(r)
<1>1. CASE Timer
  BY <1>1 DEF Timer
<1>2. CASE StartWorker
  BY <1>2 DEF StartWorker
<1>3. CASE StopWorker
  BY <1>3 DEF StopWorker
<1>4. CASE Crash
  BY <1>4 DEF Crash
<1>5. ASSUME NEW r \in Rules, EditRule(r) \/ DataChanges(r)
      PROVE  UNCHANGED <<running, cycle, held>> /\ Remember
  BY <1>5 DEF EditRule, DataChanges
<1>6. ASSUME NEW r \in Rules, KeyExpires(r)
      PROVE  UNCHANGED <<running, cycle, data, since>>
  BY <1>6 DEF KeyExpires
<1>7. ASSUME NEW p \in Projects, WindowChanges(p)
      PROVE  UNCHANGED <<running, cycle, held>> /\ Remember
  BY <1>7 DEF WindowChanges
<1>8. CASE UNCHANGED vars
  BY <1>8 DEF vars, data
<1> QED
  BY <1>1, <1>2, <1>3, <1>4, <1>5, <1>6, <1>7, <1>8 DEF Next

\* OneCycle is preserved by every step, given the types.
LEMMA OneCycleStep ==
    ASSUME TypeOK, OneCycle, [Next]_vars
    PROVE  OneCycle'
<1>1. ASSUME NEW c \in Cycles, CycleStep(c)
      PROVE  OneCycle'
  BY <1>1, CycleStepShape DEF OneCycle
<1>2. ASSUME NEW c \in Cycles, Abort(c)
      PROVE  OneCycle'
  BY <1>2 DEF OneCycle, Abort, End, TypeOK
<1>3. ASSUME NEW c \in Cycles, Begin(c)
      PROVE  OneCycle'
  <2>1. cycle'[c].phase = "collect" /\ \A d \in Cycles \ {c} : cycle'[d] = cycle[d]
    BY <1>3 DEF Begin, TypeOK, CycleStates
  <2>2. cycle'[c] # Idle
    BY <2>1, IdleOK
  <2>3. ~running /\ running' = TRUE
    BY <1>3 DEF Begin
  <2> QED
    BY <2>1, <2>2, <2>3 DEF OneCycle
<1>4. CASE cycle' = [c \in Cycles |-> Idle] /\ running' = FALSE
  BY <1>4 DEF OneCycle
<1>5. CASE UNCHANGED <<running, cycle>>
  BY <1>5 DEF OneCycle
<1> QED
  BY <1>1, <1>2, <1>3, <1>4, <1>5, OtherSteps

\* The concurrency guard works: through stops, restarts, failures and crashes,
\* no two invocations of runEvaluationCycle are ever in flight, and the guard is
\* up exactly while one is.
THEOREM GuardWorks == Spec => []OneCycle
<1>1. Init => OneCycle
  BY DEF Init, OneCycle
<1>2. TypeOK /\ OneCycle /\ [Next]_vars => OneCycle'
  BY OneCycleStep
<1> QED
  BY <1>1, <1>2, TypeCorrect, PTL DEF Spec

-----------------------------------------------------------------------------
(***************************************************************************)
(* Notifications have a cause.                                             *)
(***************************************************************************)
\* What is the case now was noted in since.
Noted ==
    /\ Active \subseteq since.active
    /\ firing \subseteq since.firing
    /\ Projects \ maintenance \subseteq since.open

\* What a cycle has read so far was the case at some time since it began.
Justified(cy) ==
    /\ cy.stats \subseteq since.firing
    /\ cy.phase \in {"collect", "window", "rules"}
         => cy.rules = {} /\ cy.triggered = {}
    /\ cy.phase \in {"rules", "eval", "send"} => cy.project \in since.open
    /\ cy.rules \subseteq RulesOf(cy.project) \cap since.active
    /\ cy.triggered \subseteq RulesOf(cy.project) \cap since.active \cap since.firing
    /\ cy.phase = "send"
         => cy.rule \in RulesOf(cy.project) \cap since.active \cap since.firing

\* The inductive strengthening of NotifiedForCause.
CauseInv == \A c \in Cycles : cycle[c] # Idle => Noted /\ Justified(cycle[c])

\* A cycle step keeps its own cycle justified.
LEMMA JustifiedStep ==
    ASSUME TypeOK, NEW c \in Cycles, Noted, Justified(cycle[c]), CycleStep(c)
    PROVE  cycle'[c] = Idle \/ Justified(cycle[c])'
<1> USE AlertAssumption
<1> DEFINE goal == cycle'[c] = Idle \/ Justified(cycle[c])'
<1>0. cycle \in [Cycles -> CycleStates] /\ UNCHANGED <<on, data, since>>
  BY DEF TypeOK, CycleStep
<1>1. ASSUME Collected(c) PROVE goal
  <2>0. cycle[c] \in CycleStates /\ since' = since
    BY <1>0
  <2>1. /\ cycle[c].phase = "collect" /\ cycle'[c].phase = "window"
        /\ cycle'[c].stats \subseteq firing
        /\ cycle'[c].rules = cycle[c].rules
        /\ cycle'[c].triggered = cycle[c].triggered
        /\ since' = since
    BY <2>0, <1>0, <1>1 DEF Collected, CycleStates
  <2>2. cycle'[c].rules = {} /\ cycle'[c].triggered = {}
    BY <2>1 DEF Justified
  <2> QED
    BY <2>1, <2>2 DEF Justified, Noted
<1>2. ASSUME RulesRead(c) PROVE goal
  BY <1>0, <1>2 DEF RulesRead, CycleStates, Justified, Noted, RulesOf
<1>3. ASSUME LogRow(c) PROVE goal
  BY <1>0, <1>3 DEF LogRow, End, CycleStates, Justified, RulesOf
<1>4. ASSUME ProjectDone(c) PROVE goal
  BY <1>0, <1>4 DEF ProjectDone, CycleStates, Justified, RulesOf
<1>5. ASSUME CycleDone(c) PROVE goal
  BY <1>0, <1>5 DEF CycleDone, End
<1>6. ASSUME NEW p \in Projects, WindowRead(c, p) PROVE goal
  BY <1>0, <1>6 DEF WindowRead, CycleStates, Justified, Noted, RulesOf
<1>7. ASSUME NEW r \in Rules, Evaluate(c, r) PROVE goal
  <2>1. Holds(r, cycle[c].stats) => r \in since.firing
    BY DEF Holds, Justified, Noted
  <2> QED
    BY <1>0, <1>7, <2>1 DEF Evaluate, CycleStates, Justified, RulesOf
<1>8. ASSUME NEW r \in Rules, Claim(c, r) PROVE goal
  BY <1>0, <1>8 DEF Claim, CycleStates, Justified, RulesOf
<1>9. ASSUME NEW ch \in Channels, Deliver(c, ch) PROVE goal
  BY <1>0, <1>9 DEF Deliver, CycleStates, Justified, RulesOf
<1> QED
  BY <1>1, <1>2, <1>3, <1>4, <1>5, <1>6, <1>7, <1>8, <1>9 DEF CycleStep

\* CauseInv is preserved by every step, given the types and the guard: a second
\* cycle would forget what the first one had noted.
LEMMA CauseStep ==
    ASSUME TypeOK, OneCycle, CauseInv, [Next]_vars
    PROVE  CauseInv'
<1>1. ASSUME NEW c \in Cycles, CycleStep(c)
      PROVE  CauseInv'
  <2>1. cycle[c] # Idle /\ \A d \in Cycles \ {c} : cycle'[d] = Idle
    BY <1>1, CycleStepShape DEF OneCycle
  <2>2. Noted /\ Justified(cycle[c])
    BY <2>1 DEF CauseInv
  <2>3. Noted'
    BY <1>1, <2>2 DEF CycleStep, Noted, Active, data
  <2>4. cycle'[c] = Idle \/ Justified(cycle[c])'
    BY <1>1, <2>2, JustifiedStep
  <2> QED
    BY <2>1, <2>3, <2>4 DEF CauseInv
<1>2. ASSUME NEW c \in Cycles, Abort(c)
      PROVE  CauseInv'
  <2>1. \A d \in Cycles : cycle'[d] = Idle
    BY <1>2 DEF Abort, End, OneCycle, TypeOK
  <2> QED
    BY <2>1 DEF CauseInv
<1>3. ASSUME NEW c \in Cycles, Begin(c), UNCHANGED <<data, held>>
      PROVE  CauseInv'
  <2>1. \A d \in Cycles \ {c} : cycle'[d] = Idle
    BY <1>3 DEF Begin, OneCycle, TypeOK
  <2>2. Noted'
    BY <1>3 DEF Begin, Noted, Active, data
  <2>3. cycle'[c] = [Idle EXCEPT !.phase = "collect"]
    BY <1>3 DEF Begin, TypeOK
  <2>4. Justified(cycle[c])'
    BY <2>3 DEF Justified, Idle
  <2> QED
    BY <2>1, <2>2, <2>4 DEF CauseInv
<1>4. CASE cycle' = [c \in Cycles |-> Idle]
  BY <1>4 DEF CauseInv
<1>5. CASE UNCHANGED cycle /\ Remember
  <2>1. ASSUME NEW c \in Cycles, cycle'[c] # Idle
        PROVE  Noted' /\ Justified(cycle[c])'
    <3>1. Noted /\ Justified(cycle[c])
      BY <1>5, <2>1 DEF CauseInv
    <3>2. /\ since.active \subseteq since'.active
          /\ since.firing \subseteq since'.firing
          /\ since.open \subseteq since'.open
      BY <1>5 DEF Remember
    <3>3. Noted'
      BY <1>5 DEF Remember, Noted, Active
    <3>4. Justified(cycle[c])'
      BY <1>5, <3>1, <3>2 DEF Justified, RulesOf
    <3> QED
      BY <3>3, <3>4
  <2> QED
    BY <2>1 DEF CauseInv
<1>6. CASE UNCHANGED <<cycle, data, since>>
  BY <1>6 DEF CauseInv, Noted, Justified, Active, data
<1> QED
  BY <1>1, <1>2, <1>3, <1>4, <1>5, <1>6, OtherSteps

\* No notification rests on data older than its cycle: a rule that is being
\* delivered was active, its condition held and its project was out of
\* maintenance, each at some time since the cycle began.
THEOREM NotificationsHaveCause == Spec => []NotifiedForCause
<1>1. Init => CauseInv
  BY DEF Init, CauseInv
<1>2. TypeOK /\ OneCycle /\ CauseInv /\ [Next]_vars => CauseInv'
  BY CauseStep
<1>3. TypeOK /\ CauseInv => NotifiedForCause
  BY IdleOK DEF CauseInv, Justified, NotifiedForCause, RulesOf
<1> QED
  BY <1>1, <1>2, <1>3, TypeCorrect, GuardWorks, PTL DEF Spec

-----------------------------------------------------------------------------
(***************************************************************************)
(* The worker implements the abstract promise.                             *)
(***************************************************************************)
\* The rule being delivered is that of the only cycle in flight.
LEMMA DeliveringOne ==
    ASSUME OneCycle, NEW c \in Cycles, cycle[c] # Idle
    PROVE  Delivering = IF cycle[c].phase = "send" THEN {cycle[c].rule} ELSE {}
  BY IdleOK DEF OneCycle, Delivering

\* Nothing is being delivered when no cycle is in flight.
LEMMA DeliveringNone ==
    ASSUME \A c \in Cycles : cycle[c] = Idle
    PROVE  Delivering = {}
  BY IdleOK DEF Delivering

\* A delivery that ends with its cycle settles, or nothing happens.
LEMMA DeliveryLost ==
    ASSUME TypeOK, OneCycle, Delivering' = {}, UNCHANGED held
    PROVE  [Promise!Next]_(Promise!vars)
<1>1. CASE \A c \in Cycles : cycle[c] = Idle
  BY <1>1, DeliveringNone DEF Promise!vars
<1>2. ASSUME NEW c \in Cycles, cycle[c] # Idle
      PROVE  [Promise!Next]_(Promise!vars)
  <2>1. CASE cycle[c].phase = "send"
    <3>1. cycle[c].rule \in Rules /\ Delivering = {cycle[c].rule}
      BY <1>2, <2>1, DeliveringOne DEF TypeOK
    <3>2. Promise!Settle(cycle[c].rule)
      BY <3>1 DEF Promise!Settle
    <3> QED
      BY <3>1, <3>2 DEF Promise!Next
  <2>2. CASE cycle[c].phase # "send"
    BY <1>2, <2>2, DeliveringOne DEF Promise!vars
  <2> QED
    BY <2>1, <2>2
<1> QED
  BY <1>1, <1>2

\* A step of a cycle is a step of the promise or none.
LEMMA CycleStepKeepsPromise ==
    ASSUME TypeOK, OneCycle, OneCycle', NEW c \in Cycles, CycleStep(c)
    PROVE  [Promise!Next]_(Promise!vars)
<1> DEFINE goal == [Promise!Next]_(Promise!vars)
<1>0. /\ cycle \in [Cycles -> CycleStates] /\ cycle[c] # Idle
      /\ \A d \in Cycles \ {c} : cycle'[d] = cycle[d]
  BY CycleStepShape DEF TypeOK
<1>1. ASSUME cycle[c].phase # "send", cycle'[c].phase # "send", UNCHANGED held
      PROVE  goal
  <2>1. Delivering = {} /\ Delivering' = {}
    BY <1>0, <1>1, IdleOK DEF Delivering, OneCycle
  <2> QED
    BY <1>1, <2>1 DEF Promise!vars
<1>2. ASSUME cycle'[c] = Idle, UNCHANGED held
      PROVE  goal
  <2>1. Delivering' = {}
    BY <1>0, <1>2, IdleOK DEF Delivering, OneCycle
  <2> QED
    BY <1>2, <2>1, DeliveryLost
<1>3. ASSUME Collected(c) PROVE goal
  <2>0. cycle \in [Cycles -> CycleStates]
    BY <1>0
  <2>1. cycle[c].phase = "collect" /\ cycle'[c].phase = "window"
    BY <2>0, <1>3 DEF Collected, CycleStates
  <2>2. UNCHANGED held
    BY <1>3 DEF Collected
  <2> QED
    BY <1>1, <2>1, <2>2
<1>4. ASSUME RulesRead(c) PROVE goal
  <2>1. cycle[c].phase # "send" /\ cycle'[c].phase # "send" /\ UNCHANGED held
    BY <1>0, <1>4 DEF RulesRead, CycleStates
  <2> QED
    BY <1>1, <2>1
<1>5. ASSUME LogRow(c) PROVE goal
  <2>1. CASE rule[cycle[c].rule] = "gone"
    BY <1>0, <1>2, <1>5, <2>1 DEF LogRow, End
  <2>2. CASE rule[cycle[c].rule] # "gone"
    <3>1. cycle'[c].phase = "eval" /\ UNCHANGED held
      BY <1>0, <1>5, <2>2 DEF LogRow, CycleStates
    <3>2. Delivering' = {}
      BY <1>0, <3>1, IdleOK DEF Delivering, OneCycle
    <3> QED
      BY <3>1, <3>2, DeliveryLost
  <2> QED
    BY <2>1, <2>2
<1>6. ASSUME ProjectDone(c) PROVE goal
  <2>1. cycle[c].phase # "send" /\ cycle'[c].phase # "send" /\ UNCHANGED held
    BY <1>0, <1>6 DEF ProjectDone, CycleStates
  <2> QED
    BY <1>1, <2>1
<1>7. ASSUME CycleDone(c) PROVE goal
  BY <1>0, <1>2, <1>7 DEF CycleDone, End
<1>8. ASSUME NEW p \in Projects, WindowRead(c, p) PROVE goal
  <2>1. cycle[c].phase # "send" /\ cycle'[c].phase # "send" /\ UNCHANGED held
    BY <1>0, <1>8 DEF WindowRead, CycleStates
  <2> QED
    BY <1>1, <2>1
<1>9. ASSUME NEW r \in Rules, Evaluate(c, r) PROVE goal
  <2>1. cycle[c].phase # "send" /\ cycle'[c].phase # "send" /\ UNCHANGED held
    BY <1>0, <1>9 DEF Evaluate, CycleStates
  <2> QED
    BY <1>1, <2>1
<1>10. ASSUME NEW r \in Rules, Claim(c, r) PROVE goal
  <2>1. CASE r \in held
    <3>1. cycle[c].phase # "send" /\ cycle'[c].phase # "send" /\ UNCHANGED held
      BY <1>0, <1>10, <2>1 DEF Claim, CycleStates
    <3> QED
      BY <1>1, <3>1
  <2>2. CASE r \notin held
    <3>1. /\ cycle[c].phase = "eval"
          /\ cycle'[c].phase = "send" /\ cycle'[c].rule = r
          /\ held' = held \cup {r}
      BY <1>0, <1>10, <2>2 DEF Claim, CycleStates
    <3>2. Delivering = {}
      BY <1>0, <3>1, DeliveringOne
    <3>3. Delivering' = {r}
      BY <1>0, <3>1, IdleOK DEF Delivering, OneCycle
    <3>4. Promise!Grant(r)
      BY <2>2, <3>1, <3>2, <3>3 DEF Promise!Grant
    <3> QED
      BY <3>4 DEF Promise!Next
  <2> QED
    BY <2>1, <2>2
<1>11. ASSUME NEW ch \in Channels, Deliver(c, ch) PROVE goal
  <2>1. /\ cycle'[c].phase = "send" /\ cycle[c].phase = "send"
        /\ cycle'[c].rule = cycle[c].rule /\ UNCHANGED held
    BY <1>0, <1>11 DEF Deliver, CycleStates
  <2>2. Delivering' = Delivering
    BY <1>0, <2>1 DEF Delivering
  <2> QED
    BY <2>1, <2>2 DEF Promise!vars
<1> QED
  BY <1>3, <1>4, <1>5, <1>6, <1>7, <1>8, <1>9, <1>10, <1>11 DEF CycleStep

\* Every step of the worker is a step of the promise or none.
LEMMA StepKeepsPromise ==
    ASSUME TypeOK, OneCycle, OneCycle', [Next]_vars
    PROVE  [Promise!Next]_(Promise!vars)
<1>1. ASSUME NEW c \in Cycles, CycleStep(c)
      PROVE  [Promise!Next]_(Promise!vars)
  BY <1>1, CycleStepKeepsPromise
<1>2. ASSUME NEW c \in Cycles, Abort(c)
      PROVE  [Promise!Next]_(Promise!vars)
  <2>1. Delivering' = {} /\ UNCHANGED held
    BY <1>2, IdleOK DEF Abort, End, Delivering, OneCycle, TypeOK
  <2> QED
    BY <2>1, DeliveryLost
<1>3. ASSUME NEW c \in Cycles, Begin(c), UNCHANGED <<data, held>>
      PROVE  [Promise!Next]_(Promise!vars)
  <2>1. cycle'[c].phase = "collect" /\ \A d \in Cycles \ {c} : cycle'[d] = cycle[d]
    BY <1>3 DEF Begin, TypeOK, CycleStates
  <2>2. \A d \in Cycles : cycle[d] = Idle
    BY <1>3 DEF Begin, OneCycle
  <2>3. Delivering = {} /\ Delivering' = {}
    BY <2>1, <2>2, IdleOK DEF Delivering
  <2> QED
    BY <1>3, <2>3 DEF Promise!vars
<1>4. CASE cycle' = [c \in Cycles |-> Idle] /\ UNCHANGED held
  <2>1. Delivering' = {}
    BY <1>4, IdleOK DEF Delivering
  <2> QED
    BY <1>4, <2>1, DeliveryLost
<1>5. CASE UNCHANGED <<cycle, held>>
  BY <1>5 DEF Delivering, Promise!vars
<1>6. ASSUME NEW r \in Rules, KeyExpires(r)
      PROVE  [Promise!Next]_(Promise!vars)
  <2>1. Delivering' = Delivering
    BY <1>6 DEF KeyExpires, Delivering
  <2>2. Promise!Close(r)
    BY <1>6, <2>1 DEF KeyExpires, Promise!Close
  <2> QED
    BY <2>2 DEF Promise!Next
<1> QED
  BY <1>1, <1>2, <1>3, <1>4, <1>5, <1>6, OtherSteps

\* The worker implements AlertCooldown: whatever fails and whenever it is
\* restarted, a rule is notified only when its cooldown window is closed and no
\* notification of it is still being delivered.
THEOREM CooldownHonoured == Spec => CooldownKept
<1>1. Init => Promise!Init
  BY DeliveringNone DEF Init, Promise!Init
<1>2. TypeOK /\ OneCycle /\ OneCycle' /\ [Next]_vars
        => [Promise!Next]_(Promise!vars)
  BY StepKeepsPromise
<1> QED
  BY <1>1, <1>2, TypeCorrect, GuardWorks, PTL DEF Spec, CooldownKept, Promise!Spec
=============================================================================
