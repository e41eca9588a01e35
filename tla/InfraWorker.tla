----------------------------- MODULE InfraWorker -----------------------------
(***************************************************************************)
(* The infrastructure worker (monitoring/infra-worker.ts) collects every   *)
(* 30 s, whether or not the collection before has ended, what Docker and   *)
(* the host say and stores it; the console's requests collect the same     *)
(* (api/infrastructure.ts).  A rate is the difference to the reading       *)
(* before, which all collections of the process share.  A request to       *)
(* Docker has no time limit: a collection may hang for good.               *)
(*                                                                         *)
(* One container, whose counter of received bytes stands for all counters. *)
(***************************************************************************)
EXTENDS Integers, Sequences, FiniteSets

CONSTANTS Collectors,   \* collections that may be under way at once
          MaxBytes,     \* bound: bytes the container receives
          MaxRestarts,  \* bound: restarts of the container
          MaxTime,      \* bound: the clock
          Interval,     \* collectionIntervalMs
          Never         \* no reading yet, or no timer

ASSUME InfraAssumption ==
    Collectors # {} /\ MaxBytes \in Nat /\ MaxRestarts \in Nat /\ MaxTime \in Nat /\ Interval \in Nat \ {0}

VARIABLES
    instant,    \* the clock
    received,   \* the bytes the container received since it was first started
    base,       \* of these, the bytes before its last restart
    restarts,   \* how often it was restarted
    infraTimer, \* intervalId: off, or the time of the next cycle
    collection, \* the collections under way
    prevNet,    \* prevNetStats: the reading before, or Never
    rated,      \* history: the bytes that rates have accounted for
    newest,     \* history: the latest moment of which a reading was taken up
    overtaken     \* history: a reading was taken up after a later one

infraVars == <<instant, received, base, restarts, infraTimer, collection, prevNet,
               rated, newest, overtaken>>
machine == <<received, base, restarts>>
rates == <<prevNet, rated, newest, overtaken>>

Resting == [who |-> "nobody", at |-> "idle", bytes |-> 0, moment |-> 0]
InfraInit ==
    /\ instant = 0 /\ received = 0 /\ base = 0 /\ restarts = 0
    /\ infraTimer = Never /\ collection = [c \in Collectors |-> Resting]
    /\ prevNet = Never /\ rated = 0 /\ newest = 0 /\ overtaken = FALSE

-----------------------------------------------------------------------------
Becomes(c, s) == collection' = [collection EXCEPT ![c] = s]
Begins(c, who) ==
    /\ collection[c] = Resting
    /\ Becomes(c, [Resting EXCEPT !.who = who, !.at = "asking"])

StartInfraWorker(c) ==
    /\ infraTimer = Never
    /\ infraTimer' = instant + Interval
    /\ Begins(c, "cycle")
    /\ UNCHANGED <<instant, machine, rates>>

\* The interval asks for no end of the cycle before.
InfraTimerFires(c) ==
    /\ infraTimer # Never /\ infraTimer <= instant
    /\ infraTimer' = instant + Interval
    /\ Begins(c, "cycle")
    /\ UNCHANGED <<instant, machine, rates>>

\* Cycles under way go on.
StopInfraWorker ==
    /\ infraTimer # Never /\ infraTimer' = Never
    /\ UNCHANGED <<instant, machine, collection, rates>>

\* GET /containers and /overview collect, too, and store nothing.
GetContainers(c) ==
    /\ Begins(c, "request")
    /\ UNCHANGED <<instant, machine, infraTimer, rates>>

\* Docker reads the counters; its answer is on the way.
CalculateNetworkIo(c) ==
    /\ collection[c].at = "asking"
    /\ Becomes(c, [collection[c] EXCEPT !.at = "answered", !.bytes = received - base,
                                        !.moment = received + restarts])
    /\ UNCHANGED <<instant, machine, infraTimer, rates>>

\* Without an answer of Docker the other tables are written all the same.
DockerFails(c) ==
    /\ collection[c].at = "asking"
    /\ Becomes(c, IF collection[c].who = "cycle"
                  THEN [collection[c] EXCEPT !.at = "inserting"] ELSE Resting)
    /\ UNCHANGED <<instant, machine, infraTimer, rates>>

\* The bytes of the rate: what was received since the reading before, if that was
\* taken up earlier than now, and nothing if the counter went back.
Gained(bytes) ==
    IF prevNet # Never /\ instant > prevNet.time /\ bytes > prevNet.bytes
    THEN bytes - prevNet.bytes ELSE 0

\* Defect: only the first reading is kept.
RememberedFirst(bytes) ==
    IF prevNet = Never THEN [bytes |-> bytes, time |-> instant] ELSE [prevNet EXCEPT !.time = instant]
Remembered(bytes) == [bytes |-> bytes, time |-> instant]

\* The answer is taken up.
CollectDockerStats(c) ==
    LET reading == collection[c] IN
    /\ reading.at = "answered"
    /\ rated' = rated + Gained(reading.bytes)
    /\ prevNet' = Remembered(reading.bytes)
    /\ overtaken' = (overtaken \/ reading.moment < newest)
    /\ newest' = IF reading.moment > newest THEN reading.moment ELSE newest
    /\ Becomes(c, IF reading.who = "cycle" THEN [reading EXCEPT !.at = "inserting"] ELSE Resting)
    /\ UNCHANGED <<instant, machine, infraTimer>>

\* The four tables are written one after the other, each whatever became of the
\* one before, and the cycle counts as run.
RecordWorkerRun(c) ==
    /\ collection[c].at = "inserting"
    /\ Becomes(c, Resting)
    /\ UNCHANGED <<instant, machine, infraTimer, rates>>

ContainerReceives ==
    /\ received < MaxBytes /\ received' = received + 1
    /\ UNCHANGED <<instant, base, restarts, infraTimer, collection, rates>>
ContainerRestarts ==
    /\ restarts < MaxRestarts /\ received > base
    /\ restarts' = restarts + 1 /\ base' = received
    /\ UNCHANGED <<instant, received, infraTimer, collection, rates>>
TimeGoesOn ==
    /\ instant < MaxTime /\ instant' = instant + 1
    /\ UNCHANGED <<machine, infraTimer, collection, rates>>

InfraNext ==
    \/ \E c \in Collectors :
         \/ StartInfraWorker(c) \/ InfraTimerFires(c) \/ GetContainers(c)
         \/ CalculateNetworkIo(c) \/ DockerFails(c) \/ CollectDockerStats(c)
         \/ RecordWorkerRun(c)
    \/ StopInfraWorker \/ ContainerReceives \/ ContainerRestarts \/ TimeGoesOn
-----------------------------------------------------------------------------
InfraSpec == InfraInit /\ [][InfraNext]_infraVars

InfraTypeOK ==
    /\ instant \in 0..MaxTime /\ base <= received /\ restarts \in 0..MaxRestarts
    /\ \A c \in Collectors : collection[c].at \in {"idle", "asking", "answered", "inserting"}
    /\ infraTimer # Never => infraTimer \in 0..(MaxTime + Interval)

\* However collections of the worker and of requests overlap and the container is
\* restarted, their rates account for no byte twice, unless an answer was taken up
\* after one that Docker gave later.
RatesAddUp == rated > received => overtaken
=============================================================================
