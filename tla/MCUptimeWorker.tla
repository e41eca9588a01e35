--------------------------- MODULE MCUptimeWorker ---------------------------
\* Instances of UptimeWorker for TLC.
EXTENDS UptimeWorker, TLC

\* Every monitor is due at each tick; or only at every second one.
EveryTick == [m \in Monitors |-> 1]
EveryOtherTick == [m \in Monitors |-> 2]

Symmetric == Permutations(Slots) \cup Permutations(Rules)
=============================================================================
