---------------------------- MODULE MCAlertWorker ----------------------------
\* Instances of AlertWorker for TLC.
EXTENDS AlertWorker, TLC

CONSTANTS r1, r2, p1, p2

\* A rule of each project.
Spread == r1 :> p1 @@ r2 :> p2
\* Both rules in one project.
Together == r1 :> p1 @@ r2 :> p1

Symmetric == Permutations(Cycles) \cup Permutations(Channels)
=============================================================================
