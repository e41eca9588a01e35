------------------------------- MODULE MCLogs -------------------------------
\* The log worker, the streamer's intake, the live logs, the retention worker and
\* a monitor's check for TLC.  They share no state, so each behaviour runs one of
\* them and leaves the others unstarted: the log worker disabled, no stream on the
\* wire, a server not listening, no retention worker, nothing to check.
EXTENDS LogWorker, LogIntake, LiveLogs, Retention, Probes

vars == <<logVars, intakeVars, liveVars, retentionVars, probesVars>>

Init ==
    /\ LogInit /\ IntakeInit /\ LiveInit /\ RetentionInit /\ ProbesInit
    /\ Cardinality({i \in 1..5 :
         <<phase # "off", wire # <<>>, serving, scheduled # "new", probe # "none">>[i]}) = 1

Next ==
    \/ LogNext /\ UNCHANGED <<intakeVars, liveVars, retentionVars, probesVars>>
    \/ wire # <<>> /\ IntakeNext /\ UNCHANGED <<logVars, liveVars, retentionVars, probesVars>>
    \/ LiveNext /\ UNCHANGED <<logVars, intakeVars, retentionVars, probesVars>>
    \/ RetentionNext /\ UNCHANGED <<logVars, intakeVars, liveVars, probesVars>>
    \/ /\ probe # "none" /\ ProbesNext
       /\ UNCHANGED <<logVars, intakeVars, liveVars, retentionVars>>

Spec ==
    /\ Init /\ [][Next]_vars
    /\ LogFairness /\ LiveFairness /\ RetentionFairness /\ ProbesFairness

TypeOK ==
    LogTypeOK /\ IntakeTypeOK /\ LiveTypeOK /\ RetentionTypeOK /\ ProbesTypeOK
=============================================================================
