------------------------------ MODULE MCClients ------------------------------
\* What runs at the clients for TLC: the exporter in an application and the log
\* page in a browser.  They share no state, so each behaviour runs one of them,
\* `client`; the fairness of the exporter says nothing of the page.
EXTENDS MastraExporter, LogsPage

VARIABLE client

clientVars == <<client, vars, pageVars>>

ClientInit ==
    /\ client \in {"exporter", "page"}
    /\ Init /\ PageInit /\ (client = "page" => up)

ClientNext ==
    \/ client = "exporter" /\ Next /\ UNCHANGED <<client, pageVars>>
    \/ client = "page" /\ PageNext /\ UNCHANGED <<client, vars>>

ClientSpec ==
    ClientInit /\ [][ClientNext]_clientVars /\ WF_vars(TimerFires) /\ WF_vars(Sender)

ClientTypeOK == TypeOK /\ PageTypeOK
=============================================================================
