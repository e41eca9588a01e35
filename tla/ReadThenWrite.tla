--------------------------- MODULE ReadThenWrite ---------------------------
\* The request handlers that read a row, decide, and write in another statement:
\* the status of an incident (PUT /api/incidents/:id) and the rows that are to be
\* the only one of their name: a subscriber's e-mail, the name of a fingerprint
\* rule, a team member's e-mail, the configuration of a channel, the retention of
\* a table, the project of a tenant.  A behaviour is about one incident or one
\* name, `object`.
\*
\* Bounds: at most MaxCopies rows of a name; a caller has one request at a time.
EXTENDS Naturals, FiniteSets

CONSTANTS Clients, MaxCopies

ASSUME WriteAssumption == MaxCopies \in Nat \ {0}

VARIABLES
    object,    \* "incident" or the kind of the name
    status,    \* of the incident, "none" when there is none
    dated,     \* its resolvedAt is set
    born,      \* the status it was created with
    copies,    \* the rows that have the name
    request,   \* what each caller's handler is about to write, after reading
    crossed,   \* a handler wrote whose reading was out of date
    renamed    \* a fingerprint rule was given a name another one had

incidentVars == <<status, dated, born>>
writeVars == <<object, incidentVars, copies, request, crossed, renamed>>

Statuses == {"investigating", "identified", "monitoring", "resolved"}

\* Defect: resolved is a status like the others.
StatusLifecycleOpen(s) == Statuses \ {s}

\* Which statuses may follow one: any other, but none follows resolved.
StatusLifecycle(s) == IF s = "resolved" THEN {} ELSE Statuses \ {s}

\* The kinds of names; the database itself keeps those of Unique apart.
Unique == {"member", "retention"}
Kinds == {"subscriber", "rule", "member", "channel", "retention", "tenant"}

NoRequest == [pending |-> FALSE, status |-> "none", stale |-> FALSE]
Asks(c, s) ==
    /\ ~request[c].pending
    /\ request' = [request EXCEPT ![c] = [pending |-> TRUE, status |-> s, stale |-> FALSE]]

\* After a write by c, what the others have read is out of date.
Written(c) ==
    request' = [d \in Clients |->
        IF d # c /\ request[d].pending THEN [request[d] EXCEPT !.stale = TRUE] ELSE NoRequest]
Crosses(c) == crossed' = (crossed \/ request[c].stale)

WriteInit ==
    /\ object \in {"incident"} \cup Kinds
    /\ status = "none" /\ dated = FALSE /\ born = "none"
    /\ copies = 0 /\ request = [c \in Clients |-> NoRequest]
    /\ crossed = FALSE /\ renamed = FALSE
-----------------------------------------------------------------------------
\* The incident.  POST sets any status, and never the time of resolution.
PostIncident ==
    /\ object = "incident" /\ born = "none"
    /\ status' \in Statuses /\ born' = status' /\ dated' = FALSE
    /\ UNCHANGED <<object, copies, request, crossed, renamed>>

\* PUT reads the incident and checks the transition from the status it read ...
ReadIncident(c) ==
    /\ status # "none"
    /\ \E s \in StatusLifecycle(status) : Asks(c, s)
    /\ UNCHANGED <<object, incidentVars, copies, crossed, renamed>>

\* ... and updates the row, if it is still there, whatever its status is now.
UpdateIncident(c) ==
    /\ object = "incident" /\ request[c].pending
    /\ IF status = "none"
       THEN UNCHANGED <<status, dated, crossed>>
       ELSE /\ status' = request[c].status
            /\ dated' = (dated \/ status' = "resolved")
            /\ Crosses(c)
    /\ Written(c)
    /\ UNCHANGED <<object, born, copies, renamed>>

RemoveIncident ==
    /\ status # "none"
    /\ status' = "none" /\ dated' = FALSE
    /\ UNCHANGED <<object, born, copies, request, crossed, renamed>>
-----------------------------------------------------------------------------
\* The handlers that look for the name: one that finds it answers 409, or updates
\* the row; the others are about to insert.
Look(c, k) ==
    /\ object = k /\ copies = 0 /\ Asks(c, "none")
    /\ UNCHANGED <<object, incidentVars, copies, crossed, renamed>>

PostSubscriber(c) == Look(c, "subscriber")
PostSubscriberPublic(c) == Look(c, "subscriber")

PostRule(c) == Look(c, "rule")
PostMember(c) == Look(c, "member")
PutMember(c) == Look(c, "member")
PutChannel(c) == Look(c, "channel")
PutRetention(c) == Look(c, "retention")
PostTenant(c) == Look(c, "tenant")

\* The insert; a unique index refuses the second row.
InsertName(c) ==
    /\ object \in Kinds /\ request[c].pending /\ copies < MaxCopies
    /\ IF object \in Unique /\ copies > 0
       THEN UNCHANGED <<copies, crossed>>
       ELSE copies' = copies + 1 /\ Crosses(c)
    /\ Written(c)
    /\ UNCHANGED <<object, incidentVars, renamed>>

\* PUT of a fingerprint rule sets the name it is given, looking for no other.
PutRule(c) ==
    /\ object = "rule" /\ ~request[c].pending /\ copies < MaxCopies
    /\ copies' = copies + 1
    /\ renamed' = (renamed \/ copies > 0)
    /\ Written(c)
    /\ UNCHANGED <<object, incidentVars, crossed>>

\* A row is deleted, or given another name.
RemoveName ==
    /\ copies > 0 /\ object \notin {"retention", "tenant"}
    /\ copies' = copies - 1
    /\ UNCHANGED <<object, incidentVars, request, crossed, renamed>>

WriteNext ==
    \/ PostIncident \/ RemoveIncident \/ RemoveName
    \/ \E c \in Clients :
         \/ ReadIncident(c) \/ UpdateIncident(c)
         \/ PostSubscriber(c) \/ PostSubscriberPublic(c) \/ PostRule(c) \/ PostMember(c)
         \/ PutMember(c) \/ PutChannel(c) \/ PutRetention(c) \/ PostTenant(c)
         \/ InsertName(c) \/ PutRule(c)

WriteSpec == WriteInit /\ [][WriteNext]_writeVars
-----------------------------------------------------------------------------
WriteTypeOK ==
    /\ object \in {"incident"} \cup Kinds
    /\ {status, born} \subseteq {"none"} \cup Statuses
    /\ {dated, crossed, renamed} \subseteq BOOLEAN /\ copies \in 0..MaxCopies
    /\ request \in [Clients -> [pending : BOOLEAN, status : {"none"} \cup Statuses,
                                stale : BOOLEAN]]

\* An incident leaves "resolved" only when two updates crossed: one whose reading
\* another had overtaken.  And it is resolved without a time of resolution only
\* when it was created that way.
OnlyOverlapsReopen ==
    /\ dated /\ status # "resolved" => crossed
    /\ status = "resolved" /\ ~dated => born = "resolved"

\* A name is there twice only when two requests crossed that both had looked for
\* it in vain, or, of fingerprint rules, by renaming; never where the database
\* has a unique index.
OnlyGapsDuplicate ==
    copies > 1 => object \notin Unique /\ (crossed \/ (object = "rule" /\ renamed))

\* What a handler read and then wrote is wrong only because another request came
\* in between: an incident is not reopened nor a name doubled by one alone.
OnlyOverlapsSpoil == OnlyOverlapsReopen /\ OnlyGapsDuplicate
=============================================================================
