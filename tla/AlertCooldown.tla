---------------------------- MODULE AlertCooldown ----------------------------
(***************************************************************************)
(* What the alert engine promises about repeated notifications: a key (an  *)
(* alert rule) is granted a notification only when its cooldown window is  *)
(* closed and no notification granted earlier is still being delivered.    *)
(* Windows close by themselves; a delivery ends, or is lost in a crash.    *)
(***************************************************************************)
CONSTANT Keys

VARIABLES open,      \* the keys whose cooldown window is open
          pending    \* the keys whose granted notification is being delivered

vars == <<open, pending>>

Init == open = {} /\ pending = {}

Grant(k) ==
    /\ k \notin open /\ k \notin pending
    /\ open' = open \cup {k}
    /\ pending' = pending \cup {k}

Settle(k) ==
    /\ k \in pending
    /\ pending' = pending \ {k}
    /\ UNCHANGED open

Close(k) ==
    /\ k \in open
    /\ open' = open \ {k}
    /\ UNCHANGED pending

Next == \E k \in Keys : Grant(k) \/ Settle(k) \/ Close(k)

Spec == Init /\ [][Next]_vars
=============================================================================
