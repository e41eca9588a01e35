--------------------------- MODULE OrderedDelivery ---------------------------
(***************************************************************************)
(* What the exporter promises of the spans it is given: they are delivered *)
(* in their order and at least once.  What arrives is all that was not     *)
(* confirmed, up to some item that lies no earlier than what has arrived   *)
(* before, and it is confirmed as a whole or not at all.  An item arrives  *)
(* again only if nobody confirmed it, and nothing once accepted is passed  *)
(* over.                                                                   *)
(***************************************************************************)
EXTENDS Naturals

CONSTANT Limit       \* bound: items accepted

VARIABLES accepted,  \* how many items were accepted, which numbers them
          arrived,   \* how often each item arrived, up to 2
          confirmed  \* the items whose arrival was confirmed

deliveryVars == <<accepted, arrived, confirmed>>

Items == 1..Limit

DeliveryInit == accepted = 0 /\ arrived = [n \in Items |-> 0] /\ confirmed = {}

Accept ==
    /\ accepted < Limit
    /\ accepted' = accepted + 1
    /\ UNCHANGED <<arrived, confirmed>>

\* The unconfirmed items up to `last` arrive; the one who sent them learns of it, or not.
Arrive(last) ==
    /\ last \in 1..accepted \ confirmed
    /\ \A n \in Items : arrived[n] > 0 => n <= last
    /\ arrived' = [n \in Items |->
           IF n <= last /\ n \notin confirmed /\ arrived[n] < 2 THEN arrived[n] + 1 ELSE arrived[n]]
    /\ confirmed' \in {confirmed, 1..last}
    /\ UNCHANGED accepted

DeliveryNext == Accept \/ \E last \in Items : Arrive(last)

DeliverySpec == DeliveryInit /\ [][DeliveryNext]_deliveryVars
=============================================================================
