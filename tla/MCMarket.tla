-------------------------------- MODULE MCMarket --------------------------------
(* The marketplace's listings and the WebSocket connection, which share no      *)
(* state, in one run with liveness: the initial state chooses which one runs.   *)
(* The other stands still, and none of its fair actions is enabled there.       *)
EXTENDS Listings, Connection

VARIABLE part
vars == <<part, listingVars, connVars>>

Init == ListingInit /\ ConnectionInit /\ part \in {"listings", "connection"}

Next ==
    /\ part' = part
    /\ \/ part = "listings" /\ ListingNext /\ UNCHANGED connVars
       \/ part = "connection" /\ ConnectionNext /\ UNCHANGED listingVars

Spec == Init /\ [][Next]_vars /\ ListingFairness /\ ConnectionFairness
================================================================================
