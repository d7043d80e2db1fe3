-------------------------- MODULE MCClickPayments --------------------------
(***************************************************************************)
(* A small instance of ClickPayments with one customer, three payments and *)
(* two offers under cancel_and_recreate.  MCParts checks return_existing   *)
(* with two checkouts at once, and what must happen.                       *)
(***************************************************************************)
EXTENDS ClickPayments, TLC

Symmetry == Permutations(Payment) \cup Permutations(Offer)
            \cup Permutations(Trans) \cup Permutations(Session)

=============================================================================
