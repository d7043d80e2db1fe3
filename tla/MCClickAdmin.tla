---------------------------- MODULE MCClickAdmin ---------------------------
(***************************************************************************)
(* The Click payment path with the admin desk on a small instance.  Only   *)
(* safety is checked, so payments and transactions may be permuted.        *)
(***************************************************************************)
EXTENDS ClickAdmin, TLC

Symmetry == Permutations(Payment) \cup Permutations(Trans) \cup Permutations(Admin)
            \cup Permutations(Session)

=============================================================================
