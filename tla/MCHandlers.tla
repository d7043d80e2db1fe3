------------------------------ MODULE MCHandlers ------------------------------
(***************************************************************************)
(* Handlers that overlap, on a small instance: the administrators' desk    *)
(* for payments (ClickAdmin), for accounts (Accounts) and for reviews      *)
(* (Reviews), and in the app hold-to-talk (Jonli) and the notes of the     *)
(* chat (VoiceNote).  They share no state here, and the initial state      *)
(* chooses which of them runs.  Only safety is checked, so payments,       *)
(* transactions and requests may be permuted.                              *)
(***************************************************************************)
EXTENDS ClickAdmin, Accounts, Reviews, Jonli, VoiceNote, TLC

VARIABLE part
partVars == <<part, allVars, accVars, reviewVars, jonliVars, noteVars>>

Symmetry == Permutations(Payment) \cup Permutations(Trans) \cup Permutations(Admin)
            \cup Permutations(Session) \cup Permutations(AccReq)

PartInit ==
    /\ DeskInit /\ AccountsInit /\ ReviewsInit /\ JonliInit /\ NoteInit
    /\ part \in {"payments", "accounts", "reviews", "jonli", "notes"}
    /\ part # "accounts" => quiet
    /\ part # "jonli" => single
    /\ part # "notes" => patient

PartNext ==
    /\ part' = part
    /\ \/ part = "payments" /\ DeskNext /\ UNCHANGED <<accVars, reviewVars, jonliVars, noteVars>>
       \/ part = "accounts" /\ AccountsNext /\ UNCHANGED <<allVars, reviewVars, jonliVars, noteVars>>
       \/ part = "reviews" /\ ReviewsNext /\ UNCHANGED <<allVars, accVars, jonliVars, noteVars>>
       \/ part = "jonli" /\ JonliNext /\ UNCHANGED <<allVars, accVars, reviewVars, noteVars>>
       \/ part = "notes" /\ NoteNext /\ UNCHANGED <<allVars, accVars, reviewVars, jonliVars>>

PartSpec == PartInit /\ [][PartNext]_partVars
===============================================================================
