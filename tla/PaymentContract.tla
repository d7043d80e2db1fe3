-------------------------- MODULE PaymentContract --------------------------
(***************************************************************************)
(* What the payment code promises, whatever the provider: a payment that   *)
(* was opened is settled at most once, only against money the provider     *)
(* took for it, and a payment that was closed stays closed.                *)
(***************************************************************************)
EXTENDS Naturals

CONSTANT Payment

VARIABLES
    phase,      \* "none", "open", "settled" or "closed"
    backed,     \* the payments for which the provider took the full price
    granted     \* how often the entitlement was handed out

vars == <<phase, backed, granted>>

Init ==
    /\ phase = [p \in Payment |-> "none"]
    /\ backed = {}
    /\ granted = [p \in Payment |-> 0]

\* A checkout opens one payment and may close older open ones.
Open(p) ==
    /\ phase[p] = "none"
    /\ \E closed \in SUBSET {q \in Payment : phase[q] = "open"} :
          phase' = [q \in Payment |-> IF q = p THEN "open"
                                      ELSE IF q \in closed THEN "closed"
                                      ELSE phase[q]]
    /\ UNCHANGED <<backed, granted>>

\* The provider takes the money.
Back(p) ==
    /\ phase[p] # "none"
    /\ backed' = backed \cup {p}
    /\ UNCHANGED <<phase, granted>>

\* The settlement; the entitlement may turn out to be unavailable.
Settle(p) ==
    /\ phase[p] = "open"
    /\ p \in backed
    /\ phase' = [phase EXCEPT ![p] = "settled"]
    /\ granted' \in {granted, [granted EXCEPT ![p] = @ + 1]}
    /\ UNCHANGED backed

Close(p) ==
    /\ phase[p] = "open"
    /\ phase' = [phase EXCEPT ![p] = "closed"]
    /\ UNCHANGED <<backed, granted>>

Next == \E p \in Payment : Open(p) \/ Back(p) \/ Settle(p) \/ Close(p)

Spec == Init /\ [][Next]_vars

\* What is handed out is handed out once, of a settled payment, and for money.
Honest ==
    \A p \in Payment :
        /\ granted[p] <= 1
        /\ granted[p] > 0 => phase[p] = "settled"
        /\ phase[p] = "settled" => p \in backed

\* A payment that was settled or closed stays so.
Stays == \A p \in Payment : phase[p] \in {"settled", "closed"} => phase'[p] = phase[p]

Final == [][Stays]_vars
=============================================================================
