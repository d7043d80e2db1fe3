---------------------------- MODULE ClickAdmin -----------------------------
(***************************************************************************)
(* The admin panel's payment desk (services/payments_admin.py) beside the  *)
(* Click payment path.  mark_refund, mark_chargeback and triage_action     *)
(* load the payment with db.get, without a lock, check the status they     *)
(* loaded, and write status and meta by primary key at the flush: two      *)
(* steps, between which a webhook of Click or another admin may commit.    *)
(* The meta written is a copy of the one loaded, with the mark             *)
(* click_prepare_id as it was then.                                        *)
(***************************************************************************)
EXTENDS ClickPayments

CONSTANT Admin      \* concurrent admin requests

VARIABLE desk       \* what each admin request loaded

allVars == <<vars, desk>>

Ops == {"refund", "chargeback", "note", "retry"}

Free == [op |-> "none", pay |-> None, seen |-> "absent", prepared |-> FALSE]

DeskInit == Init /\ desk = [a \in Admin |-> Free]

\* The statuses each operation accepts; dismiss and notify ("note") accept any.
Accepts(op, p) ==
    CASE op = "refund"     -> status[p] \in {"succeeded", "needs_refund", "pending"}
      [] op = "chargeback" -> status[p] \in {"succeeded", "refunded", "needs_refund"}
      [] op = "note"       -> status[p] # "absent"
      [] op = "retry"      -> /\ status[p] \in {"failed", "cancelled", "pending"}
                              /\ item[p] \in Offer

\* The unlocked load of the payment and the check of its status.
DeskLoad(a, p, op) ==
    /\ desk[a] = Free
    /\ Accepts(op, p)
    /\ desk' = [desk EXCEPT ![a] = [op |-> op, pay |-> p, seen |-> status[p],
                                    prepared |-> prepared[p]]]
    /\ UNCHANGED vars

\* The flush writes the meta that was loaded.
WriteMeta(a) ==
    /\ prepared' = [prepared EXCEPT ![desk[a].pay] = desk[a].prepared]
    /\ desk' = [desk EXCEPT ![a] = Free]

\* mark_refund and mark_chargeback.
DeskMark(a, op, s) ==
    /\ desk[a].op = op
    /\ WriteMeta(a)
    /\ status' = [status EXCEPT ![desk[a].pay] = s]
    /\ UNCHANGED <<owner, item, txn, granted, worldVars, checkout, trans, click>>

Refund(a) == DeskMark(a, "refund", "refunded")
Chargeback(a) == DeskMark(a, "chargeback", "chargeback")

\* triage_action "dismiss" and "notify" (which sends an e-mail between load and
\* flush) change only the meta.
Note(a) ==
    /\ desk[a].op = "note"
    /\ WriteMeta(a)
    /\ UNCHANGED <<status, owner, item, txn, granted, worldVars, checkout,
                   trans, click>>

\* The payment a retry closes: the one it loaded, if it was pending then.
Retried(a) == IF desk[a].seen = "pending" THEN {desk[a].pay} ELSE {}

\* The open payment the retry's own checkout finds, after its flush.
RetryFinds(a) ==
    RecentPending(owner[desk[a].pay], item[desk[a].pay]) \ Retried(a)

\* triage_action "retry": close the payment and open a fresh checkout in the
\* same transaction.
Retry(a) ==
    LET p == desk[a].pay
        others == Superseded([user |-> owner[p], existing |-> p,
                              seen |-> desk[a].prepared])
    IN
    /\ desk[a].op = "retry"
    /\ RetryFinds(a) # {} => PendingPolicy = "cancel_and_recreate"
    /\ WriteMeta(a)
    /\ \E q \in Payment :
          Insert(q, owner[p], item[p],
                 Retried(a) \cup IF RetryFinds(a) = {} THEN {} ELSE others)
    /\ UNCHANGED <<taken, slotOpen, checkout, trans, click>>

\* return_existing: close the payment and hand back the one found.
RetryReuse(a) ==
    /\ desk[a].op = "retry"
    /\ RetryFinds(a) # {}
    /\ PendingPolicy = "return_existing"
    /\ WriteMeta(a)
    /\ status' = [p \in Payment |-> IF p \in Retried(a) THEN "cancelled"
                                    ELSE status[p]]
    /\ UNCHANGED <<owner, item, txn, granted, worldVars, checkout, trans, click>>

\* The request fails on the way and is rolled back; under the policy "reject"
\* so is a retry that finds an open payment.
DeskRollback(a) ==
    /\ desk[a] # Free
    /\ desk' = [desk EXCEPT ![a] = Free]
    /\ UNCHANGED vars

DeskNext ==
    \/ Next /\ UNCHANGED desk
    \/ \E a \in Admin :
          \/ \E p \in Payment, op \in Ops : DeskLoad(a, p, op)
          \/ Refund(a) \/ Chargeback(a) \/ Note(a)
          \/ Retry(a) \/ RetryReuse(a)
          \/ DeskRollback(a)

DeskSpec == DeskInit /\ [][DeskNext]_allVars

(***************************************************************************)
(* Properties                                                              *)
(***************************************************************************)

\* Whatever the desk overwrites or reopens, an entitlement is handed out only
\* for a payment for which Click took the full price.
GrantedIsBacked ==
    \A p \in Payment : granted[p] > 0 => p \in Backed

\* When Click heard OK for a charge, the customer has what was paid for, even
\* if the desk changed the payment's status before or after.
ConfirmedIsGranted ==
    \A t \in Trans :
        click[t] = "confirmed" /\ item[trans[t].pay] # "account_slot"
            => granted[trans[t].pay] > 0

\* The desk breaks neither promise.
DeskKeepsFaith == GrantedIsBacked /\ ConfirmedIsGranted

\* A payment Click was told is prepared stays prepared while it is pending, so
\* that the charge that follows settles it.
PendingPrepareKept ==
    \A t \in Trans :
        click[t] \in {"prepared", "charged"} /\ status[trans[t].pay] = "pending"
            => prepared[trans[t].pay]

=============================================================================
