--------------------------- MODULE ClickPayments ---------------------------
(***************************************************************************)
(* The Click payment path of the AnyLang backend: the checkout that opens  *)
(* a payment (payments/service.py, services/payments.py) and the Prepare / *)
(* Complete webhooks that settle it (payments/click.py).                   *)
(*                                                                         *)
(* Every webhook locks the payment row (SELECT ... FOR UPDATE) and commits *)
(* at its end, so one webhook is one step here; a webhook that raises is   *)
(* rolled back as a whole (db/session.py, get_db) and is a stuttering      *)
(* step.  A subscription checkout looks for an open payment without a lock *)
(* and inserts its own later: two steps, which interleave.                 *)
(*                                                                         *)
(* Click itself is external.  It may repeat and delay its calls, lose our  *)
(* answers, and let a customer open one checkout URL twice; it charges a   *)
(* customer only after an OK to Prepare and sends a successful Complete    *)
(* only for a charge.  Signature, service-id and unknown-payment failures  *)
(* answer without touching the database and are left out.                  *)
(***************************************************************************)
EXTENDS Naturals

CONSTANTS
    Payment,        \* payment rows that may be created (bounds the checkouts)
    User,           \* customers
    Offer,          \* (plan, billing cycle) pairs on sale
    Trans,          \* Click transactions (click_trans_id)
    Session,        \* concurrent subscription-checkout requests
    PendingPolicy   \* settings.payment_pending_policy

Policies == {"cancel_and_recreate", "return_existing", "reject"}

\* What a payment buys: a subscription offer, a number, or an account slot.
Item == Offer \cup {"number", "account_slot"}

None == "none"

ASSUME PolicyAssumption == PendingPolicy \in Policies
ASSUME OfferAssumption == Offer \cap {"number", "account_slot", None} = {}
ASSUME NoneAssumption == None \notin Payment \cup User \cup Trans

VARIABLES
    status,     \* payment.status ("absent" before the row exists)
    owner,      \* payment.user_id
    item,       \* payment.kind with its plan and cycle
    prepared,   \* meta["click_prepare_id"] is set
    txn,        \* payment.provider_transaction_id
    granted,    \* how often the payment's entitlement was handed out
    recent,     \* payments created within the last 30 minutes
    taken,      \* number payments whose number another user owns meanwhile
    slotOpen,   \* users to whom an account slot can still be sold
    checkout,   \* subscription-checkout requests in flight
    trans,      \* Click transactions: which payment, whether the full amount
    click       \* what Click knows of each transaction

payVars == <<status, owner, item, prepared, txn, granted>>
worldVars == <<recent, taken, slotOpen>>
vars == <<status, owner, item, prepared, txn, granted, recent, taken,
          slotOpen, checkout, trans, click>>

Status == {"absent", "pending", "paid", "failed", "cancelled", "refunded",
           "chargeback"}
ClickState == {"idle", "preparing", "refused", "prepared", "charged",
               "cancelled", "failed", "confirmed", "reversed"}

\* A checkout request: the open payment it found, and whether that payment was
\* already prepared when the request loaded it.
Idle == [step |-> "idle", user |-> None, offer |-> None,
         existing |-> None, seen |-> FALSE]

Init ==
    /\ status = [p \in Payment |-> "absent"]
    /\ owner = [p \in Payment |-> None]
    /\ item = [p \in Payment |-> None]
    /\ prepared = [p \in Payment |-> FALSE]
    /\ txn = [p \in Payment |-> None]
    /\ granted = [p \in Payment |-> 0]
    /\ recent = {}
    /\ taken = {}
    /\ slotOpen = User
    /\ checkout = [s \in Session |-> Idle]
    /\ trans = [t \in Trans |-> [pay |-> None, full |-> FALSE]]
    /\ click = [t \in Trans |-> "idle"]

(***************************************************************************)
(* Checkout                                                                *)
(***************************************************************************)

\* The open click payments a subscription checkout looks at.
RecentPending(u, o) ==
    {p \in recent : status[p] = "pending" /\ owner[p] = u /\ item[p] = o}

\* The payments cancel_and_recreate closes: every open subscription payment of
\* the user, whatever its plan and age, unless Click already prepared it.  The
\* query locks the rows and reads their status afresh, but the payment the same
\* session loaded before keeps the meta it had then (no populate_existing).
Superseded(c) ==
    {p \in Payment : /\ status[p] = "pending"
                     /\ owner[p] = c.user
                     /\ item[p] \in Offer
                     /\ ~(IF p = c.existing THEN c.seen ELSE prepared[p])
                     /\ txn[p] = None}

\* The state of the payments table after inserting p for u and closing `closed`.
Insert(p, u, i, closed) ==
    /\ status[p] = "absent"
    /\ status' = [q \in Payment |-> IF q = p THEN "pending"
                                    ELSE IF q \in closed THEN "cancelled"
                                    ELSE status[q]]
    /\ owner' = [owner EXCEPT ![p] = u]
    /\ item' = [item EXCEPT ![p] = i]
    /\ recent' = recent \cup {p}
    /\ UNCHANGED <<txn, granted>>

\* create_subscription_checkout up to its unlocked look for an open payment
\* (the newest one in the code, any one here).
CheckoutLook(s, u, o) ==
    /\ checkout[s].step = "idle"
    /\ \E e \in IF RecentPending(u, o) = {} THEN {None} ELSE RecentPending(u, o) :
          checkout' = [checkout EXCEPT ![s] =
              [step |-> "looked", user |-> u, offer |-> o, existing |-> e,
               seen |-> e # None /\ prepared[e]]]
    /\ UNCHANGED <<payVars, worldVars, trans, click>>

\* An open payment was found and the policy is to refuse or to hand it back.
CheckoutReuse(s) ==
    /\ checkout[s].step = "looked"
    /\ checkout' = [checkout EXCEPT ![s] = Idle]
    /\ UNCHANGED <<payVars, worldVars, trans, click>>

\* The rest of the checkout: close the old payments if one was found, insert.
CheckoutCreate(s) ==
    LET c == checkout[s] IN
    /\ c.step = "looked"
    /\ \E p \in Payment :
          Insert(p, c.user, c.offer,
                 IF c.existing = None THEN {} ELSE Superseded(c))
    /\ checkout' = [checkout EXCEPT ![s] = Idle]
    /\ UNCHANGED <<prepared, taken, slotOpen, trans, click>>

\* What the policy makes of the payment that was found.
CheckoutGoesOn(s) ==
    IF checkout[s].existing = None \/ PendingPolicy = "cancel_and_recreate"
    THEN CheckoutCreate(s)
    ELSE CheckoutReuse(s)

\* create_checkout for the kinds without a pending policy.  An account slot is
\* sold only to a user who may still buy one.
CheckoutItem(u, i) ==
    /\ i = "account_slot" => u \in slotOpen
    /\ \E p \in Payment : Insert(p, u, i, {})
    /\ UNCHANGED <<prepared, taken, slotOpen, checkout, trans, click>>

(***************************************************************************)
(* The world around the payment: time, other buyers, the owner's plan      *)
(***************************************************************************)

\* Thirty minutes pass for p.
Age(p) ==
    /\ p \in recent
    /\ recent' = recent \ {p}
    /\ UNCHANGED <<payVars, taken, slotOpen, checkout, trans, click>>

\* The 45-minute reservation behind p ran out and another user got the number.
NumberLost(p) ==
    /\ item[p] = "number"
    /\ granted[p] = 0
    /\ p \notin taken
    /\ taken' = taken \cup {p}
    /\ UNCHANGED <<payVars, recent, slotOpen, checkout, trans, click>>

\* The user's business plan lapses, or the ten-account cap is reached.
SlotsClose(u) ==
    /\ u \in slotOpen
    /\ slotOpen' = slotOpen \ {u}
    /\ UNCHANGED <<payVars, recent, taken, checkout, trans, click>>

(***************************************************************************)
(* Click's own steps (external)                                            *)
(***************************************************************************)

\* A customer opens the checkout URL of p; the amount in the URL is the
\* browser's to change.
OpenUrl(t, p, full) ==
    /\ click[t] = "idle"
    /\ status[p] # "absent"
    /\ trans' = [trans EXCEPT ![t] = [pay |-> p, full |-> full]]
    /\ click' = [click EXCEPT ![t] = "preparing"]
    /\ UNCHANGED <<payVars, worldVars, checkout>>

\* Prepare was answered OK: Click charges the customer ...
Charge(t) ==
    /\ click[t] = "prepared"
    /\ click' = [click EXCEPT ![t] = "charged"]
    /\ UNCHANGED <<payVars, worldVars, checkout, trans>>

\* ... or gives up: cancelled (-9) or any other negative error.
GiveUp(t, e) ==
    /\ click[t] = "prepared"
    /\ click' = [click EXCEPT ![t] = e]
    /\ UNCHANGED <<payVars, worldVars, checkout, trans>>

\* The call was answered; Click hears it, or the answer is lost, or the call
\* was a repeat Click does not wait for.
Heard(t, waiting, verdict) ==
    \/ UNCHANGED click
    \/ click[t] = waiting /\ click' = [click EXCEPT ![t] = verdict]

(***************************************************************************)
(* Prepare                                                                 *)
(***************************************************************************)

\* Mutated form: a cancelled payment passes for a paid one.
IsPaidLoose(s) == s \in {"paid", "succeeded", "cancelled"}

IsPaid(s) == s \in {"paid", "succeeded"}

PrepareOk(t) ==
    /\ status[trans[t].pay] = "pending"
    /\ trans[t].full

\* Mutated form: the changed meta is not saved.
PrepareUnsaved(t) ==
    /\ click[t] # "idle"
    /\ PrepareOk(t)
    /\ Heard(t, "preparing", "prepared")
    /\ UNCHANGED <<payVars, worldVars, checkout, trans>>

\* handle_prepare answering OK: the payment is marked prepared.
PrepareAccept(t) ==
    /\ click[t] # "idle"
    /\ PrepareOk(t)
    /\ prepared' = [prepared EXCEPT ![trans[t].pay] = TRUE]
    /\ Heard(t, "preparing", "prepared")
    /\ UNCHANGED <<status, owner, item, txn, granted, worldVars, checkout, trans>>

\* handle_prepare answering ALREADY_PAID, REQUEST_ERROR or BAD_AMOUNT.
PrepareRefuse(t) ==
    /\ click[t] = "preparing"
    /\ ~PrepareOk(t)
    /\ click' = [click EXCEPT ![t] = "refused"]
    /\ UNCHANGED <<payVars, worldVars, checkout, trans>>

(***************************************************************************)
(* Complete                                                                *)
(***************************************************************************)

\* Mutated form: the error field of a Complete is not looked at.
AnySent(t) == click[t] \in {"charged", "confirmed", "reversed", "cancelled", "failed"}

\* A Complete call Click may have sent for t: a success or an error report.
SuccessSent(t) == click[t] \in {"charged", "confirmed", "reversed"}
ErrorSent(t) == click[t] \in {"cancelled", "failed"}

\* Mutated forms: no idempotence, no recovery, a failed payment revived.
CompletableTwice(p) == prepared[p] /\ status[p] \in {"pending", "cancelled", "paid"}
CompletableOpen(p) == prepared[p] /\ status[p] = "pending"
CompletableFailed(p) == prepared[p] /\ status[p] \in {"pending", "cancelled", "failed"}

\* Prepare must have passed, and the status must still allow a settlement: a
\* payment cancelled after Prepare is recovered.
Completable(p) == prepared[p] /\ status[p] \in {"pending", "cancelled"}

\* Mutated form: every kind is skipped for an owner without the business plan.
FulfilmentSkipsAny(p) == owner[p] \notin slotOpen

\* What handing out the entitlement does: assign_purchased_number raises when
\* the number is taken; an account slot is skipped when none can be sold.
FulfilmentRaises(p) == item[p] = "number" /\ p \in taken
FulfilmentSkips(p) == item[p] = "account_slot" /\ owner[p] \notin slotOpen

\* Click's -9 cancels the payment, any other error fails it.
StatusOfError(e) == IF e = "cancelled" THEN "cancelled" ELSE "failed"

\* Mutated form: only the transaction that paid gets the idempotent answer.
CompleteRepeatStrict(t) ==
    /\ click[t] = "charged"
    /\ IsPaid(status[trans[t].pay])
    /\ txn[trans[t].pay] = t
    /\ click' = [click EXCEPT ![t] = "confirmed"]
    /\ UNCHANGED <<payVars, worldVars, checkout, trans>>

\* "Idempotent success": the payment is already paid, the answer is OK.
CompleteRepeat(t) ==
    /\ click[t] = "charged"
    /\ IsPaid(status[trans[t].pay])
    /\ click' = [click EXCEPT ![t] = "confirmed"]
    /\ UNCHANGED <<payVars, worldVars, checkout, trans>>

\* Not prepared, wrong status, or wrong amount: an error, and Click reverses.
CompleteRefuse(t) ==
    /\ click[t] = "charged"
    /\ ~IsPaid(status[trans[t].pay])
    /\ ~Completable(trans[t].pay) \/ ~trans[t].full
    /\ click' = [click EXCEPT ![t] = "reversed"]
    /\ UNCHANGED <<payVars, worldVars, checkout, trans>>

\* Click reports that it gave the payment up.
CompleteError(t) ==
    LET p == trans[t].pay IN
    /\ ErrorSent(t)
    /\ Completable(p)
    /\ status' = [status EXCEPT ![p] = StatusOfError(click[t])]
    /\ UNCHANGED <<owner, item, prepared, txn, granted, worldVars, checkout,
                   trans, click>>

\* The settlement: mark the payment paid and hand out its entitlement, in one
\* transaction.
CompleteSettle(t) ==
    LET p == trans[t].pay IN
    /\ SuccessSent(t)
    /\ Completable(p)
    /\ trans[t].full
    /\ ~FulfilmentRaises(p)
    /\ status' = [status EXCEPT ![p] = "paid"]
    /\ txn' = [txn EXCEPT ![p] = t]
    /\ granted' = [granted EXCEPT ![p] = IF FulfilmentSkips(p) THEN @ ELSE @ + 1]
    /\ Heard(t, "charged", "confirmed")
    /\ UNCHANGED <<owner, item, prepared, worldVars, checkout, trans>>

(***************************************************************************)
(* Specification                                                           *)
(***************************************************************************)

Next ==
    \/ \E s \in Session :
          \/ \E u \in User, o \in Offer : CheckoutLook(s, u, o)
          \/ CheckoutGoesOn(s)
    \/ \E u \in User, i \in {"number", "account_slot"} : CheckoutItem(u, i)
    \/ \E p \in Payment : Age(p) \/ NumberLost(p)
    \/ \E u \in User : SlotsClose(u)
    \/ \E t \in Trans :
          \/ \E p \in Payment, full \in BOOLEAN : OpenUrl(t, p, full)
          \/ Charge(t)
          \/ \E e \in {"cancelled", "failed"} : GiveUp(t, e)
          \/ PrepareAccept(t) \/ PrepareRefuse(t)
          \/ CompleteRepeat(t) \/ CompleteRefuse(t)
          \/ CompleteError(t) \/ CompleteSettle(t)

Spec == Init /\ [][Next]_vars

\* Click repeats a Complete until it gets an answer.
ClickRetries(t) ==
    \/ CompleteRepeat(t)
    \/ CompleteRefuse(t)
    \/ CompleteSettle(t) /\ click'[t] # "charged"

FairSpec == Spec /\ \A t \in Trans : WF_vars(ClickRetries(t))

(***************************************************************************)
(* Properties                                                              *)
(***************************************************************************)

\* Type correctness of the payments table, the requests and Click's view.
TypeOK ==
    /\ status \in [Payment -> Status]
    /\ owner \in [Payment -> User \cup {None}]
    /\ item \in [Payment -> Item \cup {None}]
    /\ prepared \in [Payment -> BOOLEAN]
    /\ txn \in [Payment -> Trans \cup {None}]
    /\ granted \in [Payment -> Nat]
    /\ recent \subseteq Payment
    /\ taken \subseteq Payment
    /\ slotOpen \subseteq User
    /\ checkout \in [Session -> {Idle} \cup
            [step : {"looked"}, user : User, offer : Offer,
             existing : Payment \cup {None}, seen : BOOLEAN]]
    /\ trans \in [Trans -> [pay : Payment \cup {None}, full : BOOLEAN]]
    /\ click \in [Trans -> ClickState]

\* Click took the customer's money in t (a reversal may follow).
Charged(t) == click[t] \in {"charged", "confirmed", "reversed"}

\* A paid payment names, in provider_transaction_id, a Click transaction of its
\* own that charged the customer the full price: no call of Click, repeated,
\* late or reporting an error, settles a payment nobody paid.
PaidIsBacked ==
    \A p \in Payment : status[p] = "paid" =>
        /\ txn[p] \in Trans
        /\ trans[txn[p]] = [pay |-> p, full |-> TRUE]
        /\ Charged(txn[p])

\* handle_complete hands an entitlement out at most once per payment, however
\* often Click repeats Complete and however many transactions the customer has
\* opened on the checkout URL.
GrantedAtMostOnce == \A p \in Payment : granted[p] <= 1

\* Marking a payment paid and handing out what it bought commit together; the
\* one exception is an account slot that can no longer be sold.
SettledTogether ==
    \A p \in Payment :
        /\ granted[p] > 0 => status[p] = "paid"
        /\ status[p] = "paid" /\ item[p] # "account_slot" => granted[p] > 0

\* When Click hears OK to a Complete, the payment is paid, whichever of the
\* customer's transactions the answer was for.
ConfirmedIsPaid ==
    \A t \in Trans : click[t] = "confirmed" => status[trans[t].pay] = "paid"

\* A charge is refused (and reversed by Click) only when another transaction on
\* the same payment reported a failure: neither a newer checkout that cancels
\* the payment, nor a lost or repeated call, costs a customer a charge.
RefusalJustified ==
    \A t \in Trans : click[t] = "reversed" =>
        \E r \in Trans : trans[r].pay = trans[t].pay /\ click[r] = "failed"

\* Where the pending policy hands back or refuses, no checkout, however it
\* interleaves with others and with webhooks, closes a payment: one is cancelled
\* only because Click reported that the customer gave it up.
CancelledByClick ==
    PendingPolicy # "cancel_and_recreate" =>
        \A p \in Payment : status[p] = "cancelled" =>
            \E t \in Trans : trans[t].pay = p /\ click[t] = "cancelled"

\* Once Click heard OK to a Prepare, the payment stays prepared until the charge
\* is answered: what Complete and the pending policy both rely on.
PrepareKept ==
    \A t \in Trans : click[t] \in {"prepared", "charged"} => prepared[trans[t].pay]

\* The contract this path implements.  A payment cancelled after Prepare is
\* still open: Complete recovers it.
Phase(p) ==
    CASE status[p] = "absent" -> "none"
      [] status[p] = "paid" -> "settled"
      [] status[p] = "pending" \/ (status[p] = "cancelled" /\ prepared[p]) -> "open"
      [] OTHER -> "closed"

Backed == {p \in Payment :
            \E t \in Trans : trans[t] = [pay |-> p, full |-> TRUE] /\ Charged(t)}

Contract == INSTANCE PaymentContract WITH
    phase <- [p \in Payment |-> Phase(p)],
    backed <- Backed

ImplementsContract == Contract!Spec

\* Every charge is answered in the end, OK or with an error that makes Click
\* reverse it, since Click repeats a Complete until it hears an answer.  A
\* number lost to another buyer is the exception: its Complete raises each time.
ChargeAnswered ==
    \A t \in Trans :
        (click[t] = "charged" /\ trans[t].pay \notin taken)
            ~> (click[t] # "charged" \/ trans[t].pay \in taken)

=============================================================================
