--------------------------------- MODULE Plans ---------------------------------
(***************************************************************************)
(* The paid plan of one user (services/subscription.py) and everything     *)
(* that writes it: subscription payments settled by Stripe, Paddle or      *)
(* Multicard, a promo code redeemed with one (services/promo.py), the      *)
(* bonus of a bought number, an admin's grant, the user's own return to    *)
(* basic, and the cron job that downgrades what ran out.                   *)
(*                                                                         *)
(* A transaction is loaded, then (when it fulfils a payment) marks the     *)
(* payment and reads the subscription, then commits.  Stripe and Paddle    *)
(* lock the payment when they load it; Multicard does not, and nobody      *)
(* locks the subscription.  SQLAlchemy writes the columns that differ from *)
(* what the transaction read.                                              *)
(***************************************************************************)
EXTENDS Naturals, FiniteSets

CONSTANTS StripePay, PaddlePay, McPay,  \* subscription payments per provider
          PlanTx,                       \* transactions open at the same time
          NoPay,
          PromoLimit,                   \* max_uses of the promo code
          MaxBought,                    \* bound: checkouts
          MaxLeft,                      \* bound: months left on the plan
          MaxCalls                      \* bound: callbacks, polls, requests and pauses

PlanPay == StripePay \cup PaddlePay \cup McPay

ASSUME PlanAssumption ==
    /\ NoPay \notin PlanPay
    /\ StripePay \cap PaddlePay = {} /\ StripePay \cap McPay = {} /\ PaddlePay \cap McPay = {}
    /\ PromoLimit \in Nat

VARIABLES
    sub,       \* subscriptions: plan, and months until expires_at
    planPay,   \* payments: status, plan bought, whether it has a promo_id
    charged,   \* payments the provider has charged
    reverted,  \* payments the provider has paid back
    applied,   \* how often a payment was fulfilled
    promo,     \* promo_codes: used_count, and live (active and not paused)
    redeemed,  \* payments with a promo_redemptions row
    tx,        \* the open transactions
    calls      \* counter for the bound

plansVars == <<sub, planPay, charged, reverted, applied, promo, redeemed, tx, calls>>

Plan == {"premium", "business"}
Rank(plan) == CASE plan = "basic" -> 0 [] plan = "premium" -> 1 [] OTHER -> 2

BasicSub == [plan |-> "basic", left |-> 0]
NoTx == [kind |-> "none", pay |-> NoPay, step |-> "loaded", seen |-> "absent",
         sub |-> BasicSub]

PlansInit ==
    /\ sub = BasicSub
    /\ planPay = [p \in PlanPay |-> [status |-> "absent", plan |-> "premium",
                                     promo |-> FALSE]]
    /\ charged = {}
    /\ reverted = {}
    /\ applied = [p \in PlanPay |-> 0]
    /\ promo = [used |-> 0, live |-> TRUE]
    /\ redeemed = {}
    /\ tx = [h \in PlanTx |-> NoTx]
    /\ calls = 0

IsPaidStatus(s) == s \in {"paid", "succeeded"}

(***************************************************************************)
(* Checkout, and the provider's side (external)                            *)
(***************************************************************************)

\* validate_promo_for_checkout: nothing is reserved.
PromoOffered == promo.live /\ promo.used < PromoLimit

PlanCheckout(p, plan, withPromo) ==
    /\ planPay[p].status = "absent"
    /\ Cardinality({q \in PlanPay : planPay[q].status # "absent"}) < MaxBought
    /\ withPromo => p \in StripePay /\ PromoOffered
    /\ planPay' = [planPay EXCEPT ![p] = [status |-> "pending", plan |-> plan,
                                          promo |-> withPromo]]
    /\ UNCHANGED <<sub, charged, reverted, applied, promo, redeemed, tx, calls>>

ProviderCharges(p) ==
    /\ planPay[p].status # "absent"
    /\ p \notin charged
    /\ charged' = charged \cup {p}
    /\ UNCHANGED <<sub, planPay, reverted, applied, promo, redeemed, tx, calls>>

ProviderReverts(p) ==
    /\ p \in charged \cap McPay
    /\ p \notin reverted
    /\ reverted' = reverted \cup {p}
    /\ UNCHANGED <<sub, planPay, charged, applied, promo, redeemed, tx, calls>>

\* An admin pauses the promo code, or lets it run again; or valid_until passes.
PromoToggle ==
    /\ calls < MaxCalls
    /\ calls' = calls + 1
    /\ promo' = [promo EXCEPT !.live = ~@]
    /\ UNCHANGED <<sub, planPay, charged, reverted, applied, redeemed, tx>>

\* A month passes; transactions take seconds.
MonthPasses ==
    /\ sub.left > 0
    /\ \A h \in PlanTx : tx[h].kind = "none"
    /\ sub' = [sub EXCEPT !.left = @ - 1]
    /\ UNCHANGED <<planPay, charged, reverted, applied, promo, redeemed, tx, calls>>

(***************************************************************************)
(* Transactions: load                                                      *)
(***************************************************************************)

\* The payment rows some transaction has locked: by FOR UPDATE from the load
\* on, by the write of the status once it is marked.
Locked(p) ==
    \E h \in PlanTx : /\ tx[h].pay = p
                      /\ tx[h].kind = "settle"
                      /\ p \in StripePay \cup PaddlePay \/ tx[h].step = "marked"

Begin(h, kind, p) ==
    /\ tx[h].kind = "none"
    /\ calls < MaxCalls
    /\ calls' = calls + 1
    /\ tx' = [tx EXCEPT ![h] = [kind |-> kind, pay |-> p, step |-> "loaded",
                                seen |-> IF p = NoPay THEN "absent" ELSE planPay[p].status,
                                sub |-> sub]]
    /\ UNCHANGED <<sub, planPay, charged, reverted, applied, promo, redeemed>>

\* Mutated form: the payment is loaded without FOR UPDATE.
StripeCallsUnlocked(h, p) ==
    /\ p \in StripePay \cap charged
    /\ planPay[p].status = "pending"
    /\ Begin(h, "settle", p)

\* handle_stripe_webhook: locked, and pending.
StripeCalls(h, p) ==
    /\ p \in StripePay \cap charged
    /\ ~Locked(p)
    /\ planPay[p].status = "pending"
    /\ Begin(h, "settle", p)

\* Paddle's handle_webhook, transaction.completed: locked, and not paid.
PaddleCalls(h, p) ==
    /\ p \in PaddlePay \cap charged
    /\ ~Locked(p)
    /\ ~IsPaidStatus(planPay[p].status)
    /\ Begin(h, "settle", p)

\* Multicard's handle_callback with status success, first sent or repeated.  A
\* payment already paid is answered and nothing changes.
McSuccess(h, p) ==
    /\ p \in McPay \cap charged
    /\ ~IsPaidStatus(planPay[p].status)
    /\ Begin(h, "settle", p)

\* get_payment by the app: sync_payment_status asks Multicard while pending.
McPoll(h, p) ==
    /\ p \in (McPay \cap charged) \ reverted
    /\ planPay[p].status = "pending"
    /\ Begin(h, "settle", p)

\* An error or cancel callback: of an attempt before the one that was charged,
\* and it may arrive late.  Paddle fails only what is pending.
FailureCalls(h, p) ==
    /\ p \in PaddlePay \cup McPay
    /\ planPay[p].status # "absent"
    /\ IF p \in PaddlePay THEN planPay[p].status = "pending"
       ELSE ~IsPaidStatus(planPay[p].status)
    /\ Begin(h, "fail", p)

\* Multicard's revert or refund callback: marks what is paid.
RevertCalls(h, p) ==
    /\ p \in reverted
    /\ IsPaidStatus(planPay[p].status)
    /\ Begin(h, "refund", p)

\* expire_subscriptions selects the plan when it ran out.
CronLoads(h) ==
    /\ sub.plan # "basic"
    /\ sub.left = 0
    /\ Begin(h, "cron", NoPay)

\* subscribe to basic (an admin's patch to basic writes the same), and a bought
\* number with a bonus plan.
BasicLoads(h) == Begin(h, "basic", NoPay)
BonusLoads(h) == Begin(h, "bonus", NoPay)

\* patch_subscription: an admin grants a paid plan.
PatchLoads(h, plan) == Begin(h, plan, NoPay)

(***************************************************************************)
(* Transactions: mark and commit                                           *)
(***************************************************************************)

\* mark_payment_paid is flushed (and waits for whoever holds the row), then
\* apply_payment reads the subscription.
Mark(h) ==
    /\ tx[h].kind = "settle"
    /\ tx[h].step = "loaded"
    /\ tx[h].pay \in McPay => ~Locked(tx[h].pay)
    /\ tx' = [tx EXCEPT ![h].step = "marked", ![h].sub = sub]
    /\ UNCHANGED <<sub, planPay, charged, reverted, applied, promo, redeemed, calls>>

\* activate_paid_subscription: the same running plan is prolonged, anything
\* else starts now.
Activated(s, plan) ==
    [plan |-> plan, left |-> IF s.plan = plan /\ s.left > 0 THEN s.left + 1 ELSE 1]

\* apply_bonus_subscription with a premium bonus: a lower plan is raised, an
\* equal or higher one prolonged.
Bonus(s) ==
    IF Rank(s.plan) < Rank("premium") THEN [plan |-> "premium", left |-> 1]
    ELSE [s EXCEPT !.left = @ + 1]

\* The row after a commit that read `from` and made `to` of it.
Written(from, to) ==
    [plan |-> IF to.plan = from.plan THEN sub.plan ELSE to.plan,
     left |-> IF to.left = from.left THEN sub.left ELSE to.left]

End(h) == tx' = [tx EXCEPT ![h] = NoTx]

\* Mutated form: the limit is checked at checkout only.
RedeemableUnlimited(p) == promo.live

\* redeem_promo_on_payment, with the row locked: live and not used up.
Redeemable(p) == promo.live /\ promo.used < PromoLimit

\* Mutated form: the payment is marked paid although fulfilment failed.
SettleAnyway(h) ==
    LET p == tx[h].pay IN
    /\ tx[h].kind = "settle"
    /\ tx[h].step = "marked"
    /\ planPay' = [planPay EXCEPT ![p].status =
          IF p \in StripePay THEN "succeeded" ELSE "paid"]
    /\ IF planPay[p].promo /\ ~Redeemable(p)
       THEN UNCHANGED <<sub, applied, promo, redeemed>>
       ELSE /\ sub' = Written(tx[h].sub, Activated(tx[h].sub, planPay[p].plan))
            /\ applied' = [applied EXCEPT ![p] = @ + 1]
            /\ UNCHANGED <<promo, redeemed>>
    /\ sub'.left <= MaxLeft
    /\ End(h)
    /\ UNCHANGED <<charged, reverted, calls>>

\* The payment succeeds: the plan is activated and the promo code redeemed.
Settle(h) ==
    LET p == tx[h].pay IN
    /\ tx[h].kind = "settle"
    /\ tx[h].step = "marked"
    /\ planPay[p].promo => Redeemable(p)
    /\ planPay' = [planPay EXCEPT ![p].status =
          IF p \in StripePay THEN "succeeded" ELSE "paid"]
    /\ sub' = Written(tx[h].sub, Activated(tx[h].sub, planPay[p].plan))
    /\ sub'.left <= MaxLeft
    /\ applied' = [applied EXCEPT ![p] = @ + 1]
    /\ IF planPay[p].promo
       THEN /\ promo' = [promo EXCEPT !.used = @ + 1]
            /\ redeemed' = redeemed \cup {p}
       ELSE UNCHANGED <<promo, redeemed>>
    /\ End(h)
    /\ UNCHANGED <<charged, reverted, calls>>

\* An error answer rolls everything back: a promo code that cannot be redeemed
\* any more, or any failure on the way.
RollBack(h) ==
    /\ tx[h].kind # "none"
    /\ End(h)
    /\ UNCHANGED <<sub, planPay, charged, reverted, applied, promo, redeemed, calls>>

\* The status columns written by a failure, a cancel or a refund: what was read
\* decided, the row may have changed since.
Record(h) ==
    /\ tx[h].kind \in {"fail", "refund"}
    /\ ~Locked(tx[h].pay)
    /\ planPay' = [planPay EXCEPT ![tx[h].pay].status =
          IF tx[h].kind = "refund" THEN "refunded"
          ELSE IF tx[h].seen = "failed" THEN @ ELSE "failed"]
    /\ End(h)
    /\ UNCHANGED <<sub, charged, reverted, applied, promo, redeemed, calls>>

\* A grant keeps what is left, or starts a month.
Granted(s, plan) == [plan |-> plan, left |-> IF s.left > 0 THEN s.left ELSE 1]

\* The writes of the cron job, of subscribe("basic"), of a bonus and of a grant.
Rewrite(h) ==
    /\ tx[h].kind \in {"cron", "basic", "bonus"} \cup Plan
    /\ sub' = Written(tx[h].sub, CASE tx[h].kind = "bonus" -> Bonus(tx[h].sub)
                                   [] tx[h].kind \in Plan -> Granted(tx[h].sub, tx[h].kind)
                                   [] OTHER -> BasicSub)
    /\ sub'.left <= MaxLeft
    /\ End(h)
    /\ UNCHANGED <<planPay, charged, reverted, applied, promo, redeemed, calls>>

PlansNext ==
    \/ \E p \in PlanPay, plan \in Plan, withPromo \in BOOLEAN : PlanCheckout(p, plan, withPromo)
    \/ \E p \in PlanPay : ProviderCharges(p)
    \/ \E p \in PlanPay : ProviderReverts(p)
    \/ PromoToggle
    \/ MonthPasses
    \/ \E h \in PlanTx, p \in PlanPay : StripeCalls(h, p)
    \/ \E h \in PlanTx, p \in PlanPay : PaddleCalls(h, p)
    \/ \E h \in PlanTx, p \in PlanPay : McSuccess(h, p)
    \/ \E h \in PlanTx, p \in PlanPay : McPoll(h, p)
    \/ \E h \in PlanTx, p \in PlanPay : FailureCalls(h, p)
    \/ \E h \in PlanTx, p \in PlanPay : RevertCalls(h, p)
    \/ \E h \in PlanTx : CronLoads(h)
    \/ \E h \in PlanTx : BasicLoads(h)
    \/ \E h \in PlanTx : BonusLoads(h)
    \/ \E h \in PlanTx, plan \in Plan : PatchLoads(h, plan)
    \/ \E h \in PlanTx : Mark(h)
    \/ \E h \in PlanTx : Settle(h)
    \/ \E h \in PlanTx : RollBack(h)
    \/ \E h \in PlanTx : Record(h)
    \/ \E h \in PlanTx : Rewrite(h)

PlansSpec == PlansInit /\ [][PlansNext]_plansVars

(***************************************************************************)
(* Properties                                                              *)
(***************************************************************************)

PlansTypeOK ==
    /\ sub \in [plan : Plan \cup {"basic"}, left : Nat]
    /\ planPay \in [PlanPay -> [status : {"absent", "pending", "paid", "succeeded",
                                          "failed", "refunded"},
                                plan : Plan, promo : BOOLEAN]]
    /\ charged \subseteq PlanPay /\ reverted \subseteq charged
    /\ applied \in [PlanPay -> Nat]
    /\ promo \in [used : Nat, live : BOOLEAN]
    /\ redeemed \subseteq PlanPay

\* However many discounted checkouts are open and however their webhooks
\* overlap, the code is redeemed at most max_uses times, and used_count counts
\* the redemptions.
PromoWithinLimit ==
    /\ promo.used = Cardinality(redeemed)
    /\ promo.used <= PromoLimit

\* A payment shown as paid gave its plan, and one charged by nobody gave
\* nothing: the mark and the fulfilment commit together.  Where the payment is
\* locked a repeated webhook gives the plan once.
PaidIsApplied ==
    \A p \in PlanPay : /\ IsPaidStatus(planPay[p].status) => applied[p] > 0
                       /\ applied[p] > 0 => p \in charged
                       /\ p \in StripePay => applied[p] <= 1
================================================================================
