------------------------ MODULE ClickPaymentsProofs ------------------------
(***************************************************************************)
(* Theorems of ClickPayments, for any number of payments, customers,       *)
(* offers, Click transactions and checkout requests and for each pending   *)
(* policy; the last section is about ClickAdmin, the payment desk beside   *)
(* that path, for any number of admins as well.                            *)
(***************************************************************************)
EXTENDS ClickAdmin, TLAPS

USE DEF Status, ClickState

(***************************************************************************)
(* Type correctness                                                        *)
(***************************************************************************)

\* A payment row as checkout inserts it keeps the table well typed.
LEMMA InsertType ==
    ASSUME TypeOK, NEW p \in Payment, NEW u \in User, NEW i \in Item,
           NEW closed, Insert(p, u, i, closed)
    PROVE  /\ status' \in [Payment -> Status]
           /\ owner' \in [Payment -> User \cup {None}]
           /\ item' \in [Payment -> Item \cup {None}]
           /\ txn' \in [Payment -> Trans \cup {None}]
           /\ granted' \in [Payment -> Nat]
           /\ recent' \subseteq Payment
  BY DEF TypeOK, Insert

\* Every step of the checkout and the webhooks keeps the types.
LEMMA TypeNext == TypeOK /\ [Next]_vars => TypeOK'
<1> SUFFICES ASSUME TypeOK, [Next]_vars PROVE TypeOK'
  OBVIOUS
<1>1. ASSUME NEW s \in Session, NEW u \in User, NEW o \in Offer, CheckoutLook(s, u, o)
      PROVE  TypeOK'
  <2>1. PICK e \in Payment \cup {None} :
           checkout' = [checkout EXCEPT ![s] =
            [step |-> "looked", user |-> u, offer |-> o, existing |-> e,
             seen |-> e # None /\ prepared[e]]]
    BY <1>1 DEF CheckoutLook, RecentPending, TypeOK
  <2>2. (e # None /\ prepared[e]) \in BOOLEAN
    OBVIOUS
  <2> QED BY <1>1, <2>1, <2>2 DEF CheckoutLook, TypeOK, payVars, worldVars
<1>2. ASSUME NEW s \in Session, CheckoutReuse(s) PROVE TypeOK'
  BY <1>2 DEF CheckoutReuse, TypeOK, payVars, worldVars
<1>3. ASSUME NEW s \in Session, CheckoutCreate(s) PROVE TypeOK'
  <2>1. /\ checkout[s].user \in User
        /\ checkout[s].offer \in Item
    BY <1>3 DEF CheckoutCreate, TypeOK, Idle, Item
  <2>2. PICK p \in Payment, closed \in SUBSET Payment :
           Insert(p, checkout[s].user, checkout[s].offer, closed)
    BY <1>3 DEF CheckoutCreate, Superseded
  <2>3. /\ status' \in [Payment -> Status]
        /\ owner' \in [Payment -> User \cup {None}]
        /\ item' \in [Payment -> Item \cup {None}]
        /\ txn' \in [Payment -> Trans \cup {None}]
        /\ granted' \in [Payment -> Nat]
        /\ recent' \subseteq Payment
    BY <2>1, <2>2, InsertType
  <2> QED BY <1>3, <2>3 DEF CheckoutCreate, TypeOK
<1>4. ASSUME NEW u \in User, NEW i \in {"number", "account_slot"}, CheckoutItem(u, i)
      PROVE  TypeOK'
  <2>1. i \in Item
    BY DEF Item
  <2>2. PICK p \in Payment : Insert(p, u, i, {})
    BY <1>4 DEF CheckoutItem
  <2>3. /\ status' \in [Payment -> Status]
        /\ owner' \in [Payment -> User \cup {None}]
        /\ item' \in [Payment -> Item \cup {None}]
        /\ txn' \in [Payment -> Trans \cup {None}]
        /\ granted' \in [Payment -> Nat]
        /\ recent' \subseteq Payment
    BY <2>1, <2>2, InsertType
  <2> QED BY <1>4, <2>3 DEF CheckoutItem, TypeOK
<1>5. ASSUME NEW p \in Payment, Age(p) \/ NumberLost(p) PROVE TypeOK'
  BY <1>5 DEF Age, NumberLost, TypeOK, payVars
<1>6. ASSUME NEW u \in User, SlotsClose(u) PROVE TypeOK'
  BY <1>6 DEF SlotsClose, TypeOK, payVars
<1>7. ASSUME NEW t \in Trans, NEW p \in Payment, NEW full \in BOOLEAN, OpenUrl(t, p, full)
      PROVE  TypeOK'
  BY <1>7 DEF OpenUrl, TypeOK, payVars, worldVars
<1>8. ASSUME NEW t \in Trans, NEW e \in {"cancelled", "failed"}, Charge(t) \/ GiveUp(t, e)
      PROVE  TypeOK'
  BY <1>8 DEF Charge, GiveUp, TypeOK, payVars, worldVars
<1>9. ASSUME NEW t \in Trans, PrepareAccept(t) \/ PrepareRefuse(t) PROVE TypeOK'
  BY <1>9 DEF PrepareAccept, PrepareRefuse, Heard, TypeOK, payVars, worldVars
<1>10. ASSUME NEW t \in Trans, CompleteRepeat(t) \/ CompleteRefuse(t) PROVE TypeOK'
  BY <1>10 DEF CompleteRepeat, CompleteRefuse, TypeOK, payVars, worldVars
<1>11. ASSUME NEW t \in Trans, CompleteError(t) PROVE TypeOK'
  BY <1>11 DEF CompleteError, StatusOfError, TypeOK, worldVars
<1>12. ASSUME NEW t \in Trans, CompleteSettle(t) PROVE TypeOK'
  <2> DEFINE q == trans[t].pay
             n == IF FulfilmentSkips(q) THEN granted[q] ELSE granted[q] + 1
  <2>1. /\ status' = [status EXCEPT ![q] = "paid"]
        /\ txn' = [txn EXCEPT ![q] = t]
        /\ granted' = [granted EXCEPT ![q] = n]
    BY <1>12 DEF CompleteSettle
  <2>2. granted' \in [Payment -> Nat]
    <3>1. CASE q \in Payment
      BY <3>1, <2>1 DEF TypeOK
    <3>2. CASE q \notin Payment
      BY <3>2, <2>1 DEF TypeOK
    <3> QED BY <3>1, <3>2
  <2>3. click' \in [Trans -> ClickState]
    BY <1>12 DEF CompleteSettle, Heard, TypeOK
  <2> HIDE DEF q, n
  <2> QED BY <1>12, <2>1, <2>2, <2>3 DEF CompleteSettle, TypeOK, worldVars
<1>13. CASE UNCHANGED vars
  BY <1>13 DEF vars, TypeOK
<1> QED
  BY <1>1, <1>2, <1>3, <1>4, <1>5, <1>6, <1>7, <1>8, <1>9, <1>10, <1>11,
     <1>12, <1>13 DEF Next, CheckoutGoesOn

\* The tables, the requests in flight and Click's view keep their types (TypeOK):
\* no webhook or checkout leaves a status the code does not know.
THEOREM TypeCorrect == Spec => []TypeOK
<1>1. Init => TypeOK
  BY DEF Init, TypeOK
<1> QED BY <1>1, TypeNext, PTL DEF Spec

(***************************************************************************)
(* The inductive invariant.  TypeOK is taken from TypeCorrect.             *)
(***************************************************************************)

\* A transaction Click has started points at an existing payment.
Linked ==
    \A t \in Trans : click[t] # "idle" =>
        trans[t].pay \in Payment /\ status[trans[t].pay] # "absent"

\* Click goes past Prepare only for the full price.
FullPrice ==
    \A t \in Trans : click[t] \notin {"idle", "preparing", "refused"} => trans[t].full

\* The statuses this path writes, and why a payment is failed.
Reached ==
    \A p \in Payment :
        /\ status[p] \in {"absent", "pending", "paid", "failed", "cancelled"}
        /\ status[p] = "failed" =>
              \E r \in Trans : trans[r].pay = p /\ click[r] = "failed"

\* GrantedAtMostOnce and SettledTogether, with the count pinned down.
GrantExact ==
    \A p \in Payment :
        /\ granted[p] = 0 \/ granted[p] = 1
        /\ granted[p] = 1 => status[p] = "paid"
        /\ status[p] = "paid" /\ item[p] # "account_slot" => granted[p] = 1

IInv == /\ Linked
        /\ FullPrice
        /\ Reached
        /\ GrantExact
        /\ PrepareKept
        /\ PaidIsBacked
        /\ ConfirmedIsPaid
        /\ RefusalJustified

\* A checkout inserting p disturbs no transaction Click has started: it only
\* turns absent into pending and pending into cancelled.
LEMMA InsertKeepsIInv ==
    ASSUME TypeOK, IInv, NEW p \in Payment, NEW u, NEW i,
           NEW closed \in SUBSET {q \in Payment : status[q] = "pending"},
           Insert(p, u, i, closed), UNCHANGED <<prepared, trans, click>>
    PROVE  IInv'
<1>1. \A q \in Payment :
         /\ q = p => status[q] = "absent" /\ status'[q] = "pending"
         /\ q \in closed => status[q] = "pending" /\ status'[q] = "cancelled"
         /\ q # p /\ q \notin closed => status'[q] = status[q] /\ item'[q] = item[q]
  BY DEF Insert, TypeOK
<1>2. /\ txn' = txn /\ granted' = granted /\ prepared' = prepared
      /\ trans' = trans /\ click' = click
  BY DEF Insert
<1>3. \A t \in Trans : click[t] # "idle" => trans[t].pay # p
  BY DEF IInv, Linked, Insert
<1>4. Linked'
  BY <1>1, <1>2, <1>3 DEF IInv, Linked
<1>5. FullPrice'
  BY <1>2 DEF IInv, FullPrice
<1>6. Reached'
  BY <1>1, <1>2 DEF IInv, Reached
<1>7. GrantExact'
  BY <1>1, <1>2 DEF IInv, GrantExact
<1>8. PrepareKept' /\ RefusalJustified'
  BY <1>2 DEF IInv, PrepareKept, RefusalJustified
<1>9. PaidIsBacked'
  BY <1>1, <1>2 DEF IInv, PaidIsBacked, Charged
<1>10. ConfirmedIsPaid'
  BY <1>1, <1>2, <1>3 DEF IInv, ConfirmedIsPaid, Linked
<1> QED BY <1>4, <1>5, <1>6, <1>7, <1>8, <1>9, <1>10 DEF IInv

\* A step of Click alone: the payments stay, one transaction moves on.
LEMMA ClickMoveKeepsIInv ==
    ASSUME TypeOK, IInv, NEW t \in Trans, NEW c \in ClickState \ {"idle"},
           click' = [click EXCEPT ![t] = c], UNCHANGED <<payVars, trans>>,
           click[t] # "idle",
           c \notin {"preparing", "refused"} => trans[t].full,
           click[t] = "failed" => c = "failed",
           Charged(t) => c \in {"charged", "confirmed", "reversed"},
           c \in {"prepared", "charged"} => prepared[trans[t].pay],
           c = "confirmed" => status[trans[t].pay] = "paid",
           c = "reversed" => status[trans[t].pay] = "failed"
    PROVE  IInv'
<1> USE DEF payVars
<1>1. \A s \in Trans : click'[s] = IF s = t THEN c ELSE click[s]
  BY DEF TypeOK
<1>2. Linked' /\ FullPrice'
  BY <1>1 DEF IInv, Linked, FullPrice
<1>3. Reached' /\ GrantExact'
  BY <1>1 DEF IInv, Reached, GrantExact
<1>4. PrepareKept' /\ ConfirmedIsPaid'
  BY <1>1 DEF IInv, PrepareKept, ConfirmedIsPaid
<1>5. PaidIsBacked'
  BY <1>1 DEF IInv, PaidIsBacked, Charged
<1>6. RefusalJustified'
  <2> SUFFICES ASSUME NEW s \in Trans, click'[s] = "reversed"
               PROVE  \E r \in Trans : trans[r].pay = trans[s].pay /\ click'[r] = "failed"
    BY DEF RefusalJustified
  <2>1. \E r \in Trans : trans[r].pay = trans[s].pay /\ click[r] = "failed"
    BY <1>1 DEF IInv, RefusalJustified, Reached, Linked
  <2> QED BY <2>1, <1>1
<1> QED BY <1>2, <1>3, <1>4, <1>5, <1>6 DEF IInv

\* Before the first checkout nothing is open or charged.
LEMMA InvInit == Init => IInv
  BY DEF Init, IInv, Linked, FullPrice, Reached, GrantExact, PrepareKept,
         PaidIsBacked, ConfirmedIsPaid, RefusalJustified

\* Every step keeps the invariant: one case per action, and under it one per
\* conjunct the action can disturb.
LEMMA InvNext == TypeOK /\ TypeOK' /\ IInv /\ [Next]_vars => IInv'
<1> SUFFICES ASSUME TypeOK, TypeOK', IInv, [Next]_vars PROVE IInv'
  OBVIOUS
<1> USE DEF payVars, worldVars
<1>1. ASSUME NEW s \in Session,
             \/ \E u \in User, o \in Offer : CheckoutLook(s, u, o)
             \/ CheckoutReuse(s)
      PROVE  IInv'
  BY <1>1 DEF CheckoutLook, CheckoutReuse, IInv, Linked, FullPrice, Reached, GrantExact,
     PrepareKept, PaidIsBacked, ConfirmedIsPaid, RefusalJustified, Charged
<1>2. ASSUME NEW s \in Session, CheckoutCreate(s) PROVE IInv'
  <2>1. PICK p \in Payment, closed \in SUBSET {q \in Payment : status[q] = "pending"} :
           Insert(p, checkout[s].user, checkout[s].offer, closed)
    BY <1>2 DEF CheckoutCreate, Superseded
  <2>2. UNCHANGED <<prepared, trans, click>>
    BY <1>2 DEF CheckoutCreate
  <2> QED BY <2>1, <2>2, InsertKeepsIInv
<1>3. ASSUME NEW u \in User, NEW i \in {"number", "account_slot"}, CheckoutItem(u, i)
      PROVE  IInv'
  <2>1. PICK p \in Payment : Insert(p, u, i, {})
    BY <1>3 DEF CheckoutItem
  <2>2. UNCHANGED <<prepared, trans, click>>
    BY <1>3 DEF CheckoutItem
  <2> QED BY <2>1, <2>2, InsertKeepsIInv
<1>4. ASSUME \/ \E p \in Payment : Age(p) \/ NumberLost(p)
             \/ \E u \in User : SlotsClose(u)
      PROVE  IInv'
  BY <1>4 DEF Age, NumberLost, SlotsClose, IInv, Linked, FullPrice, Reached, GrantExact,
     PrepareKept, PaidIsBacked, ConfirmedIsPaid, RefusalJustified, Charged
<1>5. ASSUME NEW t \in Trans, NEW p \in Payment, NEW full \in BOOLEAN, OpenUrl(t, p, full)
      PROVE  IInv'
  <2>1. /\ \A s \in Trans : s # t => trans'[s] = trans[s] /\ click'[s] = click[s]
        /\ click[t] = "idle" /\ click'[t] = "preparing" /\ trans'[t].pay = p
        /\ status[p] # "absent"
        /\ UNCHANGED payVars
    BY <1>5 DEF OpenUrl, TypeOK
  <2>2. Linked' /\ FullPrice' /\ PrepareKept' /\ ConfirmedIsPaid' /\ GrantExact'
    BY <2>1 DEF IInv, Linked, FullPrice, PrepareKept, ConfirmedIsPaid, GrantExact
  <2>3. Reached'
    BY <2>1 DEF IInv, Reached
  <2>4. PaidIsBacked'
    BY <2>1 DEF IInv, PaidIsBacked, Charged
  <2>5. RefusalJustified'
    BY <2>1 DEF IInv, RefusalJustified
  <2> QED BY <2>2, <2>3, <2>4, <2>5 DEF IInv
<1>6. ASSUME NEW t \in Trans, Charge(t) PROVE IInv'
  BY <1>6, ClickMoveKeepsIInv DEF Charge, IInv, FullPrice, PrepareKept, Charged, ClickState
<1>7. ASSUME NEW t \in Trans, NEW e \in {"cancelled", "failed"}, GiveUp(t, e) PROVE IInv'
  BY <1>7, ClickMoveKeepsIInv DEF GiveUp, IInv, FullPrice, Charged, ClickState
<1>8. ASSUME NEW t \in Trans, PrepareAccept(t) PROVE IInv'
  <2> DEFINE p == trans[t].pay
  <2>1. /\ p \in Payment
        /\ status[p] = "pending"
        /\ trans[t].full
        /\ UNCHANGED <<status, owner, item, txn, granted, trans>>
    BY <1>8 DEF PrepareAccept, PrepareOk, IInv, Linked
  <2>2. prepared'[p] /\ \A q \in Payment : prepared[q] => prepared'[q]
    BY <1>8, <2>1 DEF PrepareAccept, TypeOK
  <2>3. /\ \A s \in Trans : s # t => click'[s] = click[s]
        /\ \/ click'[t] = click[t]
           \/ click[t] = "preparing" /\ click'[t] = "prepared"
        /\ click[t] # "idle"
    BY <1>8 DEF PrepareAccept, Heard, TypeOK
  <2>4. Linked' /\ FullPrice'
    BY <2>1, <2>3 DEF IInv, Linked, FullPrice
  <2>5. Reached'
    BY <2>1, <2>3 DEF IInv, Reached
  <2>6. GrantExact'
    BY <2>1 DEF IInv, GrantExact
  <2>7. PrepareKept'
    BY <2>1, <2>2, <2>3 DEF IInv, PrepareKept, Linked
  <2>8. PaidIsBacked' /\ ConfirmedIsPaid'
    BY <2>1, <2>3 DEF IInv, PaidIsBacked, ConfirmedIsPaid, Charged
  <2>9. RefusalJustified'
    BY <2>1, <2>3 DEF IInv, RefusalJustified
  <2> QED BY <2>4, <2>5, <2>6, <2>7, <2>8, <2>9 DEF IInv
<1>9. ASSUME NEW t \in Trans, PrepareRefuse(t) PROVE IInv'
  BY <1>9, ClickMoveKeepsIInv DEF PrepareRefuse, IInv, Charged, ClickState
<1>10. ASSUME NEW t \in Trans, CompleteRepeat(t) PROVE IInv'
  <2>1. status[trans[t].pay] = "paid"
    BY <1>10 DEF CompleteRepeat, IsPaid, IInv, Linked, Reached
  <2> QED BY <1>10, <2>1, ClickMoveKeepsIInv DEF CompleteRepeat, IInv, FullPrice, Charged, ClickState
<1>11. ASSUME NEW t \in Trans, CompleteRefuse(t) PROVE IInv'
  <2>1. status[trans[t].pay] = "failed"
    BY <1>11 DEF CompleteRefuse, Completable, IsPaid, IInv, Linked, Reached, FullPrice, PrepareKept
  <2> QED BY <1>11, <2>1, ClickMoveKeepsIInv DEF CompleteRefuse, IInv, FullPrice, Charged, ClickState
<1>12. ASSUME NEW t \in Trans, CompleteError(t) PROVE IInv'
  <2> DEFINE p == trans[t].pay
  <2>1. /\ p \in Payment
        /\ status[p] \in {"pending", "cancelled"}
        /\ click[t] \in {"cancelled", "failed"}
        /\ UNCHANGED <<owner, item, prepared, txn, granted, trans, click>>
    BY <1>12 DEF CompleteError, Completable, ErrorSent, IInv, Linked
  <2>2. /\ \A q \in Payment : q # p => status'[q] = status[q]
        /\ status'[p] \in {"cancelled", "failed"}
        /\ status'[p] = "failed" => click[t] = "failed"
    BY <1>12, <2>1 DEF CompleteError, StatusOfError, TypeOK
  <2>3. Linked' /\ FullPrice' /\ PrepareKept' /\ RefusalJustified'
    BY <2>1, <2>2 DEF IInv, Linked, FullPrice, PrepareKept, RefusalJustified
  <2>4. Reached'
    BY <2>1, <2>2 DEF IInv, Reached
  <2>5. GrantExact'
    BY <2>1, <2>2 DEF IInv, GrantExact
  <2>6. PaidIsBacked'
    BY <2>1, <2>2 DEF IInv, PaidIsBacked, Charged
  <2>7. ConfirmedIsPaid'
    BY <2>1, <2>2 DEF IInv, ConfirmedIsPaid, Linked
  <2> QED BY <2>3, <2>4, <2>5, <2>6, <2>7 DEF IInv
<1>13. ASSUME NEW t \in Trans, CompleteSettle(t) PROVE IInv'
  <2> DEFINE p == trans[t].pay
  <2>1. /\ p \in Payment
        /\ status[p] \in {"pending", "cancelled"}
        /\ trans[t].full
        /\ Charged(t)
        /\ UNCHANGED <<owner, item, prepared, trans>>
    BY <1>13 DEF CompleteSettle, Completable, SuccessSent, Charged, IInv, Linked
  <2>2. /\ \A q \in Payment : q # p => /\ status'[q] = status[q]
                                      /\ txn'[q] = txn[q]
                                      /\ granted'[q] = granted[q]
        /\ status'[p] = "paid"
        /\ txn'[p] = t
        /\ granted'[p] = granted[p] + (IF FulfilmentSkips(p) THEN 0 ELSE 1)
    BY <1>13, <2>1 DEF CompleteSettle, TypeOK
  <2>3. /\ \A s \in Trans : s # t => click'[s] = click[s]
        /\ \/ click'[t] = click[t]
           \/ click[t] = "charged" /\ click'[t] = "confirmed"
    BY <1>13 DEF CompleteSettle, Heard, TypeOK
  <2>4. Linked' /\ FullPrice' /\ PrepareKept' /\ RefusalJustified'
    BY <2>1, <2>2, <2>3 DEF IInv, Linked, FullPrice, PrepareKept, RefusalJustified
  <2>5. Reached'
    BY <2>1, <2>2, <2>3 DEF IInv, Reached
  <2>6. GrantExact'
    BY <2>1, <2>2 DEF IInv, GrantExact, FulfilmentSkips
  <2>7. PaidIsBacked'
    <3>1. trans[t] = [pay |-> p, full |-> TRUE]
      BY <2>1 DEF TypeOK
    <3> DEFINE Taken == {"charged", "confirmed", "reversed"}
    <3>2. \A s \in Trans : click[s] \in Taken => click'[s] \in Taken
      BY <2>3
    <3>3. ASSUME NEW q \in Payment, status'[q] = "paid"
          PROVE  /\ txn'[q] \in Trans
                 /\ trans'[txn'[q]] = [pay |-> q, full |-> TRUE]
                 /\ click'[txn'[q]] \in Taken
      <4>1. CASE q = p
        BY <4>1, <2>1, <2>2, <3>1, <3>2 DEF Charged
      <4>2. CASE q # p
        <5>1. /\ status[q] = "paid" /\ txn'[q] = txn[q]
          BY <4>2, <3>3, <2>2
        <5>2. /\ txn[q] \in Trans
              /\ trans[txn[q]] = [pay |-> q, full |-> TRUE]
              /\ click[txn[q]] \in Taken
          BY <5>1 DEF IInv, PaidIsBacked, Charged
        <5> QED BY <5>1, <5>2, <2>1, <3>2
      <4> QED BY <4>1, <4>2
    <3> QED BY <3>3 DEF PaidIsBacked, Charged
  <2>8. ConfirmedIsPaid'
    BY <2>1, <2>2, <2>3 DEF IInv, ConfirmedIsPaid, Linked
  <2> QED BY <2>4, <2>5, <2>6, <2>7, <2>8 DEF IInv
<1>14. CASE UNCHANGED vars
  BY <1>14 DEF vars, IInv, Linked, FullPrice, Reached, GrantExact,
     PrepareKept, PaidIsBacked, ConfirmedIsPaid, RefusalJustified, Charged
<1> QED
  BY <1>1, <1>2, <1>3, <1>4, <1>5, <1>6, <1>7, <1>8, <1>9, <1>10, <1>11, <1>12,
     <1>13, <1>14 DEF Next, CheckoutGoesOn

\* The invariant holds in every state the checkout and Click's calls reach.
THEOREM InvariantHolds == Spec => []IInv
<1> QED BY InvInit, InvNext, TypeCorrect, PTL DEF Spec

(***************************************************************************)
(* The safety properties                                                   *)
(***************************************************************************)

\* However often Click repeats Complete, and however many transactions run on
\* one payment, handle_complete hands the entitlement out at most once.
THEOREM AtMostOnce == Spec => []GrantedAtMostOnce
<1>1. GrantExact => GrantedAtMostOnce
  <2> SUFFICES ASSUME GrantExact, NEW p \in Payment PROVE granted[p] <= 1
    BY DEF GrantedAtMostOnce
  <2>1. granted[p] = 0 \/ granted[p] = 1
    BY DEF GrantExact
  <2> QED BY <2>1
<1>2. IInv => GrantExact
  BY DEF IInv
<1> QED BY <1>1, <1>2, InvariantHolds, PTL

\* A payment becomes paid only for a transaction of its own that charged the
\* full price.
THEOREM PaidBacked == Spec => []PaidIsBacked
<1>1. IInv => PaidIsBacked
  BY DEF IInv
<1> QED BY <1>1, InvariantHolds, PTL

\* Paid and handed out go together (account slots excepted).
THEOREM Together == Spec => []SettledTogether
<1>1. GrantExact => SettledTogether
  <2> SUFFICES ASSUME GrantExact, NEW p \in Payment
               PROVE  /\ granted[p] > 0 => status[p] = "paid"
                      /\ status[p] = "paid" /\ item[p] # "account_slot" => granted[p] > 0
    BY DEF SettledTogether
  <2>1. granted[p] = 0 \/ granted[p] = 1
    BY DEF GrantExact
  <2> QED BY <2>1 DEF GrantExact
<1>2. IInv => GrantExact
  BY DEF IInv
<1> QED BY <1>1, <1>2, InvariantHolds, PTL

\* A charge is refused only after another transaction failed the payment.
THEOREM ChargesSettled == Spec => []RefusalJustified
<1>1. IInv => RefusalJustified
  BY DEF IInv
<1> QED BY <1>1, InvariantHolds, PTL

\* When Click hears OK to a Complete the payment is paid, and stays so.
THEOREM ConfirmedPaid == Spec => []ConfirmedIsPaid
<1>1. IInv => ConfirmedIsPaid
  BY DEF IInv
<1> QED BY <1>1, InvariantHolds, PTL

\* No checkout or webhook takes back a Prepare whose charge is open.
THEOREM PrepareStays == Spec => []PrepareKept
<1>1. IInv => PrepareKept
  BY DEF IInv
<1> QED BY <1>1, InvariantHolds, PTL

\* Where an open payment is handed back or the checkout refused, a payment is
\* cancelled only because Click reported it: every status change but Click's error
\* keeps "cancelled" out, and a transaction that was given up stays given up.
THEOREM ClosedByClick == Spec => []CancelledByClick
<1>1. Init => CancelledByClick
  BY DEF Init, CancelledByClick
<1>2. TypeOK /\ IInv /\ CancelledByClick /\ [Next]_vars => CancelledByClick'
  <2> SUFFICES ASSUME TypeOK, IInv, CancelledByClick, [Next]_vars,
                      PendingPolicy # "cancel_and_recreate",
                      NEW p \in Payment, status'[p] = "cancelled"
               PROVE  \E t \in Trans : trans'[t].pay = p /\ click'[t] = "cancelled"
    BY DEF CancelledByClick
  <2> USE DEF payVars, worldVars
  <2>1. status[p] = "cancelled" =>
           \E t \in Trans : trans[t].pay = p /\ click[t] = "cancelled"
    BY DEF CancelledByClick
  <2>2. ASSUME NEW s \in Session,
               \/ \E u \in User, o \in Offer : CheckoutLook(s, u, o)
               \/ CheckoutGoesOn(s)
        PROVE  status[p] = "cancelled" /\ UNCHANGED <<trans, click>>
    BY <2>2 DEF CheckoutLook, CheckoutGoesOn, CheckoutReuse, CheckoutCreate, Insert
  <2>3. ASSUME \/ \E u \in User, i \in {"number", "account_slot"} : CheckoutItem(u, i)
               \/ \E q \in Payment : Age(q) \/ NumberLost(q)
               \/ \E u \in User : SlotsClose(u)
        PROVE  status[p] = "cancelled" /\ UNCHANGED <<trans, click>>
    BY <2>3 DEF CheckoutItem, Insert, Age, NumberLost, SlotsClose
  <2>4. ASSUME NEW s \in Trans, NEW q \in Payment, NEW full \in BOOLEAN, OpenUrl(s, q, full)
        PROVE  \E t \in Trans : trans'[t].pay = p /\ click'[t] = "cancelled"
    BY <2>1, <2>4 DEF OpenUrl, TypeOK
  <2>5. ASSUME NEW s \in Trans,
               \/ Charge(s)
               \/ \E e \in {"cancelled", "failed"} : GiveUp(s, e)
               \/ PrepareAccept(s) \/ PrepareRefuse(s)
               \/ CompleteRepeat(s) \/ CompleteRefuse(s)
        PROVE  \E t \in Trans : trans'[t].pay = p /\ click'[t] = "cancelled"
    <3>1. status[p] = "cancelled" /\ UNCHANGED trans
      BY <2>5 DEF Charge, GiveUp, PrepareAccept, PrepareRefuse, CompleteRepeat, CompleteRefuse
    <3>2. \A t \in Trans : click[t] = "cancelled" => click'[t] = "cancelled"
      BY <2>5 DEF Charge, GiveUp, PrepareAccept, Heard, PrepareRefuse, CompleteRepeat,
                  CompleteRefuse, TypeOK
    <3> QED BY <2>1, <3>1, <3>2
  <2>6. ASSUME NEW s \in Trans, CompleteError(s)
        PROVE  \E t \in Trans : trans'[t].pay = p /\ click'[t] = "cancelled"
    <3>1. CASE p = trans[s].pay
      BY <2>6, <3>1 DEF CompleteError, ErrorSent, StatusOfError, TypeOK
    <3>2. CASE p # trans[s].pay
      BY <2>1, <2>6, <3>2 DEF CompleteError, TypeOK
    <3> QED BY <3>1, <3>2
  <2>7. ASSUME NEW s \in Trans, CompleteSettle(s)
        PROVE  \E t \in Trans : trans'[t].pay = p /\ click'[t] = "cancelled"
    <3>1. status[p] = "cancelled" /\ UNCHANGED trans
      BY <2>7 DEF CompleteSettle, TypeOK
    <3>2. \A t \in Trans : click[t] = "cancelled" => click'[t] = "cancelled"
      BY <2>7 DEF CompleteSettle, Heard, TypeOK
    <3> QED BY <2>1, <3>1, <3>2
  <2>8. CASE UNCHANGED vars
    BY <2>1, <2>8 DEF vars
  <2> QED BY <2>1, <2>2, <2>3, <2>4, <2>5, <2>6, <2>7, <2>8 DEF Next
<1> QED BY <1>1, <1>2, TypeCorrect, InvariantHolds, PTL DEF Spec

(***************************************************************************)
(* Refinement of PaymentContract                                           *)
(***************************************************************************)

\* Click taking money for t: the payment becomes backed, nothing else changes.
LEMMA BackedGrows ==
    ASSUME TypeOK, IInv, NEW t \in Trans, click[t] = "prepared",
           click' = [click EXCEPT ![t] = "charged"], UNCHANGED trans
    PROVE  Backed' = Backed \cup {trans[t].pay}
<1>1. trans[t] = [pay |-> trans[t].pay, full |-> TRUE]
  BY DEF TypeOK, IInv, FullPrice
<1>2. trans[t].pay \in Payment
  BY DEF IInv, Linked
<1>3. \A s \in Trans : Charged(s)' <=> (s = t \/ Charged(s))
  BY DEF Charged, TypeOK
<1>4. ASSUME NEW p \in Payment
      PROVE  p \in Backed' <=> p \in Backed \/ p = trans[t].pay
  <2>1. p \in Backed' <=>
          \E s \in Trans : trans[s] = [pay |-> p, full |-> TRUE] /\ (s = t \/ Charged(s))
    BY <1>3 DEF Backed
  <2>2. trans[t] = [pay |-> p, full |-> TRUE] <=> p = trans[t].pay
    <3>1. trans[t] = [pay |-> p, full |-> TRUE] => p = trans[t].pay
      OBVIOUS
    <3>2. p = trans[t].pay => trans[t] = [pay |-> p, full |-> TRUE]
      BY <1>1, Zenon
    <3> QED BY <3>1, <3>2
  <2> QED BY <2>1, <2>2 DEF Backed
<1>5. Backed \subseteq Payment /\ Backed' \subseteq Payment
  BY DEF Backed
<1> QED BY <1>2, <1>4, <1>5

\* A step that charges nobody leaves the set of backed payments alone.
LEMMA BackedSame ==
    ASSUME \A s \in Trans : \/ Charged(s)' /\ Charged(s) /\ trans'[s] = trans[s]
                            \/ ~Charged(s)' /\ ~Charged(s)
    PROVE  Backed' = Backed
  BY DEF Backed

\* An insertion is the contract's Open.
LEMMA InsertOpens ==
    ASSUME TypeOK, NEW p \in Payment, NEW u, NEW i,
           NEW closed \in SUBSET {q \in Payment : status[q] = "pending"},
           Insert(p, u, i, closed), UNCHANGED <<prepared, trans, click>>
    PROVE  Contract!Open(p)
<1> DEFINE shut == {q \in closed : ~prepared[q]}
           ph == [q \in Payment |-> Phase(q)]
<1>1. /\ status[p] = "absent" /\ status'[p] = "pending"
      /\ \A q \in Payment : q # p => status'[q] = IF q \in closed THEN "cancelled" ELSE status[q]
      /\ prepared' = prepared
  BY DEF Insert
<1>2. ph[p] = "none" /\ shut \in SUBSET {q \in Payment : ph[q] = "open"}
  BY <1>1 DEF Phase
<1>3. ph' = [q \in Payment |-> IF q = p THEN "open" ELSE IF q \in shut THEN "closed" ELSE ph[q]]
  <2> SUFFICES ASSUME NEW q \in Payment
               PROVE  Phase(q)' = IF q = p THEN "open"
                                  ELSE IF q \in shut THEN "closed" ELSE Phase(q)
    OBVIOUS
  <2>1. CASE q = p
    BY <2>1, <1>1 DEF Phase
  <2>2. CASE q # p /\ q \in closed
    BY <2>2, <1>1 DEF Phase
  <2>3. CASE q # p /\ q \notin closed
    BY <2>3, <1>1 DEF Phase
  <2> QED BY <2>1, <2>2, <2>3
<1>4. Backed' = Backed
  BY DEF Backed, Charged
<1>5. granted' = granted
  BY DEF Insert
<1> QED BY <1>2, <1>3, <1>4, <1>5 DEF Contract!Open

\* Before the first checkout no payment is open in the contract's sense.
LEMMA ContractInit == Init => Contract!Init
  BY DEF Init, Contract!Init, Phase, Backed, Charged

\* A step that leaves the payment rows and the charges alone stutters.
LEMMA Stutters ==
    ASSUME UNCHANGED <<status, prepared, granted>>, Backed' = Backed
    PROVE  UNCHANGED Contract!vars
  BY DEF Contract!vars, Phase

\* Every step is one the contract allows, or leaves what it sees alone.
LEMMA ContractNext == TypeOK /\ IInv /\ [Next]_vars => [Contract!Next]_(Contract!vars)
<1> SUFFICES ASSUME TypeOK, IInv, [Next]_vars PROVE Contract!Next \/ UNCHANGED Contract!vars
  OBVIOUS
<1> USE DEF payVars, worldVars
<1>1. ASSUME NEW s \in Session,
             \/ \E u \in User, o \in Offer : CheckoutLook(s, u, o)
             \/ CheckoutReuse(s)
      PROVE  UNCHANGED Contract!vars
  BY <1>1, Stutters DEF CheckoutLook, CheckoutReuse, Backed, Charged
<1>2. ASSUME NEW s \in Session, CheckoutCreate(s) PROVE Contract!Next
  <2>1. PICK p \in Payment, closed \in SUBSET {q \in Payment : status[q] = "pending"} :
           Insert(p, checkout[s].user, checkout[s].offer, closed)
    BY <1>2 DEF CheckoutCreate, Superseded
  <2>2. UNCHANGED <<prepared, trans, click>>
    BY <1>2 DEF CheckoutCreate
  <2>3. Contract!Open(p)
    BY <2>1, <2>2, InsertOpens
  <2> QED BY <2>3 DEF Contract!Next
<1>3. ASSUME NEW u \in User, NEW i \in {"number", "account_slot"}, CheckoutItem(u, i)
      PROVE  Contract!Next
  <2>1. PICK p \in Payment : Insert(p, u, i, {})
    BY <1>3 DEF CheckoutItem
  <2>2. UNCHANGED <<prepared, trans, click>>
    BY <1>3 DEF CheckoutItem
  <2>3. Contract!Open(p)
    BY <2>1, <2>2, InsertOpens
  <2> QED BY <2>3 DEF Contract!Next
<1>4. ASSUME \/ \E p \in Payment : Age(p) \/ NumberLost(p)
             \/ \E u \in User : SlotsClose(u)
      PROVE  UNCHANGED Contract!vars
  BY <1>4, Stutters DEF Age, NumberLost, SlotsClose, Backed, Charged
<1>5. ASSUME NEW t \in Trans, NEW p \in Payment, NEW full \in BOOLEAN, OpenUrl(t, p, full)
      PROVE  UNCHANGED Contract!vars
  <2>1. Backed' = Backed
    BY <1>5, BackedSame DEF OpenUrl, TypeOK, Charged
  <2> QED BY <1>5, <2>1, Stutters DEF OpenUrl
<1>6. ASSUME NEW t \in Trans, Charge(t) PROVE Contract!Next
  <2>1. Backed' = Backed \cup {trans[t].pay}
    BY <1>6, BackedGrows DEF Charge
  <2>2. trans[t].pay \in Payment /\ status[trans[t].pay] # "absent"
    BY <1>6 DEF Charge, IInv, Linked
  <2>3. Phase(trans[t].pay) # "none"
    BY <2>2 DEF Phase
  <2>4. UNCHANGED <<[p \in Payment |-> Phase(p)], granted>>
    BY <1>6 DEF Charge, Phase
  <2>5. Contract!Back(trans[t].pay)
    BY <2>1, <2>2, <2>3, <2>4 DEF Contract!Back
  <2> QED BY <2>2, <2>5 DEF Contract!Next
<1>7. ASSUME NEW t \in Trans, NEW e \in {"cancelled", "failed"}, GiveUp(t, e)
      PROVE  UNCHANGED Contract!vars
  <2>1. Backed' = Backed
    BY <1>7, BackedSame DEF GiveUp, TypeOK, Charged
  <2> QED BY <1>7, <2>1, Stutters DEF GiveUp
<1>8. ASSUME NEW t \in Trans, PrepareAccept(t) PROVE UNCHANGED Contract!vars
  <2>1. Backed' = Backed
    BY <1>8, BackedSame DEF PrepareAccept, Heard, TypeOK, Charged
  <2>2. ASSUME NEW p \in Payment PROVE Phase(p)' = Phase(p)
    <3>1. CASE p = trans[t].pay
      BY <1>8, <3>1 DEF PrepareAccept, PrepareOk, Phase
    <3>2. CASE p # trans[t].pay
      <4>1. prepared'[p] = prepared[p] /\ status'[p] = status[p]
        BY <1>8, <3>2 DEF PrepareAccept, TypeOK
      <4> QED BY <4>1 DEF Phase
    <3> QED BY <3>1, <3>2
  <2> QED BY <1>8, <2>1, <2>2 DEF PrepareAccept, Contract!vars
<1>9. ASSUME NEW t \in Trans, PrepareRefuse(t) \/ CompleteRepeat(t) \/ CompleteRefuse(t)
      PROVE  UNCHANGED Contract!vars
  <2>1. Backed' = Backed
    BY <1>9, BackedSame DEF PrepareRefuse, CompleteRepeat, CompleteRefuse, TypeOK, Charged
  <2> QED BY <1>9, <2>1, Stutters DEF PrepareRefuse, CompleteRepeat, CompleteRefuse
<1>10. ASSUME NEW t \in Trans, CompleteError(t)
       PROVE  Contract!Next \/ UNCHANGED Contract!vars
  <2> DEFINE p == trans[t].pay
             ph == [q \in Payment |-> Phase(q)]
  <2>1. /\ p \in Payment /\ prepared[p] /\ status[p] \in {"pending", "cancelled"}
        /\ status' = [status EXCEPT ![p] = StatusOfError(click[t])]
        /\ UNCHANGED <<prepared, granted, trans, click>>
    BY <1>10 DEF CompleteError, Completable, ErrorSent, IInv, Linked
  <2>2. Backed' = Backed
    BY <2>1 DEF Backed, Charged
  <2>3. \A q \in Payment : q # p => Phase(q)' = Phase(q)
    BY <2>1 DEF Phase, TypeOK
  <2>4. ph[p] = "open"
    BY <2>1 DEF Phase
  <2>5. CASE click[t] = "cancelled"
    <3>1. Phase(p)' = "open"
      BY <2>1, <2>5 DEF StatusOfError, Phase, TypeOK
    <3>2. Phase(p) = "open"
      BY <2>1, <2>4
    <3>3. \A q \in Payment : Phase(q)' = Phase(q)
      BY <2>1, <2>3, <3>1, <3>2
    <3>4. ph' = ph
      BY <3>3
    <3> QED BY <2>1, <2>2, <3>4 DEF Contract!vars
  <2>6. CASE click[t] # "cancelled"
    <3>1. Phase(p)' = "closed"
      BY <2>1, <2>6 DEF StatusOfError, Phase, TypeOK
    <3>2. ph' = [ph EXCEPT ![p] = "closed"]
      BY <2>1, <2>3, <3>1
    <3>3. Contract!Close(p)
      BY <2>1, <2>2, <2>4, <3>2 DEF Contract!Close
    <3> QED BY <2>1, <3>3 DEF Contract!Next
  <2> QED BY <2>5, <2>6
<1>11. ASSUME NEW t \in Trans, CompleteSettle(t) PROVE Contract!Next
  <2> DEFINE p == trans[t].pay
             ph == [q \in Payment |-> Phase(q)]
  <2>1. /\ p \in Payment /\ prepared[p] /\ status[p] \in {"pending", "cancelled"}
        /\ trans[t].full /\ Charged(t)
        /\ status' = [status EXCEPT ![p] = "paid"]
        /\ granted' = [granted EXCEPT ![p] = IF FulfilmentSkips(p) THEN @ ELSE @ + 1]
        /\ UNCHANGED <<prepared, trans>>
    BY <1>11 DEF CompleteSettle, Completable, SuccessSent, Charged, IInv, Linked
  <2>2. Backed' = Backed
    BY <1>11, BackedSame DEF CompleteSettle, Heard, TypeOK, Charged
  <2>3. trans[t] = [pay |-> p, full |-> TRUE]
    BY <2>1 DEF TypeOK
  <2>4. p \in Backed
    BY <2>1, <2>3 DEF Backed
  <2>5. ph[p] = "open"
    BY <2>1 DEF Phase
  <2>6. ph' = [ph EXCEPT ![p] = "settled"]
    <3>1. \A q \in Payment : q # p => Phase(q)' = Phase(q)
      BY <2>1 DEF Phase, TypeOK
    <3>2. Phase(p)' = "settled"
      BY <2>1 DEF Phase, TypeOK
    <3> QED BY <2>1, <3>1, <3>2
  <2>7. granted' \in {granted, [granted EXCEPT ![p] = @ + 1]}
    <3>1. CASE FulfilmentSkips(p)
      BY <2>1, <3>1 DEF TypeOK
    <3>2. CASE ~FulfilmentSkips(p)
      BY <2>1, <3>2 DEF TypeOK
    <3> QED BY <3>1, <3>2
  <2>8. Contract!Settle(p)
    BY <2>2, <2>4, <2>5, <2>6, <2>7 DEF Contract!Settle
  <2> QED BY <2>1, <2>8 DEF Contract!Next
<1>12. CASE UNCHANGED vars
  BY <1>12, Stutters DEF vars, Backed, Charged
<1> QED
  BY <1>1, <1>2, <1>3, <1>4, <1>5, <1>6, <1>7, <1>8, <1>9, <1>10, <1>11, <1>12 DEF Next, CheckoutGoesOn

\* The Click path implements the payment contract: every webhook and checkout is
\* a step the contract allows, or none at all (ImplementsContract).
THEOREM Refinement == Spec => ImplementsContract
<1> QED BY ContractInit, ContractNext, TypeCorrect, InvariantHolds, PTL
    DEF Spec, ImplementsContract, Contract!Spec

\* One step of the contract, with the types it needs.
LEMMA ContractKeeps ==
    ASSUME granted \in [Payment -> {0, 1}], Contract!Honest, [Contract!Next]_(Contract!vars)
    PROVE  /\ granted' \in [Payment -> {0, 1}] /\ Contract!Honest'
           /\ \A p \in Payment : Phase(p) \in {"settled", "closed"} => Phase(p)' = Phase(p)
<1> DEFINE phase == [p \in Payment |-> Phase(p)]
           Ok(ph, ba, gr) == \A p \in Payment : /\ gr[p] <= 1
                                                /\ gr[p] > 0 => ph[p] = "settled"
                                                /\ ph[p] = "settled" => p \in ba
           Keeps(ph, ph2) == \A p \in Payment : ph[p] \in {"settled", "closed"} => ph2[p] = ph[p]
<1>1. \A p \in Payment : phase[p] = Phase(p) /\ phase'[p] = Phase(p)'
  OBVIOUS
<1>2. phase = [p \in Payment |-> phase[p]] /\ phase' = [p \in Payment |-> phase'[p]]
  OBVIOUS
<1>3. Ok(phase, Backed, granted)
  BY DEF Contract!Honest
<1>4. SUFFICES granted' \in [Payment -> {0, 1}] /\ Ok(phase', Backed', granted') /\ Keeps(phase, phase')
  BY <1>1 DEF Contract!Honest
<1>5. CASE UNCHANGED Contract!vars
  BY <1>3, <1>5 DEF Contract!vars
<1>6. ASSUME NEW p \in Payment, Contract!Open(p)
      PROVE  granted' \in [Payment -> {0, 1}] /\ Ok(phase', Backed', granted') /\ Keeps(phase, phase')
  <2>1. phase[p] = "none" /\ UNCHANGED <<Backed, granted>>
    BY <1>6 DEF Contract!Open
  <2>2. PICK closed \in SUBSET {q \in Payment : phase[q] = "open"} :
          phase' = [q \in Payment |-> IF q = p THEN "open"
                                      ELSE IF q \in closed THEN "closed" ELSE phase[q]]
    BY <1>6 DEF Contract!Open
  <2> HIDE DEF phase
  <2>3. Keeps(phase, phase')
    BY <2>1, <2>2
  <2>4. \A q \in Payment : granted[q] > 0 => phase'[q] = "settled"
    BY <1>3, <2>1, <2>2
  <2>5. \A q \in Payment : phase'[q] = "settled" => phase[q] = "settled"
    BY <2>2
  <2> QED BY <1>3, <2>1, <2>3, <2>4, <2>5
<1>7. ASSUME NEW p \in Payment, Contract!Back(p)
      PROVE  granted' \in [Payment -> {0, 1}] /\ Ok(phase', Backed', granted') /\ Keeps(phase, phase')
  <2>1. Backed' = Backed \cup {p} /\ phase' = phase /\ granted' = granted
    BY <1>7 DEF Contract!Back
  <2> HIDE DEF phase
  <2> QED BY <1>3, <2>1
<1>8. ASSUME NEW p \in Payment, Contract!Settle(p)
      PROVE  granted' \in [Payment -> {0, 1}] /\ Ok(phase', Backed', granted') /\ Keeps(phase, phase')
  <2>1. /\ phase[p] = "open" /\ p \in Backed /\ Backed' = Backed
        /\ phase' = [phase EXCEPT ![p] = "settled"]
        /\ granted' \in {granted, [granted EXCEPT ![p] = @ + 1]}
    BY <1>8 DEF Contract!Settle
  <2> HIDE DEF phase
  <2>2. granted[p] = 0
    BY <1>3, <2>1
  <2>3. \A q \in Payment : phase'[q] = IF q = p THEN "settled" ELSE phase[q]
    BY <1>2, <2>1
  <2>4. /\ granted' \in [Payment -> {0, 1}]
        /\ \A q \in Payment : q # p => granted'[q] = granted[q]
    BY <2>1, <2>2
  <2>5. Keeps(phase, phase')
    BY <2>1, <2>3
  <2>6. Ok(phase', Backed', granted')
    BY <1>3, <2>1, <2>3, <2>4
  <2> QED BY <2>4, <2>5, <2>6
<1>9. ASSUME NEW p \in Payment, Contract!Close(p)
      PROVE  granted' \in [Payment -> {0, 1}] /\ Ok(phase', Backed', granted') /\ Keeps(phase, phase')
  <2>1. /\ phase[p] = "open" /\ UNCHANGED <<Backed, granted>>
        /\ phase' = [phase EXCEPT ![p] = "closed"]
    BY <1>9 DEF Contract!Close
  <2> HIDE DEF phase
  <2>2. \A q \in Payment : phase'[q] = IF q = p THEN "closed" ELSE phase[q]
    BY <1>2, <2>1
  <2> QED BY <1>3, <2>1, <2>2
<1> QED BY <1>5, <1>6, <1>7, <1>8, <1>9 DEF Contract!Next

\* The contract is enough: whatever implements it hands out a payment's entitlement at
\* most once, of a settled payment and for money, and settled or closed is for good.
THEOREM ContractIsEnough == Contract!Spec => []Contract!Honest /\ Contract!Final
<1>1. Contract!Init => granted \in [Payment -> {0, 1}] /\ Contract!Honest
  BY DEF Contract!Init, Contract!Honest
<1>2. granted \in [Payment -> {0, 1}] /\ Contract!Honest /\ [Contract!Next]_(Contract!vars)
      => (granted \in [Payment -> {0, 1}] /\ Contract!Honest)' /\ Contract!Stays
  BY ContractKeeps DEF Contract!Stays
<1> QED BY <1>1, <1>2, PTL DEF Contract!Spec, Contract!Final

\* On the Click path, then, a payment that is paid stays paid, one that failed stays
\* failed, and one that was cancelled before any Prepare stays cancelled (click.py).
THEOREM SettledForGood == Spec => Contract!Final
  BY Refinement, ContractIsEnough, PTL DEF ImplementsContract

(***************************************************************************)
(* The payment desk beside the Click path (ClickAdmin)                     *)
(***************************************************************************)

\* What an admin request loaded.
DeskTypes ==
    desk \in [Admin -> {Free} \cup [op : Ops, pay : Payment, seen : Status, prepared : BOOLEAN]]

\* What is paid was handed out, an account slot excepted.  The desk writes no
\* "paid"; it may take it away, so that granted is no longer bounded by one.
PaidIsGranted ==
    \A p \in Payment : status[p] = "paid" /\ item[p] # "account_slot" => granted[p] > 0

\* The inductive invariant of the desk and the path together.
DeskInv == /\ TypeOK /\ DeskTypes
           /\ Linked /\ FullPrice
           /\ PaidIsGranted
           /\ GrantedIsBacked /\ ConfirmedIsGranted

\* An insertion, by a checkout or a retry, disturbs nothing a transaction points at.
LEMMA InsertKeepsDesk ==
    ASSUME DeskInv, NEW p \in Payment, NEW u, NEW i, NEW closed,
           Insert(p, u, i, closed), UNCHANGED <<trans, click>>
    PROVE  /\ Linked' /\ FullPrice'
           /\ PaidIsGranted'
           /\ GrantedIsBacked' /\ ConfirmedIsGranted'
<1>1. /\ status[p] = "absent" /\ status'[p] = "pending"
      /\ \A q \in Payment \ {p} : /\ status'[q] \in {status[q], "cancelled"}
                                  /\ item'[q] = item[q]
      /\ granted' = granted
  BY DEF Insert, DeskInv, TypeOK
<1>2. \A t \in Trans : click[t] # "idle" => trans[t].pay \in Payment \ {p}
  BY <1>1 DEF DeskInv, Linked
<1>3. Linked' /\ FullPrice'
  BY <1>1, <1>2 DEF DeskInv, Linked, FullPrice
<1>4. PaidIsGranted'
  BY <1>1 DEF DeskInv, PaidIsGranted
<1>5. GrantedIsBacked'
  BY <1>1 DEF DeskInv, GrantedIsBacked, Backed, Charged
<1>6. ConfirmedIsGranted'
  BY <1>1, <1>2 DEF DeskInv, ConfirmedIsGranted
<1> QED BY <1>3, <1>4, <1>5, <1>6

\* A step of Click alone: one transaction moves on.
LEMMA ClickMoveKeepsDesk ==
    ASSUME DeskInv, NEW t \in Trans, NEW c \in ClickState \ {"idle"},
           click' = [click EXCEPT ![t] = c], UNCHANGED <<payVars, trans>>,
           click[t] # "idle",
           c \notin {"preparing", "refused"} => trans[t].full,
           Charged(t) => c \in {"charged", "confirmed", "reversed"},
           c = "confirmed" /\ item[trans[t].pay] # "account_slot" => granted[trans[t].pay] > 0
    PROVE  /\ Linked' /\ FullPrice'
           /\ PaidIsGranted'
           /\ GrantedIsBacked' /\ ConfirmedIsGranted'
<1> USE DEF payVars
<1>1. \A s \in Trans : click'[s] = IF s = t THEN c ELSE click[s]
  BY DEF DeskInv, TypeOK
<1>2. Linked' /\ FullPrice' /\ PaidIsGranted'
  BY <1>1 DEF DeskInv, Linked, FullPrice, PaidIsGranted
<1>3. Backed \subseteq Backed'
  BY <1>1 DEF Backed, Charged
<1>4. GrantedIsBacked'
  BY <1>3 DEF DeskInv, GrantedIsBacked
<1>5. ConfirmedIsGranted'
  BY <1>1 DEF DeskInv, ConfirmedIsGranted
<1> QED BY <1>2, <1>4, <1>5

\* The checkout and the webhooks keep the invariant whatever the desk did before.
LEMMA PathKeepsDesk ==
    ASSUME DeskInv, [Next]_vars
    PROVE  /\ Linked' /\ FullPrice'
           /\ PaidIsGranted'
           /\ GrantedIsBacked' /\ ConfirmedIsGranted'
<1> DEFINE Goal == /\ Linked' /\ FullPrice'
                   /\ PaidIsGranted'
                   /\ GrantedIsBacked' /\ ConfirmedIsGranted'
<1> USE DEF payVars, worldVars
<1>1. ASSUME \/ \E s \in Session, u \in User, o \in Offer : CheckoutLook(s, u, o)
             \/ \E s \in Session : CheckoutReuse(s)
             \/ \E p \in Payment : Age(p) \/ NumberLost(p)
             \/ \E u \in User : SlotsClose(u)
             \/ UNCHANGED vars
      PROVE  Goal
  <2>1. UNCHANGED <<status, item, granted, trans, click>>
    BY <1>1 DEF CheckoutLook, CheckoutReuse, Age, NumberLost, SlotsClose, vars
  <2> QED BY <2>1 DEF DeskInv, Linked, FullPrice, PaidIsGranted, GrantedIsBacked, Backed,
                      Charged, ConfirmedIsGranted
<1>2. ASSUME NEW s \in Session, CheckoutCreate(s) PROVE Goal
  <2>1. PICK p \in Payment :
           Insert(p, checkout[s].user, checkout[s].offer,
                  IF checkout[s].existing = None THEN {} ELSE Superseded(checkout[s]))
    BY <1>2 DEF CheckoutCreate
  <2>2. UNCHANGED <<trans, click>>
    BY <1>2 DEF CheckoutCreate
  <2> QED BY <2>1, <2>2, InsertKeepsDesk
<1>3. ASSUME NEW u \in User, NEW i \in {"number", "account_slot"}, CheckoutItem(u, i) PROVE Goal
  <2>1. PICK p \in Payment : Insert(p, u, i, {})
    BY <1>3 DEF CheckoutItem
  <2>2. UNCHANGED <<trans, click>>
    BY <1>3 DEF CheckoutItem
  <2> QED BY <2>1, <2>2, InsertKeepsDesk
<1>4. ASSUME NEW t \in Trans, NEW p \in Payment, NEW full \in BOOLEAN, OpenUrl(t, p, full)
      PROVE  Goal
  <2>1. /\ \A s \in Trans : s # t => trans'[s] = trans[s] /\ click'[s] = click[s]
        /\ click[t] = "idle" /\ click'[t] = "preparing" /\ trans'[t].pay = p
        /\ status[p] # "absent"
        /\ UNCHANGED payVars
    BY <1>4 DEF OpenUrl, DeskInv, TypeOK
  <2>2. Linked' /\ FullPrice' /\ PaidIsGranted' /\ ConfirmedIsGranted'
    BY <2>1 DEF DeskInv, Linked, FullPrice, PaidIsGranted, ConfirmedIsGranted
  <2>3. Backed \subseteq Backed'
    BY <2>1 DEF Backed, Charged
  <2>4. GrantedIsBacked'
    BY <2>1, <2>3 DEF DeskInv, GrantedIsBacked
  <2> QED BY <2>2, <2>4
<1>5. ASSUME NEW t \in Trans, Charge(t) PROVE Goal
  BY <1>5, ClickMoveKeepsDesk DEF Charge, DeskInv, FullPrice, Charged, ClickState
<1>6. ASSUME NEW t \in Trans, NEW e \in {"cancelled", "failed"}, GiveUp(t, e) PROVE Goal
  BY <1>6, ClickMoveKeepsDesk DEF GiveUp, DeskInv, FullPrice, Charged, ClickState
<1>7. ASSUME NEW t \in Trans, PrepareAccept(t) PROVE Goal
  <2>1. /\ trans[t].full /\ UNCHANGED <<status, item, granted, trans>>
        /\ \A s \in Trans : s # t => click'[s] = click[s]
        /\ \/ click'[t] = click[t]
           \/ click[t] = "preparing" /\ click'[t] = "prepared"
        /\ click[t] # "idle"
    BY <1>7 DEF PrepareAccept, PrepareOk, Heard, DeskInv, TypeOK
  <2>2. Linked' /\ FullPrice' /\ PaidIsGranted' /\ ConfirmedIsGranted'
    BY <2>1 DEF DeskInv, Linked, FullPrice, PaidIsGranted, ConfirmedIsGranted
  <2>3. Backed \subseteq Backed'
    BY <2>1 DEF Backed, Charged
  <2> QED BY <2>1, <2>2, <2>3 DEF DeskInv, GrantedIsBacked
<1>8. ASSUME NEW t \in Trans, PrepareRefuse(t) PROVE Goal
  BY <1>8, ClickMoveKeepsDesk DEF PrepareRefuse, Charged, ClickState
<1>9. ASSUME NEW t \in Trans, CompleteRepeat(t) PROVE Goal
  <2>1. item[trans[t].pay] # "account_slot" => granted[trans[t].pay] > 0
    BY <1>9 DEF CompleteRepeat, IsPaid, DeskInv, Linked, PaidIsGranted, TypeOK
  <2> QED BY <1>9, <2>1, ClickMoveKeepsDesk DEF CompleteRepeat, DeskInv, FullPrice, Charged, ClickState
<1>10. ASSUME NEW t \in Trans, CompleteRefuse(t) PROVE Goal
  BY <1>10, ClickMoveKeepsDesk DEF CompleteRefuse, DeskInv, FullPrice, Charged, ClickState
<1>11. ASSUME NEW t \in Trans, CompleteError(t) PROVE Goal
  <2>1. /\ \A q \in Payment : status'[q] \in {status[q], "cancelled", "failed"}
        /\ UNCHANGED <<item, granted, trans, click>>
    BY <1>11 DEF CompleteError, StatusOfError, DeskInv, TypeOK
  <2> QED BY <2>1 DEF DeskInv, Linked, FullPrice, PaidIsGranted, GrantedIsBacked, Backed, Charged,
                      ConfirmedIsGranted
<1>12. ASSUME NEW t \in Trans, CompleteSettle(t) PROVE Goal
  <2> DEFINE p == trans[t].pay
  <2>1. /\ p \in Payment /\ trans[t].full /\ Charged(t)
        /\ UNCHANGED <<item, trans>>
    BY <1>12 DEF CompleteSettle, SuccessSent, Charged, DeskInv, Linked
  <2>2. /\ \A q \in Payment : q # p => status'[q] = status[q] /\ granted'[q] = granted[q]
        /\ status'[p] = "paid"
        /\ granted'[p] = granted[p] + (IF FulfilmentSkips(p) THEN 0 ELSE 1)
        /\ granted[p] \in Nat
    BY <1>12, <2>1 DEF CompleteSettle, DeskInv, TypeOK
  <2>3. /\ \A s \in Trans : s # t => click'[s] = click[s]
        /\ \/ click'[t] = click[t]
           \/ click[t] = "charged" /\ click'[t] = "confirmed"
    BY <1>12 DEF CompleteSettle, Heard, DeskInv, TypeOK
  <2>4. item[p] # "account_slot" => granted'[p] > 0
    BY <2>2 DEF FulfilmentSkips
  <2>5. \A q \in Payment : granted[q] > 0 => granted'[q] > 0
    BY <2>2
  <2>6. Linked' /\ FullPrice'
    BY <2>1, <2>2, <2>3 DEF DeskInv, Linked, FullPrice
  <2>7. PaidIsGranted'
    BY <2>1, <2>2, <2>4 DEF DeskInv, PaidIsGranted
  <2>8. ConfirmedIsGranted'
    BY <2>1, <2>3, <2>4, <2>5 DEF DeskInv, ConfirmedIsGranted, Linked
  <2>9. p \in Backed /\ Backed \subseteq Backed'
    <3>1. trans[t] = [pay |-> p, full |-> TRUE]
      BY <2>1 DEF DeskInv, TypeOK
    <3>2. \A s \in Trans : Charged(s) => Charged(s)'
      BY <2>3 DEF Charged
    <3> QED BY <2>1, <3>1, <3>2 DEF Backed
  <2>10. GrantedIsBacked'
    BY <2>2, <2>9 DEF DeskInv, GrantedIsBacked
  <2> QED BY <2>6, <2>7, <2>8, <2>10
<1> QED
  BY <1>1, <1>2, <1>3, <1>4, <1>5, <1>6, <1>7, <1>8, <1>9, <1>10, <1>11, <1>12 DEF Next, CheckoutGoesOn

\* Before the first payment no request is at the desk.
LEMMA DeskInvInit == DeskInit => DeskInv
  BY DEF DeskInit, Init, DeskInv, TypeOK, DeskTypes, Linked, FullPrice, PaidIsGranted,
         GrantedIsBacked, ConfirmedIsGranted

\* A write of the desk to the payments it names: the status never becomes "paid"
\* or "absent", and nothing but the status and the meta changes.
LEMMA DeskWriteKeeps ==
    ASSUME DeskInv, UNCHANGED <<item, granted, trans, click>>,
           \A p \in Payment : status'[p] # status[p] =>
               status'[p] \in {"cancelled", "refunded", "chargeback"}
    PROVE  /\ Linked' /\ FullPrice'
           /\ PaidIsGranted'
           /\ GrantedIsBacked' /\ ConfirmedIsGranted'
  BY DEF DeskInv, Linked, FullPrice, PaidIsGranted, GrantedIsBacked, Backed, Charged,
         ConfirmedIsGranted

\* Every step keeps the invariant, the late writes of the desk included.
LEMMA DeskInvNext == DeskInv /\ [DeskNext]_allVars => DeskInv'
<1> SUFFICES ASSUME DeskInv, [DeskNext]_allVars PROVE DeskInv'
  OBVIOUS
<1> USE DEF worldVars
<1>1. CASE (Next /\ UNCHANGED desk) \/ UNCHANGED allVars
  <2>1. [Next]_vars /\ UNCHANGED desk
    BY <1>1 DEF allVars
  <2>2. TypeOK' /\ DeskTypes'
    BY <2>1, TypeNext DEF DeskInv, DeskTypes
  <2> QED BY <2>1, <2>2, PathKeepsDesk DEF DeskInv
<1>2. ASSUME NEW a \in Admin, NEW p \in Payment, NEW op \in Ops, DeskLoad(a, p, op)
      PROVE  DeskInv'
  <2>1. UNCHANGED vars
    BY <1>2 DEF DeskLoad
  <2>2. TypeOK'
    BY <2>1, TypeNext DEF DeskInv
  <2>3. DeskTypes'
    BY <1>2 DEF DeskLoad, DeskInv, DeskTypes, TypeOK
  <2> QED BY <2>1, <2>2, <2>3, PathKeepsDesk DEF DeskInv
<1>3. ASSUME NEW a \in Admin, Refund(a) \/ Chargeback(a) \/ Note(a) \/ RetryReuse(a) PROVE DeskInv'
  <2>1. desk[a] \in [op : Ops, pay : Payment, seen : Status, prepared : BOOLEAN]
    BY <1>3 DEF Refund, Chargeback, Note, RetryReuse, DeskMark, DeskInv, DeskTypes, Free, Ops
  <2>2. DeskTypes' /\ prepared' \in [Payment -> BOOLEAN]
    BY <1>3, <2>1 DEF Refund, Chargeback, Note, RetryReuse, DeskMark, WriteMeta, DeskInv, DeskTypes, TypeOK
  <2>3. /\ status' \in [Payment -> Status]
        /\ \A p \in Payment : status'[p] # status[p] =>
               status'[p] \in {"cancelled", "refunded", "chargeback"}
    BY <1>3 DEF Refund, Chargeback, Note, RetryReuse, DeskMark, DeskInv, TypeOK
  <2>4. UNCHANGED <<owner, item, txn, granted, recent, taken, slotOpen, checkout, trans, click>>
    BY <1>3 DEF Refund, Chargeback, Note, RetryReuse, DeskMark
  <2>5. TypeOK'
    BY <2>2, <2>3, <2>4 DEF DeskInv, TypeOK
  <2> QED BY <2>2, <2>3, <2>4, <2>5, DeskWriteKeeps DEF DeskInv
<1>4. ASSUME NEW a \in Admin, Retry(a) PROVE DeskInv'
  <2>1. desk[a] \in [op : Ops, pay : Payment, seen : Status, prepared : BOOLEAN]
    BY <1>4 DEF Retry, DeskInv, DeskTypes, Free, Ops
  <2> DEFINE closed == Retried(a) \cup IF RetryFinds(a) = {} THEN {} ELSE
                           Superseded([user |-> owner[desk[a].pay], existing |-> desk[a].pay,
                                       seen |-> desk[a].prepared])
  <2>2. PICK q \in Payment : Insert(q, owner[desk[a].pay], item[desk[a].pay], closed)
    BY <1>4 DEF Retry
  <2> HIDE DEF closed
  <2>3. UNCHANGED <<taken, slotOpen, checkout, trans, click>>
    BY <1>4 DEF Retry
  <2>4. DeskTypes' /\ prepared' \in [Payment -> BOOLEAN]
    BY <1>4, <2>1 DEF Retry, WriteMeta, DeskInv, DeskTypes, TypeOK
  <2>5. TypeOK'
    BY <2>1, <2>2, <2>3, <2>4 DEF Insert, DeskInv, TypeOK
  <2> QED BY <2>2, <2>3, <2>4, <2>5, InsertKeepsDesk DEF DeskInv
<1>5. ASSUME NEW a \in Admin, DeskRollback(a) PROVE DeskInv'
  <2>1. UNCHANGED vars
    BY <1>5 DEF DeskRollback
  <2>2. TypeOK'
    BY <2>1, TypeNext DEF DeskInv
  <2>3. DeskTypes'
    BY <1>5 DEF DeskRollback, DeskInv, DeskTypes
  <2> QED BY <2>1, <2>2, <2>3, PathKeepsDesk DEF DeskInv
<1> QED BY <1>1, <1>2, <1>3, <1>4, <1>5 DEF DeskNext

\* Whatever the desk refunds, charges back or retries between two webhooks, an
\* entitlement is handed out only for a charge of the full price, and a customer
\* whose charge Click confirmed has what was paid for (DeskKeepsFaith).
THEOREM DeskFaith == DeskSpec => []DeskKeepsFaith
<1>1. DeskSpec => []DeskInv
  BY DeskInvInit, DeskInvNext, PTL DEF DeskSpec
<1>2. DeskInv => DeskKeepsFaith
  BY DEF DeskInv, DeskKeepsFaith
<1> QED BY <1>1, <1>2, PTL

=============================================================================
