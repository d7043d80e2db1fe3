-------------------------------- MODULE Numbers --------------------------------
(***************************************************************************)
(* The seven-digit AnyLang numbers: the table number_assignments, the      *)
(* column users.number, and the requests that reserve, buy, draw or assign *)
(* a number (services/numbers.py), with the Stripe webhook that pays one   *)
(* (services/payments.py).                                                 *)
(*                                                                         *)
(* A request is a transaction: it begins by loading its user and the row   *)
(* of the number, and ends with the writes and the commit.  Only reserve   *)
(* and the admin's assignment lock the row; a purchase reads it without a  *)
(* lock.  The user, and so the number to release, is always read without   *)
(* one.  SQLAlchemy writes only the columns that differ from what it       *)
(* loaded, and raises when the row it updates is gone.                     *)
(***************************************************************************)
EXTENDS Naturals, FiniteSets

CONSTANTS NumberUser, NumberSet,
          FreeNumber,      \* the numbers of groups whose price is zero
          NumberPayment,   \* Stripe payments of kind "number"
          NumberReq,       \* request handlers running at the same time
          MaxNumberOps,    \* bound: reservations, checkouts and requests made
          NoOne

ASSUME NumberAssumption ==
    /\ FreeNumber \subseteq NumberSet
    /\ NoOne \notin NumberUser \cup NumberSet \cup NumberPayment

VARIABLES
    row,         \* number_assignments: per number its row or NoRow
    userNumber,  \* users.number; NoOne stands for the tombstone of a purged account
    cooling,     \* users whose last_number_change_at is under 90 days old
    numPay,      \* payments: status, payer and number
    granted,     \* how often a payment was fulfilled
    numReq,      \* the transaction each handler has open
    serial,      \* does a user, and an admin, wait for the answer before the next request
    numOps       \* how many of them were made

numbersVars == <<row, userNumber, cooling, numPay, granted, numReq, serial, numOps>>

NoRow == [owner |-> NoOne, holder |-> NoOne, live |-> FALSE, there |-> FALSE]
Owned(u) == [owner |-> u, holder |-> NoOne, live |-> FALSE, there |-> TRUE]

Row == [owner : NumberUser \cup {NoOne}, holder : NumberUser \cup {NoOne},
        live : BOOLEAN, there : BOOLEAN]

NoReq == [op |-> "none", user |-> NoOne, num |-> NoOne, pay |-> NoOne,
          saw |-> NoOne, row |-> NoRow, gone |-> FALSE, cool |-> FALSE]

NumbersInit ==
    /\ userNumber \in {f \in [NumberUser -> NumberSet] :
                          \A u, v \in NumberUser : f[u] = f[v] => u = v}
    /\ row = [n \in NumberSet |->
                 IF \E u \in NumberUser : userNumber[u] = n
                 THEN Owned(CHOOSE u \in NumberUser : userNumber[u] = n)
                 ELSE NoRow]
    /\ cooling = {}
    /\ numPay = [p \in NumberPayment |->
                    [status |-> "absent", user |-> NoOne, num |-> NoOne]]
    /\ granted = [p \in NumberPayment |-> 0]
    /\ numReq = [r \in NumberReq |-> NoReq]
    /\ serial \in BOOLEAN
    /\ numOps = 0

NumberOp == numOps < MaxNumberOps /\ numOps' = numOps + 1

\* A live reservation of somebody else.
HeldByOther(rw, u) == rw.live /\ rw.holder \notin {NoOne, u}

\* The number is another user's, or reserved for another user.
RefusedTo(rw, u) == rw.owner \notin {NoOne, u} \/ HeldByOther(rw, u)

(***************************************************************************)
(* Reservations                                                            *)
(***************************************************************************)

\* reserve_number: the row is locked, checked and written in one transaction.
Reserved(n, u) ==
    /\ row[n].owner = NoOne
    /\ ~HeldByOther(row[n], u)
    /\ row' = [row EXCEPT ![n] = [owner |-> NoOne, holder |-> u,
                                  live |-> TRUE, there |-> TRUE]]

Reserve(u, n) ==
    /\ Reserved(n, u)
    /\ NumberOp
    /\ UNCHANGED <<userNumber, cooling, numPay, granted, numReq, serial>>

\* reserve_number with minutes <= 0: the holder gives the reservation back.
Unreserve(u, n) ==
    /\ row[n].holder = u
    /\ row' = [row EXCEPT ![n].holder = NoOne, ![n].live = FALSE]
    /\ UNCHANGED <<userNumber, cooling, numPay, granted, numReq, serial, numOps>>

\* The fifteen (or forty-five) minutes are over; the row stays.
ReservationEnds(n) ==
    /\ row[n].live
    /\ row' = [row EXCEPT ![n].live = FALSE]
    /\ UNCHANGED <<userNumber, cooling, numPay, granted, numReq, serial, numOps>>

\* create_checkout for a number: reserve it and store a pending payment.
NumberCheckout(p, u, n) ==
    /\ n \notin FreeNumber
    /\ numPay[p].status = "absent"
    /\ Reserved(n, u)
    /\ numPay' = [numPay EXCEPT ![p] = [status |-> "pending", user |-> u, num |-> n]]
    /\ NumberOp
    /\ UNCHANGED <<userNumber, cooling, granted, numReq, serial>>

\* Ninety days pass since the free change of u.
CooldownEnds(u) ==
    /\ u \in cooling
    /\ cooling' = cooling \ {u}
    /\ UNCHANGED <<row, userNumber, numPay, granted, numReq, serial, numOps>>

\* purge_expired_accounts, thirty days after the account was deleted: the number
\* is overwritten with a tombstone, its row stays.
PurgeUser(u) ==
    /\ userNumber[u] # NoOne
    /\ \A r \in NumberReq : numReq[r].user # u
    /\ userNumber' = [userNumber EXCEPT ![u] = NoOne]
    /\ UNCHANGED <<row, cooling, numPay, granted, numReq, serial, numOps>>

(***************************************************************************)
(* A request: what it loads, and how it ends                               *)
(***************************************************************************)

ByAdmin(op) == op \in {"assign", "force"}

\* Two requests of one user, or an admin's request and any other.
Overlaps(c, op, u) ==
    c.op # "none" /\ (c.user = u \/ ByAdmin(c.op) \/ ByAdmin(op))

\* Handler r loads user u and the row of n.
Load(r, op, u, n, p) ==
    /\ numReq[r].op = "none"
    /\ userNumber[u] # NoOne
    /\ serial => \A q \in NumberReq : ~Overlaps(numReq[q], op, u)
    /\ numReq' = [numReq EXCEPT ![r] =
          [op |-> op, user |-> u, num |-> n, pay |-> p, saw |-> userNumber[u],
           row |-> IF op \in {"buy", "paid"} THEN row[n] ELSE NoRow, gone |-> FALSE,
           cool |-> op = "random" /\ u \in cooling]]
    /\ NumberOp
    /\ UNCHANGED <<row, userNumber, cooling, numPay, granted, serial>>

\* purchase_number: only a free number is assigned without a payment.
BuyLoad(r, u, n) == n \in FreeNumber /\ Load(r, "buy", u, n, NoOne)

\* handle_stripe_webhook: the payment row is locked and must be pending.
PaidLoad(r, p) ==
    /\ \A q \in NumberReq : numReq[q].pay # p
    /\ numPay[p].status = "pending"
    /\ Load(r, "paid", numPay[p].user, numPay[p].num, p)

RandomLoad(r, u) == Load(r, "random", u, NoOne, NoOne)
AdminLoad(r, u, n, force) == Load(r, IF force THEN "force" ELSE "assign", u, n, NoOne)

\* The handler is done.  A row this transaction deleted is gone for whoever
\* else had loaded it.
Done(r, deleted) ==
    numReq' = [q \in NumberReq |->
        IF q = r THEN NoReq
        ELSE [numReq[q] EXCEPT !.gone =
                 @ \/ (numReq[q].row.there /\ numReq[q].num \in deleted)]]

\* Every error answer: the session rolls back, nothing was written.
NumberFail(r) ==
    /\ numReq[r].op # "none"
    /\ Done(r, {})
    /\ UNCHANGED <<row, userNumber, cooling, numPay, granted, serial, numOps>>

\* Mutated form: the row of the old number is forgotten.
ReleasedNot(rows, saw) == rows

\* _release_user_number: the row of the number the user had when loaded goes,
\* whoever it belongs to by now.
Released(rows, saw) == [rows EXCEPT ![saw] = NoRow]
Freed(rows, saw) == IF rows[saw].there THEN {saw} ELSE {}

\* The table after releasing the old number and assigning n to u.  `seen` is
\* the row as the session loaded it.  When the released row is the assigned
\* row, the assignment is written to a deleted object and lost.
Assigned(rows, u, n, saw, seen) ==
    LET rel == Released(rows, saw) IN
    IF ~seen.there THEN [rel EXCEPT ![n] = Owned(u)]
    ELSE IF saw = n THEN rel
    ELSE [rel EXCEPT ![n] =
             [owner  |-> IF seen.owner = u THEN @.owner ELSE u,
              holder |-> IF seen.holder = NoOne THEN @.holder ELSE NoOne,
              live   |-> IF seen.holder = NoOne THEN @.live ELSE FALSE,
              there  |-> TRUE]]

\* The unique index of users.number lets u have n.
NameFree(names, u, n) == \A v \in NumberUser \ {u} : names[v] # n

\* The database accepts the writes: an insert finds no row, an update finds
\* the row it loaded, and the index of users.number holds.
Accepted(rows, names, u, n, saw, seen, gone) ==
    /\ ~seen.there => ~Released(rows, saw)[n].there
    /\ seen.there => ~gone
    /\ saw # n => NameFree(names, u, n)

\* user.number = number: written only when it differs from what was loaded.
Named(names, u, n, saw) == IF saw = n THEN names ELSE [names EXCEPT ![u] = n]

(***************************************************************************)
(* Purchases, free draws, assignments by an admin                          *)
(***************************************************************************)

\* assign_purchased_number goes through.
Assigns(c) ==
    /\ ~RefusedTo(c.row, c.user)
    /\ Accepted(row, userNumber, c.user, c.num, c.saw, c.row, c.gone)

\* Fulfilment of a purchase, free or paid; a payment succeeds with it.
Purchase(r) ==
    LET c == numReq[r] IN
    /\ c.op \in {"buy", "paid"}
    /\ Assigns(c)
    /\ row' = Assigned(row, c.user, c.num, c.saw, c.row)
    /\ userNumber' = Named(userNumber, c.user, c.num, c.saw)
    /\ numPay' = IF c.op = "paid" THEN [numPay EXCEPT ![c.pay].status = "succeeded"]
                 ELSE numPay
    /\ granted' = IF c.op = "paid" THEN [granted EXCEPT ![c.pay] = @ + 1] ELSE granted
    /\ Done(r, Freed(row, c.saw))
    /\ UNCHANGED <<cooling, serial, numOps>>

\* assign_random_standard_number: a number without a row, inserted for u.  That
\* the draw gives back the very number just released (one chance in ten
\* million) is left out.
Draw(rows, names, u, saw, m) ==
    /\ m # saw
    /\ ~rows[m].there
    /\ NameFree(names, u, m)

\* POST /numbers/random: outside the cooldown, release and draw.
Random(r) ==
    LET c == numReq[r]
        rel == Released(row, c.saw) IN
    /\ c.op = "random"
    /\ ~c.cool
    /\ \E m \in NumberSet :
          /\ Draw(rel, userNumber, c.user, c.saw, m)
          /\ row' = [rel EXCEPT ![m] = Owned(c.user)]
          /\ userNumber' = Named(userNumber, c.user, m, c.saw)
    /\ cooling' = cooling \cup {c.user}
    /\ Done(r, Freed(row, c.saw))
    /\ UNCHANGED <<numPay, granted, serial, numOps>>

\* admin_assign_number of a number nobody else owns.  The row is locked, so it
\* is the current one that is checked and written.
AdminAssign(r) ==
    LET c == numReq[r] IN
    /\ c.op \in {"assign", "force"}
    /\ row[c.num].owner \in {NoOne, c.user}
    /\ c.op = "force" \/ ~HeldByOther(row[c.num], c.user)
    /\ Accepted(row, userNumber, c.user, c.num, c.saw, row[c.num], FALSE)
    /\ row' = Assigned(row, c.user, c.num, c.saw, row[c.num])
    /\ userNumber' = Named(userNumber, c.user, c.num, c.saw)
    /\ Done(r, Freed(row, c.saw))
    /\ UNCHANGED <<cooling, numPay, granted, serial, numOps>>

\* force=true and another user shows the number: that user's row is deleted, a
\* random number is drawn for them, then the number is assigned anew.
AdminForce(r) ==
    LET c == numReq[r]
        v == row[c.num].owner
        rel == Released(row, c.num) IN
    /\ c.op = "force"
    /\ v \notin {NoOne, c.user}
    /\ userNumber[v] = c.num
    /\ \E m \in NumberSet \ {c.num} :
          LET rows == [rel EXCEPT ![m] = Owned(v)]
              names == [userNumber EXCEPT ![v] = m] IN
          /\ Draw(rel, userNumber, v, c.num, m)
          /\ Accepted(rows, names, c.user, c.num, c.saw, NoRow, FALSE)
          /\ row' = Assigned(rows, c.user, c.num, c.saw, NoRow)
          /\ userNumber' = Named(names, c.user, c.num, c.saw)
          /\ Done(r, {c.num} \cup Freed(rows, c.saw))
    /\ UNCHANGED <<cooling, numPay, granted, serial, numOps>>

\* force=true and the owner on record shows another number by now: only the
\* row changes hands.
AdminTake(r) ==
    LET c == numReq[r]
        v == row[c.num].owner
        rows == [row EXCEPT ![c.num].owner = NoOne] IN
    /\ c.op = "force"
    /\ v \notin {NoOne, c.user}
    /\ userNumber[v] # c.num
    /\ Accepted(rows, userNumber, c.user, c.num, c.saw, rows[c.num], FALSE)
    /\ row' = Assigned(rows, c.user, c.num, c.saw, rows[c.num])
    /\ userNumber' = Named(userNumber, c.user, c.num, c.saw)
    /\ Done(r, Freed(rows, c.saw))
    /\ UNCHANGED <<cooling, numPay, granted, serial, numOps>>

NumbersNext ==
    \/ \E u \in NumberUser, n \in NumberSet : Reserve(u, n)
    \/ \E u \in NumberUser, n \in NumberSet : Unreserve(u, n)
    \/ \E n \in NumberSet : ReservationEnds(n)
    \/ \E p \in NumberPayment, u \in NumberUser, n \in NumberSet : NumberCheckout(p, u, n)
    \/ \E u \in NumberUser : CooldownEnds(u)
    \/ \E u \in NumberUser : PurgeUser(u)
    \/ \E r \in NumberReq, u \in NumberUser, n \in NumberSet : BuyLoad(r, u, n)
    \/ \E r \in NumberReq, p \in NumberPayment : PaidLoad(r, p)
    \/ \E r \in NumberReq, u \in NumberUser : RandomLoad(r, u)
    \/ \E r \in NumberReq, u \in NumberUser, n \in NumberSet, force \in BOOLEAN :
          AdminLoad(r, u, n, force)
    \/ \E r \in NumberReq : NumberFail(r)
    \/ \E r \in NumberReq : Purchase(r)
    \/ \E r \in NumberReq : Random(r)
    \/ \E r \in NumberReq : AdminAssign(r)
    \/ \E r \in NumberReq : AdminForce(r)
    \/ \E r \in NumberReq : AdminTake(r)

NumbersSpec == NumbersInit /\ [][NumbersNext]_numbersVars

(***************************************************************************)
(* Properties                                                              *)
(***************************************************************************)

NumbersTypeOK ==
    /\ row \in [NumberSet -> Row]
    /\ userNumber \in [NumberUser -> NumberSet \cup {NoOne}]
    /\ cooling \subseteq NumberUser
    /\ numPay \in [NumberPayment -> [status : {"absent", "pending", "succeeded"},
                                     user : NumberUser \cup {NoOne},
                                     num : NumberSet \cup {NoOne}]]
    /\ granted \in [NumberPayment -> Nat]
    /\ DOMAIN numReq = NumberReq
    /\ serial \in BOOLEAN
    /\ numOps \in Nat

\* While a user waits for one answer before the next request, a row never
\* names an owner who shows another number: whatever purchases, reservations
\* and draws of different users overlap, a number is not sold twice and none
\* stays blocked by somebody who has left it.  A purged account is the exception.
OwnerShows ==
    serial => \A n \in NumberSet :
                 row[n].owner # NoOne => userNumber[row[n].owner] \in {n, NoOne}
================================================================================
