----------------------------- MODULE ServicesProofs -----------------------------
(***************************************************************************)
(* Theorems about three services whose handlers load rows without a lock   *)
(* and write them later, for any number of them open at once: the numbers  *)
(* of users (Numbers), the paid plan (Plans) and the verified badge        *)
(* (Verification).                                                         *)
(***************************************************************************)
EXTENDS Numbers, Plans, Verification, FiniteSetTheorems, TLAPS

(***************************************************************************)
(* Numbers: the inductive invariant                                        *)
(***************************************************************************)

NumOps == {"buy", "paid", "random", "assign", "force"}

NumReqs == [op : NumOps \cup {"none"}, user : NumberUser \cup {NoOne},
            num : NumberSet \cup {NoOne}, pay : NumberPayment \cup {NoOne},
            saw : NumberSet \cup {NoOne}, row : Row, gone : BOOLEAN, cool : BOOLEAN]

NumPays == [status : {"absent", "pending", "succeeded"}, user : NumberUser \cup {NoOne},
            num : NumberSet \cup {NoOne}]

NumTypes ==
    /\ row \in [NumberSet -> Row]
    /\ userNumber \in [NumberUser -> NumberSet \cup {NoOne}]
    /\ numReq \in [NumberReq -> NumReqs]
    /\ numPay \in [NumberPayment -> NumPays]
    /\ \A p \in NumberPayment : numPay[p].status # "absent" =>
          numPay[p].user \in NumberUser /\ numPay[p].num \in NumberSet

\* An open request knows the number its user has: nobody but a request of that user
\* or of an admin changes it.
SawIsCurrent ==
    \A r \in NumberReq : numReq[r].op # "none" =>
        /\ numReq[r].user \in NumberUser
        /\ numReq[r].op # "random" => numReq[r].num \in NumberSet
        /\ numReq[r].op = "paid" => /\ numReq[r].pay \in NumberPayment
                                    /\ numPay[numReq[r].pay].status # "absent"
        /\ serial => /\ numReq[r].saw = userNumber[numReq[r].user]
                     /\ numReq[r].saw \in NumberSet

\* Requests that are open together are of different users, and none is an admin's.
Serialized ==
    serial => \A q, r \in NumberReq :
                 q # r /\ numReq[q].op # "none" /\ numReq[r].op # "none" =>
                     /\ numReq[q].user # numReq[r].user
                     /\ ~ByAdmin(numReq[q].op)

\* OwnerShows of given tables.
Shows(rows, names) ==
    \A n \in NumberSet : rows[n].owner # NoOne => names[rows[n].owner] \in {n, NoOne}

NumInv == NumTypes /\ SawIsCurrent /\ Serialized /\ (serial => Shows(row, userNumber))

\* The table after an assignment shows what the names say, whatever row the session
\* had loaded, as long as the released number is the one the user has.
LEMMA AssignedShows ==
    ASSUME NumberAssumption,
           NEW rows \in [NumberSet -> Row], NEW names \in [NumberUser -> NumberSet \cup {NoOne}],
           NEW u \in NumberUser, NEW n \in NumberSet, NEW saw \in NumberSet, NEW seen \in Row,
           saw = names[u], Shows(rows, names), saw # n => NameFree(names, u, n)
    PROVE  /\ Assigned(rows, u, n, saw, seen) \in [NumberSet -> Row]
           /\ Named(names, u, n, saw) \in [NumberUser -> NumberSet \cup {NoOne}]
           /\ Shows(Assigned(rows, u, n, saw, seen), Named(names, u, n, saw))
<1> DEFINE after == Assigned(rows, u, n, saw, seen)
           named == Named(names, u, n, saw)
<1>1. after \in [NumberSet -> Row]
  BY DEF Assigned, Released, NoRow, Owned, Row
<1>2. /\ named \in [NumberUser -> NumberSet \cup {NoOne}]
      /\ named[u] = n
      /\ \A v \in NumberUser \ {u} : named[v] = names[v]
  BY DEF Named
<1>3. \A m \in NumberSet \ {n} : /\ m # saw => after[m] = rows[m]
                                 /\ m = saw => after[m].owner = NoOne
  BY DEF Assigned, Released, NoRow
<1>4. after[n].owner \in {u, NoOne, IF saw = n THEN NoOne ELSE rows[n].owner}
  BY DEF Assigned, Released, NoRow, Owned
<1>5. ASSUME NEW m \in NumberSet, after[m].owner # NoOne
      PROVE  named[after[m].owner] \in {m, NoOne}
  <2>1. CASE m # n
    <3>1. m # saw /\ after[m] = rows[m]
      BY <1>3, <1>5, <2>1
    <3>2. rows[m].owner \in NumberUser /\ names[rows[m].owner] \in {m, NoOne}
      BY <1>5, <3>1 DEF Shows, Row
    <3>3. rows[m].owner # u
      BY <3>1, <3>2, NumberAssumption
    <3> QED BY <1>2, <3>1, <3>2, <3>3
  <2>2. CASE m = n /\ after[m].owner = u
    BY <1>2, <2>2
  <2>3. CASE m = n /\ after[m].owner # u
    <3>1. saw # n /\ after[n].owner = rows[n].owner
      BY <1>4, <1>5, <2>3
    <3>2. rows[n].owner \in NumberUser \ {u} /\ names[rows[n].owner] \in {n, NoOne}
      BY <1>5, <2>3, <3>1 DEF Shows, Row
    <3>3. names[rows[n].owner] # n
      BY <3>1, <3>2 DEF NameFree
    <3> QED BY <1>2, <2>3, <3>1, <3>2, <3>3
  <2> QED BY <2>1, <2>2, <2>3
<1> QED BY <1>1, <1>2, <1>5 DEF Shows

LEMMA NumInvInit == NumbersInit => NumInv
<1> SUFFICES ASSUME NumbersInit PROVE NumInv
  OBVIOUS
<1> USE NumberAssumption
<1>1. row \in [NumberSet -> Row] /\ Shows(row, userNumber)
  <2>1. ASSUME NEW n \in NumberSet
        PROVE  /\ row[n] \in Row
               /\ row[n].owner # NoOne => userNumber[row[n].owner] = n
    <3>1. CASE \E u \in NumberUser : userNumber[u] = n
      <4>1. PICK v \in NumberUser : userNumber[v] = n /\ row[n] = Owned(v)
        BY <3>1 DEF NumbersInit
      <4> QED BY <4>1 DEF Owned, Row
    <3>2. CASE ~\E u \in NumberUser : userNumber[u] = n
      BY <3>2 DEF NumbersInit, NoRow, Row
    <3> QED BY <3>1, <3>2
  <2> QED BY <2>1 DEF NumbersInit, Shows
<1>2. NumTypes
  BY <1>1 DEF NumbersInit, NumTypes, NumReqs, NumPays, NumOps, NoReq, NoRow, Row
<1>3. SawIsCurrent /\ Serialized
  BY DEF NumbersInit, SawIsCurrent, Serialized, NoReq
<1> QED BY <1>1, <1>2, <1>3 DEF NumInv

\* A request that ends leaves what the others hold.
LEMMA DoneKeeps ==
    ASSUME NumInv, NEW r \in NumberReq, numReq[r].op # "none", NEW deleted, Done(r, deleted)
    PROVE  /\ numReq' \in [NumberReq -> NumReqs]
           /\ numReq'[r].op = "none"
           /\ \A q \in NumberReq : numReq'[q].op # "none" =>
                 /\ q # r /\ numReq[q].op # "none"
                 /\ numReq'[q].op = numReq[q].op /\ numReq'[q].user = numReq[q].user
                 /\ numReq'[q].num = numReq[q].num /\ numReq'[q].saw = numReq[q].saw
                 /\ numReq'[q].pay = numReq[q].pay
<1>1. ASSUME NEW q \in NumberReq
      PROVE  /\ numReq'[q] = IF q = r THEN NoReq
                ELSE [numReq[q] EXCEPT !.gone =
                         @ \/ (numReq[q].row.there /\ numReq[q].num \in deleted)]
             /\ numReq[q] \in NumReqs
  BY DEF Done, NumInv, NumTypes
<1>2. NoReq \in NumReqs /\ NoReq.op = "none"
  BY DEF NoReq, NumReqs, NoRow, Row
<1>3. ASSUME NEW q \in NumberReq
      PROVE  (numReq[q].row.there /\ numReq[q].num \in deleted) \in BOOLEAN
  OBVIOUS
<1>4. ASSUME NEW q \in NumberReq, q # r
      PROVE  /\ numReq'[q] \in NumReqs
             /\ numReq'[q].op = numReq[q].op /\ numReq'[q].user = numReq[q].user
             /\ numReq'[q].num = numReq[q].num /\ numReq'[q].saw = numReq[q].saw
             /\ numReq'[q].pay = numReq[q].pay
  <2> DEFINE g == numReq[q].gone \/ (numReq[q].row.there /\ numReq[q].num \in deleted)
  <2>1. numReq'[q] = [numReq[q] EXCEPT !.gone = g]
    BY <1>1, <1>4
  <2>2. g \in BOOLEAN
    BY <1>1 DEF NumReqs
  <2> HIDE DEF g
  <2> QED BY <1>1, <2>1, <2>2 DEF NumReqs
<1>5. numReq' \in [NumberReq -> NumReqs]
  BY <1>1, <1>2, <1>4 DEF Done
<1> QED BY <1>1, <1>2, <1>4, <1>5

\* A request that ends, having changed no number but its user's, or (an admin's)
\* any: nobody else whose number it changed is in a request.
LEMMA EndKeeps ==
    ASSUME NumInv, NEW r \in NumberReq, numReq[r].op # "none", NEW deleted, Done(r, deleted),
           serial' = serial,
           \A p \in NumberPayment : numPay[p].status # "absent" => numPay'[p].status # "absent",
           userNumber' \in [NumberUser -> NumberSet \cup {NoOne}],
           \A u \in NumberUser : userNumber'[u] # userNumber[u] =>
               u = numReq[r].user \/ ByAdmin(numReq[r].op)
    PROVE  SawIsCurrent' /\ Serialized'
<1>1. \A q \in NumberReq : numReq'[q].op # "none" =>
         /\ q # r /\ numReq[q].op # "none"
         /\ numReq'[q].op = numReq[q].op /\ numReq'[q].user = numReq[q].user
         /\ numReq'[q].num = numReq[q].num /\ numReq'[q].saw = numReq[q].saw
         /\ numReq'[q].pay = numReq[q].pay
  BY DoneKeeps
<1>2. Serialized'
  BY <1>1 DEF NumInv, Serialized, ByAdmin
<1>3. ASSUME NEW q \in NumberReq, numReq'[q].op # "none", serial
      PROVE  userNumber'[numReq[q].user] = userNumber[numReq[q].user]
  BY <1>1, <1>3 DEF NumInv, Serialized, SawIsCurrent
<1>4. SawIsCurrent'
  BY <1>1, <1>3 DEF NumInv, SawIsCurrent
<1> QED BY <1>2, <1>4

\* A request is loaded: under serial nothing open overlaps it.
LEMMA LoadKeeps ==
    ASSUME NumberAssumption, NumInv, NEW r \in NumberReq, NEW op \in NumOps, NEW u \in NumberUser,
           NEW n \in NumberSet \cup {NoOne}, NEW p \in NumberPayment \cup {NoOne},
           op # "random" => n \in NumberSet,
           op = "paid" => p \in NumberPayment /\ numPay[p].status # "absent",
           Load(r, op, u, n, p)
    PROVE  NumInv'
<1>1. /\ UNCHANGED <<row, userNumber, numPay, serial>>
      /\ userNumber[u] # NoOne /\ userNumber[u] \in NumberSet
      /\ \A q \in NumberReq \ {r} : numReq'[q] = numReq[q]
      /\ serial => \A q \in NumberReq : ~Overlaps(numReq[q], op, u)
      /\ numReq[r].op = "none"
  BY DEF Load, NumInv, NumTypes
<1> DEFINE rw == IF op \in {"buy", "paid"} THEN row[n] ELSE NoRow
           c == (op = "random" /\ u \in cooling)
           new == [op |-> op, user |-> u, num |-> n, pay |-> p, saw |-> userNumber[u],
                   row |-> rw, gone |-> FALSE, cool |-> c]
<1>2. rw \in Row
  BY DEF NumInv, NumTypes, NoRow, Row, NumOps
<1>3. c \in BOOLEAN
  OBVIOUS
<1>4. numReq' = [numReq EXCEPT ![r] = new]
  BY DEF Load
<1> HIDE DEF rw, c
<1>5. new \in NumReqs
  BY <1>1, <1>2, <1>3 DEF NumReqs
<1>6. /\ numReq' \in [NumberReq -> NumReqs]
      /\ numReq'[r] = new
  BY <1>4, <1>5 DEF NumInv, NumTypes
<1>7. NumTypes'
  BY <1>1, <1>6 DEF NumInv, NumTypes
<1>8. SawIsCurrent'
  BY <1>1, <1>6 DEF NumInv, SawIsCurrent, NumOps
<1>9. Serialized'
  <2>1. \A q \in NumberReq \ {r} : serial /\ numReq'[q].op # "none" =>
           numReq'[q].user # u /\ ~ByAdmin(numReq'[q].op) /\ ~ByAdmin(op)
    BY <1>1 DEF Overlaps
  <2>2. new.op = op /\ new.user = u
    OBVIOUS
  <2> HIDE DEF new
  <2> QED BY <1>1, <1>6, <2>1, <2>2 DEF NumInv, Serialized
<1> QED BY <1>1, <1>7, <1>8, <1>9 DEF NumInv, Shows

\* Every step keeps the invariant.
LEMMA NumInvStep == NumInv /\ [NumbersNext]_numbersVars => NumInv'
<1> SUFFICES ASSUME NumInv, [NumbersNext]_numbersVars PROVE NumInv'
  OBVIOUS
<1> USE NumberAssumption
<1>1. ASSUME NEW u \in NumberUser, NEW n \in NumberSet, Reserve(u, n) PROVE NumInv'
  BY <1>1 DEF Reserve, Reserved, NumInv, NumTypes, Row, SawIsCurrent, Serialized, Shows
<1>2. ASSUME NEW u \in NumberUser, NEW n \in NumberSet, Unreserve(u, n) PROVE NumInv'
  <2>1. row[n] \in Row /\ row \in [NumberSet -> Row]
    BY DEF NumInv, NumTypes
  <2>2. [row[n] EXCEPT !.holder = NoOne, !.live = FALSE] \in Row
    BY <2>1 DEF Row
  <2>3. row' = [row EXCEPT ![n] = [row[n] EXCEPT !.holder = NoOne, !.live = FALSE]]
    BY <1>2, <2>1 DEF Unreserve
  <2>4. /\ row' \in [NumberSet -> Row]
        /\ \A m \in NumberSet : row'[m].owner = row[m].owner
    BY <2>1, <2>2, <2>3
  <2> QED BY <1>2, <2>4 DEF Unreserve, NumInv, NumTypes, SawIsCurrent, Serialized, Shows
<1>3. ASSUME NEW n \in NumberSet, ReservationEnds(n) PROVE NumInv'
  <2>1. /\ row' \in [NumberSet -> Row]
        /\ \A m \in NumberSet : row'[m].owner = row[m].owner
    BY <1>3 DEF ReservationEnds, NumInv, NumTypes, Row
  <2> QED BY <1>3, <2>1 DEF ReservationEnds, NumInv, NumTypes, SawIsCurrent, Serialized, Shows
<1>4. ASSUME NEW p \in NumberPayment, NEW u \in NumberUser, NEW n \in NumberSet,
             NumberCheckout(p, u, n)
      PROVE  NumInv'
  <2>1. NumTypes'
    BY <1>4 DEF NumberCheckout, Reserved, NumInv, NumTypes, NumPays, Row
  <2> QED BY <1>4, <2>1 DEF NumberCheckout, Reserved, NumInv, NumTypes, SawIsCurrent, Serialized, Shows
<1>5. ASSUME NEW u \in NumberUser, CooldownEnds(u) PROVE NumInv'
  BY <1>5 DEF CooldownEnds, NumInv, NumTypes, SawIsCurrent, Serialized, Shows
<1>6. ASSUME NEW u \in NumberUser, PurgeUser(u) PROVE NumInv'
  <2>1. /\ userNumber' = [userNumber EXCEPT ![u] = NoOne]
        /\ UNCHANGED <<row, numPay, numReq, serial>>
        /\ \A r \in NumberReq : numReq[r].user # u
    BY <1>6 DEF PurgeUser
  <2>2. NumTypes' /\ SawIsCurrent' /\ Serialized'
    BY <2>1 DEF NumInv, NumTypes, SawIsCurrent, Serialized
  <2>3. serial => Shows(row, userNumber)'
    BY <2>1 DEF NumInv, NumTypes, Row, Shows
  <2> QED BY <2>1, <2>2, <2>3 DEF NumInv
<1>7. ASSUME NEW r \in NumberReq, NEW u \in NumberUser, NEW n \in NumberSet, BuyLoad(r, u, n)
      PROVE  NumInv'
  BY <1>7, LoadKeeps DEF BuyLoad, NumOps
<1>8. ASSUME NEW r \in NumberReq, NEW p \in NumberPayment, PaidLoad(r, p) PROVE NumInv'
  <2>1. numPay[p].user \in NumberUser /\ numPay[p].num \in NumberSet
    BY <1>8 DEF PaidLoad, NumInv, NumTypes
  <2> QED BY <1>8, <2>1, LoadKeeps DEF PaidLoad, NumOps
<1>9. ASSUME NEW r \in NumberReq, NEW u \in NumberUser, RandomLoad(r, u) PROVE NumInv'
  BY <1>9, LoadKeeps DEF RandomLoad, NumOps
<1>10. ASSUME NEW r \in NumberReq, NEW u \in NumberUser, NEW n \in NumberSet, NEW force \in BOOLEAN,
              AdminLoad(r, u, n, force)
       PROVE  NumInv'
  <2>1. (IF force THEN "force" ELSE "assign") \in NumOps \ {"random"}
    BY DEF NumOps
  <2> QED BY <1>10, <2>1, LoadKeeps DEF AdminLoad
<1>11. ASSUME NEW r \in NumberReq, NumberFail(r) PROVE NumInv'
  <2>1. numReq[r].op # "none" /\ Done(r, {}) /\ UNCHANGED <<row, userNumber, numPay, serial>>
    BY <1>11 DEF NumberFail
  <2>2. SawIsCurrent' /\ Serialized'
    BY <2>1, EndKeeps DEF NumInv, NumTypes
  <2>3. NumTypes'
    BY <2>1, DoneKeeps DEF NumInv, NumTypes
  <2> QED BY <2>1, <2>2, <2>3 DEF NumInv, Shows
<1>12. ASSUME NEW r \in NumberReq, numReq[r].op \in NumOps, NEW deleted, Done(r, deleted), serial' = serial,
              row' \in [NumberSet -> Row], userNumber' \in [NumberUser -> NumberSet \cup {NoOne}],
              serial => Shows(row', userNumber'),
              \A u \in NumberUser : userNumber'[u] # userNumber[u] =>
                  u = numReq[r].user \/ ByAdmin(numReq[r].op),
              \/ numPay' = numPay
              \/ /\ numReq[r].op = "paid"
                 /\ numPay' = [numPay EXCEPT ![numReq[r].pay].status = "succeeded"]
       PROVE  NumInv'
  <2>1. numReq[r].op # "none"
    BY <1>12 DEF NumOps
  <2>2. numReq[r].op = "paid" => /\ numReq[r].pay \in NumberPayment
                                /\ numPay[numReq[r].pay].status # "absent"
    BY <2>1 DEF NumInv, SawIsCurrent
  <2>3. /\ numPay' \in [NumberPayment -> NumPays]
        /\ \A p \in NumberPayment : /\ numPay'[p].user = numPay[p].user
                                    /\ numPay'[p].num = numPay[p].num
                                    /\ (numPay'[p].status # "absent") <=> (numPay[p].status # "absent")
    <3>1. CASE numPay' = numPay
      BY <3>1 DEF NumInv, NumTypes
    <3>2. CASE /\ numReq[r].op = "paid"
               /\ numPay' = [numPay EXCEPT ![numReq[r].pay].status = "succeeded"]
      <4> DEFINE b == numReq[r].pay
      <4>1. /\ b \in NumberPayment /\ numPay[b].status # "absent"
            /\ numPay' = [numPay EXCEPT ![b] = [numPay[b] EXCEPT !.status = "succeeded"]]
        BY <2>2, <3>2
      <4>2. numPay \in [NumberPayment -> NumPays] /\ numPay[b] \in NumPays
        BY <4>1 DEF NumInv, NumTypes
      <4>3. [numPay[b] EXCEPT !.status = "succeeded"] \in NumPays
        BY <4>2 DEF NumPays
      <4> HIDE DEF b
      <4> QED BY <4>1, <4>2, <4>3 DEF NumPays
    <3> QED BY <1>12, <3>1, <3>2
  <2>5. SawIsCurrent' /\ Serialized'
    BY <1>12, <2>1, <2>3, EndKeeps
  <2>4. numReq' \in [NumberReq -> NumReqs]
    BY <1>12, <2>1, DoneKeeps
  <2>6. NumTypes'
    <3>1. ASSUME NEW p \in NumberPayment, numPay'[p].status # "absent"
          PROVE  numPay'[p].user \in NumberUser /\ numPay'[p].num \in NumberSet
      <4>1. /\ numPay'[p].user = numPay[p].user /\ numPay'[p].num = numPay[p].num
            /\ numPay[p].status # "absent"
        BY <2>3, <3>1
      <4> QED BY <4>1 DEF NumInv, NumTypes
    <3>2. /\ row' \in [NumberSet -> Row]
          /\ userNumber' \in [NumberUser -> NumberSet \cup {NoOne}]
          /\ numPay' \in [NumberPayment -> NumPays]
      BY <1>12, <2>3
    <3> QED BY <2>4, <3>1, <3>2, Zenon DEF NumTypes
  <2> QED BY <1>12, <2>5, <2>6 DEF NumInv, Shows
<1>13. ASSUME NEW r \in NumberReq, Purchase(r) PROVE NumInv'
  <2> DEFINE c == numReq[r]
  <2>1. /\ c.op \in {"buy", "paid"} /\ c.op \in NumOps
        /\ Done(r, Freed(row, c.saw)) /\ serial' = serial
        /\ row' = Assigned(row, c.user, c.num, c.saw, c.row)
        /\ userNumber' = Named(userNumber, c.user, c.num, c.saw)
        /\ \/ numPay' = numPay
           \/ c.op = "paid" /\ numPay' = [numPay EXCEPT ![c.pay].status = "succeeded"]
        /\ c.saw # c.num => NameFree(userNumber, c.user, c.num)
    BY <1>13 DEF Purchase, Assigns, Accepted, NumOps
  <2>2. c.user \in NumberUser /\ c.num \in NumberSet /\ c.row \in Row
    BY <2>1 DEF NumInv, NumTypes, NumReqs, SawIsCurrent
  <2>3. /\ row' \in [NumberSet -> Row]
        /\ userNumber' \in [NumberUser -> NumberSet \cup {NoOne}]
        /\ \A u \in NumberUser \ {c.user} : userNumber'[u] = userNumber[u]
    BY <2>1, <2>2 DEF NumInv, NumTypes, Assigned, Released, NoRow, Owned, Row, Named
  <2>4. serial => Shows(row', userNumber')
    <3>1. SUFFICES ASSUME serial PROVE Shows(row', userNumber')
      OBVIOUS
    <3>2. c.saw = userNumber[c.user] /\ c.saw \in NumberSet
      BY <2>1, <3>1 DEF NumInv, SawIsCurrent
    <3> QED BY <2>1, <2>2, <3>1, <3>2, AssignedShows DEF NumInv, NumTypes
  <2> QED BY <1>12, <2>1, <2>3, <2>4
<1>14. ASSUME NEW r \in NumberReq, Random(r) PROVE NumInv'
  <2> DEFINE c == numReq[r]
  <2>1. PICK m \in NumberSet :
           /\ Draw(Released(row, c.saw), userNumber, c.user, c.saw, m)
           /\ row' = [Released(row, c.saw) EXCEPT ![m] = Owned(c.user)]
           /\ userNumber' = Named(userNumber, c.user, m, c.saw)
    BY <1>14 DEF Random
  <2>2. /\ c.op = "random" /\ c.op \in NumOps
        /\ Done(r, Freed(row, c.saw)) /\ serial' = serial /\ numPay' = numPay
    BY <1>14 DEF Random, NumOps
  <2>3. c.user \in NumberUser
    BY <2>2 DEF NumInv, SawIsCurrent
  <2>4. NoRow \in Row /\ ~NoRow.there
    BY DEF NoRow, Row
  <2>5. row' = Assigned(row, c.user, m, c.saw, NoRow) /\ NameFree(userNumber, c.user, m)
    BY <2>1, <2>4 DEF Assigned, Draw
  <2>6. /\ row' \in [NumberSet -> Row]
        /\ userNumber' \in [NumberUser -> NumberSet \cup {NoOne}]
        /\ \A u \in NumberUser \ {c.user} : userNumber'[u] = userNumber[u]
    BY <2>1, <2>3 DEF NumInv, NumTypes, Released, NoRow, Owned, Row, Named
  <2>7. serial => Shows(row', userNumber')
    <3>1. SUFFICES ASSUME serial PROVE Shows(row', userNumber')
      OBVIOUS
    <3>2. c.saw = userNumber[c.user] /\ c.saw \in NumberSet
      BY <2>2, <3>1 DEF NumInv, SawIsCurrent
    <3>3. c.saw # m => NameFree(userNumber, c.user, m)
      BY <2>5
    <3>4. /\ row \in [NumberSet -> Row] /\ Shows(row, userNumber)
          /\ userNumber \in [NumberUser -> NumberSet \cup {NoOne}]
      BY <3>1 DEF NumInv, NumTypes
    <3> HIDE DEF c
    <3>5. Shows(Assigned(row, c.user, m, c.saw, NoRow), Named(userNumber, c.user, m, c.saw))
      BY <2>3, <2>4, <3>2, <3>3, <3>4, AssignedShows
    <3> QED BY <2>1, <2>5, <3>5
  <2> QED BY <1>12, <2>2, <2>6, <2>7
<1>15. ASSUME NEW r \in NumberReq, AdminAssign(r) PROVE NumInv'
  <2> DEFINE c == numReq[r]
  <2>1. /\ c.op \in {"assign", "force"} /\ c.op \in NumOps /\ ByAdmin(c.op)
        /\ Done(r, Freed(row, c.saw)) /\ serial' = serial /\ numPay' = numPay
        /\ row' = Assigned(row, c.user, c.num, c.saw, row[c.num])
        /\ userNumber' = Named(userNumber, c.user, c.num, c.saw)
        /\ c.saw # c.num => NameFree(userNumber, c.user, c.num)
    BY <1>15 DEF AdminAssign, Accepted, NumOps, ByAdmin
  <2>2. c.user \in NumberUser /\ c.num \in NumberSet /\ row[c.num] \in Row
    BY <2>1 DEF NumInv, NumTypes, SawIsCurrent
  <2>3. /\ row' \in [NumberSet -> Row]
        /\ userNumber' \in [NumberUser -> NumberSet \cup {NoOne}]
    BY <2>1, <2>2 DEF NumInv, NumTypes, Assigned, Released, NoRow, Owned, Row, Named
  <2>4. serial => Shows(row', userNumber')
    <3>1. SUFFICES ASSUME serial PROVE Shows(row', userNumber')
      OBVIOUS
    <3>2. c.saw = userNumber[c.user] /\ c.saw \in NumberSet
      BY <2>1, <3>1 DEF NumInv, SawIsCurrent
    <3> QED BY <2>1, <2>2, <3>1, <3>2, AssignedShows DEF NumInv, NumTypes
  <2> QED BY <1>12, <2>1, <2>3, <2>4
<1>16. ASSUME NEW r \in NumberReq, AdminForce(r) PROVE NumInv'
  <2> DEFINE c == numReq[r]
             v == row[c.num].owner
  <2>1. PICK m \in NumberSet \ {c.num} :
           LET rel == Released(row, c.num)
               rows == [rel EXCEPT ![m] = Owned(v)]
               names == [userNumber EXCEPT ![v] = m] IN
           /\ Draw(rel, userNumber, v, c.num, m)
           /\ Accepted(rows, names, c.user, c.num, c.saw, NoRow, FALSE)
           /\ row' = Assigned(rows, c.user, c.num, c.saw, NoRow)
           /\ userNumber' = Named(names, c.user, c.num, c.saw)
           /\ Done(r, {c.num} \cup Freed(rows, c.saw))
    BY <1>16 DEF AdminForce
  <2> DEFINE rows == [Released(row, c.num) EXCEPT ![m] = Owned(v)]
             names == [userNumber EXCEPT ![v] = m]
  <2>2. /\ c.op = "force" /\ c.op \in NumOps /\ ByAdmin(c.op)
        /\ v \notin {NoOne, c.user} /\ userNumber[v] = c.num
        /\ serial' = serial /\ numPay' = numPay
    BY <1>16 DEF AdminForce, NumOps, ByAdmin
  <2>3. c.user \in NumberUser /\ c.num \in NumberSet /\ v \in NumberUser
    BY <2>2 DEF NumInv, NumTypes, SawIsCurrent, Row
  <2>4. NoRow \in Row /\ ~NoRow.there
    BY DEF NoRow, Row
  <2>5. /\ rows = Assigned(row, v, m, c.num, NoRow)
        /\ names = Named(userNumber, v, m, c.num)
        /\ NameFree(userNumber, v, m)
    BY <2>1, <2>4 DEF Assigned, Named, Draw
  <2>6. /\ rows \in [NumberSet -> Row]
        /\ names \in [NumberUser -> NumberSet \cup {NoOne}]
    BY <2>3 DEF NumInv, NumTypes, Released, NoRow, Owned, Row
  <2>7. serial => Shows(rows, names)
    BY <2>2, <2>3, <2>4, <2>5, AssignedShows DEF NumInv, NumTypes
  <2>8. /\ row' = Assigned(rows, c.user, c.num, c.saw, NoRow)
        /\ userNumber' = Named(names, c.user, c.num, c.saw)
        /\ c.saw # c.num => NameFree(names, c.user, c.num)
        /\ Done(r, {c.num} \cup Freed(rows, c.saw))
    BY <2>1 DEF Accepted
  <2> HIDE DEF rows, names
  <2>9. /\ row' \in [NumberSet -> Row]
        /\ userNumber' \in [NumberUser -> NumberSet \cup {NoOne}]
    BY <2>3, <2>6, <2>8 DEF Assigned, Released, NoRow, Owned, Row, Named
  <2>10. serial => Shows(row', userNumber')
    <3>1. SUFFICES ASSUME serial PROVE Shows(row', userNumber')
      OBVIOUS
    <3>2. c.saw = userNumber[c.user] /\ c.saw \in NumberSet
      BY <2>2, <3>1 DEF NumInv, SawIsCurrent
    <3>3. names[c.user] = userNumber[c.user]
      BY <2>2, <2>3 DEF names, NumInv, NumTypes
    <3> QED BY <2>3, <2>4, <2>6, <2>7, <2>8, <3>1, <3>2, <3>3, AssignedShows
  <2> QED BY <1>12, <2>2, <2>8, <2>9, <2>10
<1>17. ASSUME NEW r \in NumberReq, AdminTake(r) PROVE NumInv'
  <2> DEFINE c == numReq[r]
             rows == [row EXCEPT ![c.num].owner = NoOne]
  <2>1. /\ c.op = "force" /\ c.op \in NumOps /\ ByAdmin(c.op)
        /\ serial' = serial /\ numPay' = numPay
        /\ row' = Assigned(rows, c.user, c.num, c.saw, rows[c.num])
        /\ userNumber' = Named(userNumber, c.user, c.num, c.saw)
        /\ c.saw # c.num => NameFree(userNumber, c.user, c.num)
        /\ Done(r, Freed(rows, c.saw))
    BY <1>17 DEF AdminTake, Accepted, NumOps, ByAdmin
  <2>2. c.user \in NumberUser /\ c.num \in NumberSet
    BY <2>1 DEF NumInv, SawIsCurrent
  <2>3. /\ rows \in [NumberSet -> Row] /\ rows[c.num] \in Row
        /\ rows[c.num].owner = NoOne
        /\ \A m \in NumberSet \ {c.num} : rows[m] = row[m]
    BY <2>2 DEF NumInv, NumTypes, Row
  <2> HIDE DEF rows
  <2>4. /\ row' \in [NumberSet -> Row]
        /\ userNumber' \in [NumberUser -> NumberSet \cup {NoOne}]
    <3>1. Released(rows, c.saw) \in [NumberSet -> Row]
      BY <2>3 DEF Released, NoRow, Row
    <3>2. Owned(c.user) \in Row /\ rows[c.num].there \in BOOLEAN
      BY <2>2, <2>3 DEF Owned, Row
    <3>3. row' \in [NumberSet -> Row]
      BY <2>1, <2>2, <2>3, <3>1, <3>2 DEF Assigned, Row
    <3> QED BY <2>1, <2>2, <3>3 DEF NumInv, NumTypes, Named
  <2>5. serial => Shows(row', userNumber')
    <3>1. SUFFICES ASSUME serial PROVE Shows(row', userNumber')
      OBVIOUS
    <3>2. c.saw = userNumber[c.user] /\ c.saw \in NumberSet
      BY <2>1, <3>1 DEF NumInv, SawIsCurrent
    <3>3. Shows(rows, userNumber)
      BY <2>3, <3>1 DEF NumInv, Shows
    <3> QED BY <2>1, <2>2, <2>3, <3>1, <3>2, <3>3, AssignedShows DEF NumInv, NumTypes
  <2> QED BY <1>12, <2>1, <2>4, <2>5
<1>18. CASE UNCHANGED numbersVars
  BY <1>18 DEF numbersVars, NumInv, NumTypes, SawIsCurrent, Serialized, Shows
<1> QED
  BY <1>1, <1>2, <1>3, <1>4, <1>5, <1>6, <1>7, <1>8, <1>9, <1>10, <1>11, <1>13, <1>14, <1>15,
     <1>16, <1>17, <1>18 DEF NumbersNext

\* For users who wait for their answers, a number's row never names somebody who
\* shows another number, for any number of users, numbers and overlapping purchases,
\* draws and assignments (OwnerShows).
THEOREM NumbersOwnerShows == NumbersSpec => []OwnerShows
<1>1. NumbersSpec => []NumInv
  BY NumInvInit, NumInvStep, PTL DEF NumbersSpec
<1>2. NumInv => OwnerShows
  BY DEF NumInv, Shows, OwnerShows
<1> QED BY <1>1, <1>2, PTL

(***************************************************************************)
(* Plans: the inductive invariant                                          *)
(***************************************************************************)

Subs == [plan : Plan \cup {"basic"}, left : Nat]
PayStatus == {"absent", "pending", "paid", "succeeded", "failed", "refunded"}

TxKinds == {"none", "settle", "fail", "refund", "cron", "basic", "bonus"} \cup Plan
Txs == [kind : TxKinds, pay : PlanPay \cup {NoPay}, step : {"loaded", "marked"},
        seen : PayStatus, sub : Subs]

PlanTypes == PlansTypeOK /\ tx \in [PlanTx -> Txs]

\* A transaction works on a payment of its kind: only a charge is settled, only what
\* was paid back is refunded, and Stripe neither fails nor refunds.
TxOnItsPayment ==
    /\ \A h \in PlanTx : /\ tx[h].kind = "settle" => tx[h].pay \in charged
                         /\ tx[h].kind = "fail" => tx[h].pay \in PaddlePay \cup McPay
                         /\ tx[h].kind = "refund" => tx[h].pay \in reverted
    /\ reverted \subseteq McPay

\* The webhooks of one Stripe payment wait for each other, on a pending payment.
StripeLocked ==
    \A h \in PlanTx : tx[h].kind = "settle" /\ tx[h].pay \in StripePay =>
        /\ planPay[tx[h].pay].status = "pending"
        /\ \A g \in PlanTx : tx[g].kind = "settle" /\ tx[g].pay = tx[h].pay => g = h

\* A Stripe payment succeeds when it is fulfilled, and stays so.
StripeOnce ==
    \A p \in StripePay : \/ planPay[p].status = "succeeded" /\ applied[p] = 1
                         \/ planPay[p].status \in {"absent", "pending"} /\ applied[p] = 0

\* Only Stripe takes a code; a payment counts once, when it succeeds.
RedeemedOnce ==
    /\ \A p \in PlanPay : planPay[p].promo => p \in StripePay
    /\ \A p \in redeemed : p \in StripePay /\ planPay[p].status = "succeeded"
    /\ IsFiniteSet(redeemed)

PlanInv == /\ PlanTypes
           /\ TxOnItsPayment
           /\ StripeLocked
           /\ StripeOnce
           /\ RedeemedOnce
           /\ PromoWithinLimit
           /\ PaidIsApplied

LEMMA PlanInvInit == PlansInit => PlanInv
<1> SUFFICES ASSUME PlansInit PROVE PlanInv
  OBVIOUS
<1> USE PlanAssumption
<1>1. PlanTypes
  BY DEF PlansInit, PlanTypes, PlansTypeOK, Plan, BasicSub, NoTx, Txs, TxKinds, PayStatus, Subs
<1>2. TxOnItsPayment /\ StripeLocked
  BY DEF PlansInit, TxOnItsPayment, StripeLocked, NoTx
<1>3. StripeOnce /\ PaidIsApplied
  BY DEF PlansInit, StripeOnce, PaidIsApplied, IsPaidStatus, PlanPay
<1>4. RedeemedOnce /\ PromoWithinLimit
  BY FS_EmptySet DEF PlansInit, RedeemedOnce, PromoWithinLimit
<1> QED BY <1>1, <1>2, <1>3, <1>4 DEF PlanInv

\* What a transaction computes for the subscription has its type.
LEMMA PlanWrites ==
    ASSUME sub \in Subs, NEW s \in Subs, NEW t \in Subs, NEW plan \in Plan
    PROVE  /\ Activated(s, plan) \in Subs /\ Bonus(s) \in Subs /\ Granted(s, plan) \in Subs
           /\ BasicSub \in Subs
           /\ Written(s, t) \in Subs
<1>1. /\ Activated(s, plan) \in Subs /\ Granted(s, plan) \in Subs /\ BasicSub \in Subs
      /\ Written(s, t) \in Subs
  BY DEF Activated, Granted, BasicSub, Written, Subs, Plan
<1>2. Bonus(s) \in Subs
  BY DEF Bonus, Subs, Plan
<1> QED BY <1>1, <1>2

\* A transaction begins: its handler was idle, a Stripe payment is locked by it alone.
LEMMA BeginKeeps ==
    ASSUME PlanInv, NEW h \in PlanTx, NEW kind \in TxKinds, NEW p \in PlanPay \cup {NoPay},
           kind = "settle" => p \in charged,
           kind = "settle" /\ p \in StripePay => planPay[p].status = "pending" /\ ~Locked(p),
           kind = "fail" => p \in PaddlePay \cup McPay,
           kind = "refund" => p \in reverted,
           Begin(h, kind, p)
    PROVE  PlanInv'
<1> DEFINE seen == IF p = NoPay THEN "absent" ELSE planPay[p].status
           new == [kind |-> kind, pay |-> p, step |-> "loaded", seen |-> seen, sub |-> sub]
<1>1. /\ tx' = [tx EXCEPT ![h] = new]
      /\ UNCHANGED <<sub, planPay, charged, reverted, applied, promo, redeemed>>
  BY DEF Begin
<1>2. seen \in PayStatus /\ sub \in Subs
  BY DEF PlanInv, PlanTypes, PlansTypeOK, PayStatus, Subs
<1> HIDE DEF seen
<1>3. new \in Txs /\ new.kind = kind /\ new.pay = p
  BY <1>2 DEF Txs
<1> HIDE DEF new
<1>4. /\ tx' \in [PlanTx -> Txs]
      /\ tx'[h] = new
      /\ \A g \in PlanTx \ {h} : tx'[g] = tx[g]
  BY <1>1, <1>3 DEF PlanInv, PlanTypes
<1>5. PlanTypes'
  BY <1>1, <1>4 DEF PlanInv, PlanTypes, PlansTypeOK
<1>6. TxOnItsPayment'
  BY <1>1, <1>3, <1>4 DEF PlanInv, TxOnItsPayment
<1>7. StripeLocked'
  BY <1>1, <1>3, <1>4 DEF PlanInv, StripeLocked, Locked
<1>8. (StripeOnce /\ RedeemedOnce /\ PromoWithinLimit /\ PaidIsApplied)'
  BY <1>1 DEF PlanInv, StripeOnce, RedeemedOnce, PromoWithinLimit, PaidIsApplied
<1> QED BY <1>5, <1>6, <1>7, <1>8 DEF PlanInv

\* A transaction ends and is forgotten, having written the subscription only.
LEMMA EndForgets ==
    ASSUME PlanInv, NEW h \in PlanTx, End(h)
    PROVE  /\ tx' \in [PlanTx -> Txs]
           /\ \A g \in PlanTx : tx'[g].kind # "none" => g # h /\ tx'[g] = tx[g]
<1>1. NoTx \in Txs /\ NoTx.kind = "none"
  BY DEF NoTx, Txs, TxKinds, PayStatus, BasicSub, Subs
<1> QED BY <1>1 DEF End, PlanInv, PlanTypes

LEMMA EndKeepsPlan ==
    ASSUME PlanInv, NEW h \in PlanTx, End(h), sub' \in Subs,
           UNCHANGED <<planPay, charged, reverted, applied, promo, redeemed>>
    PROVE  PlanInv'
<1>1. /\ tx' \in [PlanTx -> Txs]
      /\ \A g \in PlanTx : tx'[g].kind # "none" => g # h /\ tx'[g] = tx[g]
  BY EndForgets
<1>2. PlanTypes'
  BY <1>1 DEF PlanInv, PlanTypes, PlansTypeOK, Subs
<1>3. TxOnItsPayment'
  BY <1>1 DEF PlanInv, TxOnItsPayment
<1>4. StripeLocked'
  BY <1>1 DEF PlanInv, StripeLocked
<1>5. (StripeOnce /\ RedeemedOnce /\ PromoWithinLimit /\ PaidIsApplied)'
  BY DEF PlanInv, StripeOnce, RedeemedOnce, PromoWithinLimit, PaidIsApplied
<1> QED BY <1>2, <1>3, <1>4, <1>5 DEF PlanInv

\* A payment that is not Stripe's gets another status; Stripe's keep theirs.
LEMMA StatusKeeps ==
    ASSUME PlanInv, NEW h \in PlanTx, End(h), NEW p \in PlanPay, p \notin StripePay,
           NEW status \in PayStatus \ {"paid", "succeeded"},
           planPay' = [planPay EXCEPT ![p].status = status],
           UNCHANGED <<sub, charged, reverted, applied, promo, redeemed>>
    PROVE  PlanInv'
<1>1. /\ planPay' \in [PlanPay -> [status : PayStatus, plan : Plan, promo : BOOLEAN]]
      /\ \A q \in PlanPay : /\ planPay'[q].promo = planPay[q].promo
                            /\ q # p => planPay'[q] = planPay[q]
                            /\ q = p => planPay'[q].status = status
  <2>1. planPay[p] \in [status : PayStatus, plan : Plan, promo : BOOLEAN]
    BY DEF PlanInv, PlanTypes, PlansTypeOK, PayStatus
  <2>2. /\ [planPay[p] EXCEPT !.status = status] \in [status : PayStatus, plan : Plan, promo : BOOLEAN]
        /\ [planPay[p] EXCEPT !.status = status].status = status
        /\ [planPay[p] EXCEPT !.status = status].promo = planPay[p].promo
    BY <2>1
  <2>3. planPay' = [planPay EXCEPT ![p] = [planPay[p] EXCEPT !.status = status]]
    OBVIOUS
  <2> QED BY <2>2, <2>3 DEF PlanInv, PlanTypes, PlansTypeOK, PayStatus
<1>2. /\ tx' \in [PlanTx -> Txs]
      /\ \A g \in PlanTx : tx'[g].kind # "none" => g # h /\ tx'[g] = tx[g]
  BY EndForgets
<1>3. PlanTypes'
  BY <1>1, <1>2 DEF PlanInv, PlanTypes, PlansTypeOK, PayStatus
<1>4. TxOnItsPayment' /\ StripeLocked'
  BY <1>1, <1>2 DEF PlanInv, TxOnItsPayment, StripeLocked, PlanPay
<1>5. StripeOnce' /\ RedeemedOnce' /\ PromoWithinLimit'
  BY <1>1 DEF PlanInv, StripeOnce, RedeemedOnce, PromoWithinLimit, PlanPay
<1>6. PaidIsApplied'
  BY <1>1 DEF PlanInv, PaidIsApplied, IsPaidStatus
<1> QED BY <1>3, <1>4, <1>5, <1>6 DEF PlanInv

\* A payment succeeds, is fulfilled and redeems its code in one commit.
LEMMA SettleKeeps ==
    ASSUME PlanAssumption, PlanInv, NEW h \in PlanTx, Settle(h)
    PROVE  PlanInv'
<1> DEFINE p == tx[h].pay
           paid == IF p \in StripePay THEN "succeeded" ELSE "paid"
<1>1. /\ tx[h].kind = "settle" /\ End(h)
      /\ planPay[p].promo => Redeemable(p)
      /\ planPay' = [planPay EXCEPT ![p].status = paid]
      /\ sub' = Written(tx[h].sub, Activated(tx[h].sub, planPay[p].plan))
      /\ applied' = [applied EXCEPT ![p] = @ + 1]
      /\ IF planPay[p].promo
         THEN /\ promo' = [promo EXCEPT !.used = @ + 1]
              /\ redeemed' = redeemed \cup {p}
         ELSE UNCHANGED <<promo, redeemed>>
      /\ UNCHANGED <<charged, reverted>>
  BY DEF Settle
<1>2. p \in charged /\ p \in PlanPay /\ tx[h] \in Txs
  BY <1>1 DEF PlanInv, PlanTypes, PlansTypeOK, TxOnItsPayment
<1>3. paid \in {"succeeded", "paid"}
  OBVIOUS
<1>4. p \in StripePay => paid = "succeeded" /\ planPay[p].status = "pending" /\ applied[p] = 0
  BY <1>1 DEF PlanInv, StripeLocked, StripeOnce
<1> HIDE DEF p, paid
<1>5. /\ planPay' \in [PlanPay -> [status : PayStatus, plan : Plan, promo : BOOLEAN]]
      /\ \A q \in PlanPay : /\ planPay'[q].promo = planPay[q].promo
                            /\ q # p => planPay'[q] = planPay[q]
                            /\ q = p => planPay'[q].status = paid
  <2>1. planPay[p] \in [status : PayStatus, plan : Plan, promo : BOOLEAN] /\ paid \in PayStatus
    BY <1>2, <1>3 DEF PlanInv, PlanTypes, PlansTypeOK, PayStatus
  <2>2. /\ [planPay[p] EXCEPT !.status = paid] \in [status : PayStatus, plan : Plan, promo : BOOLEAN]
        /\ [planPay[p] EXCEPT !.status = paid].status = paid
        /\ [planPay[p] EXCEPT !.status = paid].promo = planPay[p].promo
    BY <2>1
  <2>3. planPay' = [planPay EXCEPT ![p] = [planPay[p] EXCEPT !.status = paid]]
    BY <1>1
  <2> QED BY <1>2, <2>2, <2>3 DEF PlanInv, PlanTypes, PlansTypeOK, PayStatus
<1>6. /\ tx' \in [PlanTx -> Txs]
      /\ \A g \in PlanTx : tx'[g].kind # "none" => g # h /\ tx'[g] = tx[g]
  BY <1>1, EndForgets
<1>7. /\ applied' \in [PlanPay -> Nat]
      /\ applied'[p] = applied[p] + 1
      /\ \A q \in PlanPay \ {p} : applied'[q] = applied[q]
  BY <1>1, <1>2 DEF PlanInv, PlanTypes, PlansTypeOK
<1>8. sub' \in Subs
  <2>1. tx[h].sub \in Subs /\ planPay[p].plan \in Plan /\ sub \in Subs
    BY <1>2 DEF Txs, PlanInv, PlanTypes, PlansTypeOK, Subs
  <2>2. Activated(tx[h].sub, planPay[p].plan) \in Subs
    BY <2>1, PlanWrites
  <2> QED BY <1>1, <2>1, <2>2, PlanWrites
<1>9. /\ promo' \in [used : Nat, live : BOOLEAN]
      /\ promo'.used = promo.used + (IF planPay[p].promo THEN 1 ELSE 0)
      /\ redeemed' = IF planPay[p].promo THEN redeemed \cup {p} ELSE redeemed
  BY <1>1 DEF PlanInv, PlanTypes, PlansTypeOK
<1>10. PlanTypes'
  BY <1>1, <1>2, <1>5, <1>6, <1>7, <1>8, <1>9 DEF PlanInv, PlanTypes, PlansTypeOK, PayStatus, Subs
<1>11. TxOnItsPayment'
  BY <1>1, <1>6 DEF PlanInv, TxOnItsPayment
<1>12. StripeLocked'
  <2>1. SUFFICES ASSUME NEW g \in PlanTx, tx'[g].kind = "settle", tx'[g].pay \in StripePay
                 PROVE  /\ planPay'[tx'[g].pay].status = "pending"
                        /\ \A f \in PlanTx : tx'[f].kind = "settle" /\ tx'[f].pay = tx'[g].pay => f = g
    BY DEF StripeLocked
  <2>2. g # h /\ tx'[g] = tx[g]
    BY <1>6, <2>1
  <2>3. tx[g].pay # p
    BY <1>1, <2>1, <2>2 DEF p, PlanInv, StripeLocked
  <2>4. planPay'[tx[g].pay].status = "pending"
    BY <1>5, <2>1, <2>2, <2>3 DEF PlanInv, StripeLocked, PlanPay
  <2>5. \A f \in PlanTx : tx'[f].kind = "settle" => tx'[f] = tx[f]
    BY <1>6
  <2> QED BY <2>1, <2>2, <2>4, <2>5 DEF PlanInv, StripeLocked
<1>13. StripeOnce'
  BY <1>4, <1>5, <1>7 DEF PlanInv, StripeOnce, PlanPay
<1>14. PaidIsApplied'
  <2>1. ASSUME NEW q \in PlanPay, q # p
        PROVE  /\ IsPaidStatus(planPay'[q].status) => applied'[q] > 0
               /\ applied'[q] > 0 => q \in charged'
               /\ q \in StripePay => applied'[q] <= 1
    BY <1>1, <1>5, <1>7, <2>1 DEF PlanInv, PaidIsApplied
  <2>2. /\ applied'[p] > 0 /\ p \in charged'
        /\ p \in StripePay => applied'[p] <= 1
    BY <1>1, <1>2, <1>4, <1>7 DEF PlanInv, PlanTypes, PlansTypeOK
  <2> QED BY <2>1, <2>2 DEF PaidIsApplied
<1>15. CASE planPay[p].promo
  <2>1. p \in StripePay /\ paid = "succeeded" /\ promo.used < PromoLimit
    BY <1>1, <1>2, <1>4, <1>15 DEF PlanInv, RedeemedOnce, Redeemable
  <2>2. p \notin redeemed
    BY <1>4, <2>1 DEF PlanInv, RedeemedOnce
  <2>3. redeemed' = redeemed \cup {p} /\ promo'.used = promo.used + 1
    BY <1>9, <1>15 DEF PlanInv, PlanTypes, PlansTypeOK
  <2>4. IsFiniteSet(redeemed') /\ Cardinality(redeemed') = Cardinality(redeemed) + 1
    BY <2>2, <2>3, FS_AddElement DEF PlanInv, RedeemedOnce
  <2>5. RedeemedOnce'
    BY <1>5, <2>1, <2>3, <2>4 DEF PlanInv, RedeemedOnce, PlanPay
  <2>6. PromoWithinLimit'
    BY <2>1, <2>3, <2>4, PlanAssumption DEF PlanInv, PromoWithinLimit, PlanTypes, PlansTypeOK
  <2> QED BY <1>10, <1>11, <1>12, <1>13, <1>14, <2>5, <2>6 DEF PlanInv
<1>16. CASE ~planPay[p].promo
  <2>1. redeemed' = redeemed /\ promo' = promo
    BY <1>1, <1>16
  <2>2. RedeemedOnce'
    BY <1>3, <1>4, <1>5, <2>1 DEF PlanInv, RedeemedOnce, PlanPay
  <2>3. PromoWithinLimit'
    BY <2>1 DEF PlanInv, PromoWithinLimit
  <2> QED BY <1>10, <1>11, <1>12, <1>13, <1>14, <2>2, <2>3 DEF PlanInv
<1> QED BY <1>15, <1>16

\* Every step keeps the invariant.
LEMMA PlanInvStep == PlanInv /\ [PlansNext]_plansVars => PlanInv'
<1> SUFFICES ASSUME PlanInv, [PlansNext]_plansVars PROVE PlanInv'
  OBVIOUS
<1> USE PlanAssumption
<1>1. ASSUME NEW p \in PlanPay, NEW plan \in Plan, NEW withPromo \in BOOLEAN,
             PlanCheckout(p, plan, withPromo)
      PROVE  PlanInv'
  <2> DEFINE new == [status |-> "pending", plan |-> plan, promo |-> withPromo]
  <2>1. /\ planPay[p].status = "absent"
        /\ planPay' = [planPay EXCEPT ![p] = new]
        /\ withPromo => p \in StripePay
        /\ UNCHANGED <<sub, charged, reverted, applied, promo, redeemed, tx>>
    BY <1>1 DEF PlanCheckout
  <2>2. /\ planPay' \in [PlanPay -> [status : PayStatus, plan : Plan, promo : BOOLEAN]]
        /\ planPay'[p] = new
        /\ \A q \in PlanPay \ {p} : planPay'[q] = planPay[q]
    BY <2>1 DEF PlanInv, PlanTypes, PlansTypeOK, PayStatus
  <2>3. PlanTypes' /\ TxOnItsPayment'
    BY <2>1, <2>2 DEF PlanInv, PlanTypes, PlansTypeOK, TxOnItsPayment, PayStatus
  <2>4. StripeLocked' /\ StripeOnce'
    BY <2>1, <2>2 DEF PlanInv, StripeLocked, StripeOnce, PlanPay
  <2>5. RedeemedOnce' /\ PromoWithinLimit' /\ PaidIsApplied'
    BY <2>1, <2>2 DEF PlanInv, RedeemedOnce, PromoWithinLimit, PaidIsApplied, IsPaidStatus, PlanPay
  <2> QED BY <2>3, <2>4, <2>5 DEF PlanInv
<1>2. ASSUME NEW p \in PlanPay, ProviderCharges(p) PROVE PlanInv'
  BY <1>2 DEF ProviderCharges, PlanInv, PlanTypes, PlansTypeOK, TxOnItsPayment, StripeLocked,
              StripeOnce, RedeemedOnce, PromoWithinLimit, PaidIsApplied
<1>3. ASSUME NEW p \in PlanPay, ProviderReverts(p) PROVE PlanInv'
  BY <1>3 DEF ProviderReverts, PlanInv, PlanTypes, PlansTypeOK, TxOnItsPayment, StripeLocked,
              StripeOnce, RedeemedOnce, PromoWithinLimit, PaidIsApplied
<1>4. ASSUME PromoToggle PROVE PlanInv'
  <2>1. promo' \in [used : Nat, live : BOOLEAN] /\ promo'.used = promo.used
    BY <1>4 DEF PromoToggle, PlanInv, PlanTypes, PlansTypeOK
  <2> QED BY <1>4, <2>1 DEF PromoToggle, PlanInv, PlanTypes, PlansTypeOK, TxOnItsPayment,
                            StripeLocked, StripeOnce, RedeemedOnce, PromoWithinLimit, PaidIsApplied
<1>5. ASSUME MonthPasses PROVE PlanInv'
  <2>1. sub' \in [plan : Plan \cup {"basic"}, left : Nat]
    BY <1>5 DEF MonthPasses, PlanInv, PlanTypes, PlansTypeOK
  <2> QED BY <1>5, <2>1 DEF MonthPasses, PlanInv, PlanTypes, PlansTypeOK, TxOnItsPayment,
                            StripeLocked, StripeOnce, RedeemedOnce, PromoWithinLimit, PaidIsApplied
<1>6. ASSUME NEW h \in PlanTx, NEW p \in PlanPay,
             \/ StripeCalls(h, p) \/ PaddleCalls(h, p) \/ McSuccess(h, p) \/ McPoll(h, p)
      PROVE  PlanInv'
  <2>1. /\ Begin(h, "settle", p) /\ p \in charged
        /\ p \in StripePay => planPay[p].status = "pending" /\ ~Locked(p)
    BY <1>6 DEF StripeCalls, PaddleCalls, McSuccess, McPoll
  <2> QED BY <2>1, BeginKeeps DEF TxKinds
<1>7. ASSUME NEW h \in PlanTx, NEW p \in PlanPay, FailureCalls(h, p) PROVE PlanInv'
  BY <1>7, BeginKeeps DEF FailureCalls, TxKinds
<1>8. ASSUME NEW h \in PlanTx, NEW p \in PlanPay, RevertCalls(h, p) PROVE PlanInv'
  BY <1>8, BeginKeeps DEF RevertCalls, TxKinds
<1>9. ASSUME NEW h \in PlanTx, CronLoads(h) PROVE PlanInv'
  BY <1>9, BeginKeeps DEF CronLoads, TxKinds
<1>10. ASSUME NEW h \in PlanTx, BasicLoads(h) \/ BonusLoads(h) PROVE PlanInv'
  BY <1>10, BeginKeeps DEF BasicLoads, BonusLoads, TxKinds
<1>11. ASSUME NEW h \in PlanTx, NEW plan \in Plan, PatchLoads(h, plan) PROVE PlanInv'
  <2>1. plan \in TxKinds /\ plan \notin {"settle", "fail", "refund"}
    BY DEF TxKinds, Plan
  <2> QED BY <1>11, <2>1, BeginKeeps DEF PatchLoads
<1>12. ASSUME NEW h \in PlanTx, Mark(h) PROVE PlanInv'
  <2>1. tx[h] \in Txs /\ sub \in Subs /\ tx \in [PlanTx -> Txs]
    BY DEF PlanInv, PlanTypes, PlansTypeOK, Subs
  <2>2. tx' = [tx EXCEPT ![h] = [tx[h] EXCEPT !.step = "marked", !.sub = sub]]
    BY <1>12, <2>1 DEF Mark
  <2>3. [tx[h] EXCEPT !.step = "marked", !.sub = sub] \in Txs
    BY <2>1 DEF Txs
  <2>4. /\ tx' \in [PlanTx -> Txs]
        /\ \A g \in PlanTx : tx'[g].kind = tx[g].kind /\ tx'[g].pay = tx[g].pay
    BY <2>1, <2>2, <2>3 DEF Txs
  <2>5. UNCHANGED <<sub, planPay, charged, reverted, applied, promo, redeemed>>
    BY <1>12 DEF Mark
  <2> QED BY <2>4, <2>5 DEF PlanInv, PlanTypes, PlansTypeOK, TxOnItsPayment, StripeLocked,
                            StripeOnce, RedeemedOnce, PromoWithinLimit, PaidIsApplied
<1>13. ASSUME NEW h \in PlanTx, Settle(h) PROVE PlanInv'
  BY <1>13, SettleKeeps
<1>14. ASSUME NEW h \in PlanTx, RollBack(h) PROVE PlanInv'
  BY <1>14, EndKeepsPlan DEF RollBack, PlanInv, PlanTypes, PlansTypeOK, Subs
<1>15. ASSUME NEW h \in PlanTx, Record(h) PROVE PlanInv'
  <2> DEFINE p == tx[h].pay
             status == IF tx[h].kind = "refund" THEN "refunded"
                       ELSE IF tx[h].seen = "failed" THEN planPay[p].status ELSE "failed"
  <2>1. p \in PlanPay /\ p \notin StripePay
    BY <1>15 DEF Record, PlanInv, TxOnItsPayment, PlanPay
  <2>2. /\ planPay' = [planPay EXCEPT ![p].status = status] /\ End(h)
        /\ UNCHANGED <<sub, charged, reverted, applied, promo, redeemed>>
    BY <1>15 DEF Record
  <2>3. CASE status \notin {"paid", "succeeded"}
    <3>1. planPay[p].status \in PayStatus
      BY <2>1 DEF PlanInv, PlanTypes, PlansTypeOK, PayStatus
    <3>2. status \in PayStatus \ {"paid", "succeeded"}
      BY <2>3, <3>1 DEF PayStatus
    <3> HIDE DEF status, p
    <3> QED BY <2>1, <2>2, <3>2, StatusKeeps
  <2>4. CASE status \in {"paid", "succeeded"}
    <3>1. status = planPay[p].status
      BY <2>4
    <3>2. planPay' = planPay
      BY <2>1, <2>2, <3>1 DEF PlanInv, PlanTypes, PlansTypeOK
    <3> QED BY <2>2, <3>2, EndKeepsPlan DEF PlanInv, PlanTypes, PlansTypeOK, Subs
  <2> QED BY <2>3, <2>4
<1>16. ASSUME NEW h \in PlanTx, Rewrite(h) PROVE PlanInv'
  <2> DEFINE s == tx[h].sub
  <2>1. sub \in Subs /\ s \in Subs
    BY DEF PlanInv, PlanTypes, PlansTypeOK, Subs, Txs
  <2>2. tx[h].kind \in Plan => Granted(s, tx[h].kind) \in Subs
    BY <2>1, PlanWrites
  <2>3. Bonus(s) \in Subs /\ BasicSub \in Subs
    BY <2>1, PlanWrites DEF Plan
  <2>4. PICK t \in Subs : sub' = Written(s, t)
    BY <1>16, <2>2, <2>3 DEF Rewrite
  <2>5. sub' \in Subs
    BY <2>1, <2>4, PlanWrites DEF Plan
  <2> QED BY <1>16, <2>5, EndKeepsPlan DEF Rewrite
<1>17. CASE UNCHANGED plansVars
  BY <1>17 DEF plansVars, PlanInv, PlanTypes, PlansTypeOK, TxOnItsPayment, StripeLocked,
               StripeOnce, RedeemedOnce, PromoWithinLimit, PaidIsApplied
<1> QED
  BY <1>1, <1>2, <1>3, <1>4, <1>5, <1>6, <1>7, <1>8, <1>9, <1>10, <1>11, <1>12, <1>13, <1>14,
     <1>15, <1>16, <1>17 DEF PlansNext

\* A promo code is redeemed at most max_uses times and used_count counts the
\* redemptions, however many checkouts were offered it and however their webhooks
\* overlap (PromoWithinLimit).
THEOREM PlansPromoLimit == PlansSpec => []PromoWithinLimit
<1>1. PlansSpec => []PlanInv
  BY PlanInvInit, PlanInvStep, PTL DEF PlansSpec
<1> QED BY <1>1, PTL DEF PlanInv

\* A payment is shown as paid only with its plan given, nothing is given that nobody
\* charged, and Stripe's locked payments give their plan once (PaidIsApplied).
THEOREM PlansPaidApplied == PlansSpec => []PaidIsApplied
<1>1. PlansSpec => []PlanInv
  BY PlanInvInit, PlanInvStep, PTL DEF PlansSpec
<1> QED BY <1>1, PTL DEF PlanInv

(***************************************************************************)
(* Verification: the inductive invariant                                   *)
(***************************************************************************)

DocRows == [type : DocType \cup {NoDocType}, review : Review, there : BOOLEAN]
ReqStatus == {"none", "draft", "pending", "approved", "rejected", "needs_resubmit"}

OwnerOps == {"none", "upload", "drop", "submit"}
Calls == [op : OwnerOps \cup {"review"}, docs : [Doc -> DocRows], was : ReqStatus,
          type : DocType \cup {NoDocType}, to : [Doc -> Review]]

BadgeTypes ==
    /\ vStatus \in ReqStatus
    /\ docs \in [Doc -> DocRows]
    /\ badge \in BOOLEAN /\ verified \in BOOLEAN /\ byHand \in BOOLEAN
    /\ vCall \in [Reviewer \cup {Owner} -> Calls]
    /\ vCall[Owner].op \in OwnerOps
    /\ \A r \in Reviewer : vCall[r].op \in {"none", "review"}

Reviewing(r) == vCall[r].op = "review"
OwnerIdle == vCall[Owner].op = "none"

Complete(ds) == \A t \in RequiredDoc : \E d \in There(ds) : ds[d].type = t

\* One review at a time, of what is still there: the business waits for its decision.
OneReview ==
    \A r \in Reviewer : Reviewing(r) =>
        /\ vStatus = "pending"
        /\ vCall[r].docs = docs
        /\ \A q \in Reviewer : Reviewing(q) => q = r

\* What is pending is complete, and the business does not work on it.
PendingWaits == vStatus = "pending" => OwnerIdle /\ Complete(docs)

\* A call of the business works on the request as it stands.
OwnerIsCurrent ==
    ~OwnerIdle => /\ vCall[Owner].docs = docs
                  /\ vCall[Owner].was = vStatus
                  /\ vCall[Owner].op = "submit" => Complete(docs)

\* A badge given by a review closes the request: nobody works on it any more.
BadgeCloses ==
    badge /\ ~byHand => /\ verified
                        /\ vStatus = "approved"
                        /\ Unapproved(docs) = {} /\ Complete(docs)
                        /\ OwnerIdle

BadgeInv == BadgeTypes /\ (oneAdmin => /\ OneReview
                                       /\ PendingWaits
                                       /\ OwnerIsCurrent
                                       /\ BadgeCloses)

LEMMA BadgeInvInit == VerificationInit => BadgeInv
<1> SUFFICES ASSUME VerificationInit PROVE BadgeInv
  OBVIOUS
<1>1. NoCall \in Calls /\ NoCall.op = "none"
  BY DEF NoCall, NoDoc, Calls, DocRows, Review, ReqStatus, OwnerOps
<1>2. BadgeTypes
  BY <1>1 DEF VerificationInit, BadgeTypes, NoDoc, DocRows, Review, ReqStatus, OwnerOps
<1>3. OneReview /\ PendingWaits /\ OwnerIsCurrent /\ BadgeCloses
  BY <1>1 DEF VerificationInit, OneReview, Reviewing, PendingWaits, OwnerIsCurrent, OwnerIdle,
              BadgeCloses
<1> QED BY <1>2, <1>3 DEF BadgeInv

\* A call that ends leaves the others as they are.
LEMMA CallEndsKeeps ==
    ASSUME BadgeInv, NEW c \in Reviewer \cup {Owner}, CallEnds(c)
    PROVE  /\ vCall' \in [Reviewer \cup {Owner} -> Calls]
           /\ vCall'[Owner].op \in OwnerOps
           /\ \A r \in Reviewer : vCall'[r].op \in {"none", "review"}
           /\ vCall'[c].op = "none"
           /\ \A d \in Reviewer \cup {Owner} : vCall'[d].op # "none" => d # c /\ vCall'[d] = vCall[d]
           /\ vCall[Owner].op = "none" => vCall'[Owner].op = "none"
<1>1. NoCall \in Calls /\ NoCall.op = "none"
  BY DEF NoCall, NoDoc, Calls, DocRows, Review, ReqStatus, OwnerOps
<1>2. /\ vCall' \in [Reviewer \cup {Owner} -> Calls]
      /\ vCall'[c] = NoCall
      /\ \A d \in (Reviewer \cup {Owner}) \ {c} : vCall'[d] = vCall[d]
  BY <1>1 DEF CallEnds, BadgeInv, BadgeTypes
<1>3. vCall[Owner].op \in OwnerOps /\ \A r \in Reviewer : vCall[r].op \in {"none", "review"}
  BY DEF BadgeInv, BadgeTypes
<1>4. vCall'[Owner].op \in OwnerOps
  BY <1>1, <1>2, <1>3 DEF OwnerOps
<1>5. \A r \in Reviewer : vCall'[r].op \in {"none", "review"}
  BY <1>1, <1>2, <1>3
<1> QED BY <1>1, <1>2, <1>4, <1>5

\* The business begins a call: its request is not pending, so nobody reviews it.
LEMMA OwnerLoads ==
    ASSUME VerificationAssumption, BadgeInv, NEW op \in OwnerOps \ {"none"},
           NEW t \in DocType \cup {NoDocType},
           OpenForOwner, op = "submit" => Complete(docs), CallLoad(Owner, op, t, NoCall.to),
           UNCHANGED <<vStatus, docs, badge, verified, byHand, oneAdmin>>
    PROVE  BadgeInv'
<1> DEFINE new == [op |-> op, docs |-> docs, was |-> vStatus, type |-> t, to |-> NoCall.to]
<1>1. vCall' = [vCall EXCEPT ![Owner] = new] /\ vCall[Owner].op = "none"
  BY DEF CallLoad
<1>2. new \in Calls
  BY DEF NoCall, Calls, BadgeInv, BadgeTypes, Review
<1>3. new.op = op /\ new.docs = docs /\ new.was = vStatus
  OBVIOUS
<1> HIDE DEF new
<1>4. /\ vCall' \in [Reviewer \cup {Owner} -> Calls]
      /\ vCall'[Owner] = new
      /\ \A r \in Reviewer : vCall'[r] = vCall[r]
  BY <1>1, <1>2, VerificationAssumption DEF BadgeInv, BadgeTypes
<1>5. BadgeTypes'
  BY <1>3, <1>4 DEF BadgeInv, BadgeTypes
<1>6. ASSUME oneAdmin' PROVE (OneReview /\ PendingWaits /\ OwnerIsCurrent /\ BadgeCloses)'
  <2>1. OneReview /\ PendingWaits /\ BadgeCloses
    BY <1>6 DEF BadgeInv
  <2>2. vStatus # "pending" /\ ~verified
    BY DEF OpenForOwner
  <2>3. OneReview' /\ PendingWaits'
    BY <1>4, <2>1, <2>2 DEF OneReview, Reviewing, PendingWaits
  <2>4. OwnerIsCurrent'
    BY <1>3, <1>4 DEF OwnerIsCurrent, Complete, There
  <2>5. BadgeCloses'
    BY <2>1, <2>2 DEF BadgeCloses
  <2> QED BY <2>3, <2>4, <2>5
<1> QED BY <1>5, <1>6 DEF BadgeInv

\* A call of the business ends with documents and a status that is pending only when
\* they are complete.
LEMMA OwnerEnds ==
    ASSUME VerificationAssumption, BadgeInv, vCall[Owner].op # "none", CallEnds(Owner),
           docs' \in [Doc -> DocRows], vStatus' \in ReqStatus,
           oneAdmin /\ vStatus' = "pending" => Complete(docs'),
           UNCHANGED <<badge, verified, byHand, oneAdmin>>
    PROVE  BadgeInv'
<1>1. BadgeTypes'
  BY CallEndsKeeps DEF BadgeInv, BadgeTypes
<1>2. /\ vCall'[Owner].op = "none"
      /\ \A r \in Reviewer : vCall'[r].op # "none" => vCall[r].op # "none" /\ vCall'[r] = vCall[r]
  BY CallEndsKeeps
<1>3. ASSUME oneAdmin' PROVE (OneReview /\ PendingWaits /\ OwnerIsCurrent /\ BadgeCloses)'
  <2>1. OneReview /\ PendingWaits /\ BadgeCloses
    BY <1>3 DEF BadgeInv
  <2>2. \A r \in Reviewer : ~Reviewing(r)
    BY <2>1 DEF OneReview, PendingWaits, OwnerIdle
  <2>3. OneReview'
    BY <1>2, <2>2 DEF OneReview, Reviewing
  <2>4. PendingWaits' /\ OwnerIsCurrent'
    BY <1>2, <1>3 DEF PendingWaits, OwnerIsCurrent, OwnerIdle, Complete, There
  <2>5. BadgeCloses'
    BY <2>1 DEF BadgeCloses, OwnerIdle
  <2> QED BY <2>3, <2>4, <2>5
<1> QED BY <1>1, <1>3 DEF BadgeInv

\* What the reviews of a call leave of a document.
LEMMA ReviewsWrittenKeeps ==
    ASSUME docs \in [Doc -> DocRows], NEW c \in Calls, NEW to \in [Doc -> Review]
    PROVE  /\ ReviewsWritten(c, to) \in [Doc -> DocRows]
           /\ \A e \in Doc : /\ ReviewsWritten(c, to)[e].there = docs[e].there
                             /\ ReviewsWritten(c, to)[e].type = docs[e].type
                             /\ c.docs = docs /\ docs[e].there => ReviewsWritten(c, to)[e].review = to[e]
<1>1. ASSUME NEW e \in Doc
      PROVE  /\ [docs[e] EXCEPT !.review = to[e]] \in DocRows
             /\ [docs[e] EXCEPT !.review = to[e]].there = docs[e].there
             /\ [docs[e] EXCEPT !.review = to[e]].type = docs[e].type
             /\ [docs[e] EXCEPT !.review = to[e]].review = to[e]
  <2>1. docs[e] \in DocRows /\ to[e] \in Review
    OBVIOUS
  <2> QED BY <2>1 DEF DocRows
<1> QED BY <1>1 DEF ReviewsWritten

\* Every step keeps the invariant.
LEMMA BadgeInvStep == BadgeInv /\ [VerificationNext]_verificationVars => BadgeInv'
<1> SUFFICES ASSUME BadgeInv, [VerificationNext]_verificationVars PROVE BadgeInv'
  OBVIOUS
<1> USE VerificationAssumption
<1>1. ASSUME NEW t \in DocType, UploadLoad(t) PROVE BadgeInv'
  BY <1>1, OwnerLoads DEF UploadLoad, OwnerOps
<1>2. ASSUME NEW t \in DocType, DeleteDocLoad(t) PROVE BadgeInv'
  BY <1>2, OwnerLoads DEF DeleteDocLoad, OwnerOps
<1>3. ASSUME SubmitLoad PROVE BadgeInv'
  BY <1>3, OwnerLoads DEF SubmitLoad, OwnerOps, Complete
<1>4. ASSUME NEW c \in Reviewer, NEW to \in [Doc -> {"approved", "rejected", "resubmit"}],
             ReviewLoad(c, to)
      PROVE  BadgeInv'
  <2> DEFINE new == [op |-> "review", docs |-> docs, was |-> vStatus, type |-> NoDocType, to |-> to]
  <2>1. /\ vCall' = [vCall EXCEPT ![c] = new]
        /\ vStatus = "pending"
        /\ oneAdmin => \A r \in Reviewer : vCall[r].op = "none"
        /\ UNCHANGED <<vStatus, docs, badge, verified, byHand, oneAdmin>>
    BY <1>4 DEF ReviewLoad, CallLoad
  <2>2. new \in Calls /\ new.op = "review" /\ new.docs = docs
    BY DEF Calls, BadgeInv, BadgeTypes, Review
  <2> HIDE DEF new
  <2>3. /\ vCall' \in [Reviewer \cup {Owner} -> Calls]
        /\ vCall'[c] = new
        /\ \A d \in (Reviewer \cup {Owner}) \ {c} : vCall'[d] = vCall[d]
    BY <2>1, <2>2 DEF BadgeInv, BadgeTypes
  <2>4. BadgeTypes'
    BY <2>1, <2>2, <2>3 DEF BadgeInv, BadgeTypes
  <2>5. ASSUME oneAdmin' PROVE (OneReview /\ PendingWaits /\ OwnerIsCurrent /\ BadgeCloses)'
    <3>1. PendingWaits /\ OwnerIsCurrent /\ BadgeCloses
      BY <2>1, <2>5 DEF BadgeInv
    <3>2. OneReview'
      BY <2>1, <2>2, <2>3, <2>5 DEF OneReview, Reviewing
    <3>3. vCall'[Owner] = vCall[Owner]
      BY <2>3
    <3>4. (PendingWaits /\ OwnerIsCurrent /\ BadgeCloses)'
      BY <2>1, <3>1, <3>3 DEF PendingWaits, OwnerIsCurrent, BadgeCloses, OwnerIdle, Complete, There,
                              Unapproved
    <3> QED BY <3>2, <3>4
  <2> QED BY <2>4, <2>5 DEF BadgeInv
<1>5. ASSUME NEW c \in Reviewer \cup {Owner}, CallFails(c) PROVE BadgeInv'
  <2>1. CallEnds(c) /\ UNCHANGED <<vStatus, docs, badge, verified, byHand, oneAdmin>>
    BY <1>5 DEF CallFails
  <2>2. BadgeTypes'
    BY <2>1, CallEndsKeeps DEF BadgeInv, BadgeTypes
  <2>3. /\ \A d \in Reviewer \cup {Owner} : vCall'[d].op # "none" => vCall'[d] = vCall[d]
        /\ vCall[Owner].op = "none" => vCall'[Owner].op = "none"
    BY <2>1, CallEndsKeeps
  <2>4. ASSUME oneAdmin' PROVE (OneReview /\ PendingWaits /\ OwnerIsCurrent /\ BadgeCloses)'
    <3>1. OneReview /\ PendingWaits /\ OwnerIsCurrent /\ BadgeCloses
      BY <2>1, <2>4 DEF BadgeInv
    <3>2. OneReview'
      BY <2>1, <2>3, <3>1 DEF OneReview, Reviewing
    <3>3. (PendingWaits /\ OwnerIsCurrent /\ BadgeCloses)'
      BY <2>1, <2>3, <3>1 DEF PendingWaits, OwnerIsCurrent, BadgeCloses, OwnerIdle, Complete, There,
                              Unapproved
    <3> QED BY <3>2, <3>3
  <2> QED BY <2>2, <2>4 DEF BadgeInv
<1>6. ASSUME NEW d \in Doc, Upload(d) PROVE BadgeInv'
  <2> DEFINE c == vCall[Owner]
  <2>1. /\ c.op = "upload" /\ CallEnds(Owner)
        /\ vStatus' = StatusWritten(c.was, "draft")
        /\ UNCHANGED <<badge, verified, byHand, oneAdmin>>
    BY <1>6 DEF Upload
  <2>2. c \in Calls /\ docs \in [Doc -> DocRows] /\ vStatus \in ReqStatus
    BY DEF BadgeInv, BadgeTypes
  <2>3. docs' \in [Doc -> DocRows]
    <3>1. \A e \in Doc : [docs[e] EXCEPT !.there = FALSE] \in DocRows
      BY <2>2 DEF DocRows
    <3>2. [type |-> c.type, review |-> "pending", there |-> TRUE] \in DocRows
      BY <2>2 DEF Calls, DocRows, Review
    <3> QED BY <1>6, <2>2, <3>1, <3>2 DEF Upload
  <2>4. vStatus' \in ReqStatus
    BY <2>1, <2>2 DEF StatusWritten, ReqStatus
  <2>5. oneAdmin => vStatus' # "pending"
    BY <2>1 DEF StatusWritten, BadgeInv, PendingWaits, OwnerIdle
  <2> QED BY <2>1, <2>3, <2>4, <2>5, OwnerEnds
<1>7. ASSUME DeleteDoc PROVE BadgeInv'
  <2> DEFINE c == vCall[Owner]
  <2>1. /\ c.op = "drop" /\ CallEnds(Owner)
        /\ UNCHANGED <<vStatus, badge, verified, byHand, oneAdmin>>
    BY <1>7 DEF DeleteDoc
  <2>2. docs \in [Doc -> DocRows] /\ vStatus \in ReqStatus
    BY DEF BadgeInv, BadgeTypes
  <2>3. docs' \in [Doc -> DocRows]
    <3>1. \A e \in Doc : [docs[e] EXCEPT !.there = FALSE] \in DocRows
      BY <2>2 DEF DocRows
    <3> QED BY <1>7, <2>2, <3>1 DEF DeleteDoc
  <2>4. oneAdmin => vStatus' # "pending"
    BY <2>1 DEF BadgeInv, PendingWaits, OwnerIdle
  <2> QED BY <2>1, <2>2, <2>3, <2>4, OwnerEnds
<1>8. ASSUME Submit PROVE BadgeInv'
  <2> DEFINE c == vCall[Owner]
             to == [e \in Doc |-> IF c.docs[e].review = "approved" THEN "approved" ELSE "pending"]
  <2>1. /\ c.op = "submit" /\ CallEnds(Owner)
        /\ docs' = ReviewsWritten(c, to)
        /\ vStatus' = StatusWritten(c.was, "pending")
        /\ UNCHANGED <<badge, verified, byHand, oneAdmin>>
    BY <1>8 DEF Submit
  <2>2. c \in Calls /\ docs \in [Doc -> DocRows] /\ vStatus \in ReqStatus
    BY DEF BadgeInv, BadgeTypes
  <2>3. to \in [Doc -> Review]
    BY DEF Review
  <2> HIDE DEF to
  <2>4. /\ docs' \in [Doc -> DocRows]
        /\ \A e \in Doc : docs'[e].there = docs[e].there /\ docs'[e].type = docs[e].type
    BY <2>1, <2>2, <2>3, ReviewsWrittenKeeps
  <2>5. vStatus' \in ReqStatus
    BY <2>1, <2>2 DEF StatusWritten, ReqStatus
  <2>6. oneAdmin => Complete(docs')
    <3>1. oneAdmin => Complete(docs)
      BY <2>1 DEF BadgeInv, OwnerIsCurrent, OwnerIdle
    <3> QED BY <2>4, <3>1 DEF Complete, There
  <2> QED BY <2>1, <2>4, <2>5, <2>6, OwnerEnds
<1>9. ASSUME NEW c \in Reviewer, Decide(c) PROVE BadgeInv'
  <2> DEFINE r == vCall[c]
             given == {r.to[e] : e \in There(r.docs)}
  <2>1. /\ r.op = "review" /\ CallEnds(c)
        /\ docs' = ReviewsWritten(r, r.to)
        /\ vStatus' = IF given = {"approved"} THEN "approved"
                      ELSE IF given = {"rejected"} THEN "rejected" ELSE "needs_resubmit"
        /\ verified' = (verified \/ given = {"approved"})
        /\ badge' = (badge \/ given = {"approved"})
        /\ UNCHANGED <<byHand, oneAdmin>>
    BY <1>9 DEF Decide
  <2>2. r \in Calls /\ r.to \in [Doc -> Review] /\ docs \in [Doc -> DocRows]
    BY DEF BadgeInv, BadgeTypes, Calls
  <2>3. /\ docs' \in [Doc -> DocRows]
        /\ \A e \in Doc : /\ docs'[e].there = docs[e].there /\ docs'[e].type = docs[e].type
                          /\ r.docs = docs /\ docs[e].there => docs'[e].review = r.to[e]
    BY <2>1, <2>2, ReviewsWrittenKeeps
  <2>4. vStatus' \in ReqStatus \ {"pending"}
    BY <2>1 DEF ReqStatus
  <2>5. BadgeTypes'
    BY <2>1, <2>3, <2>4, CallEndsKeeps DEF BadgeInv, BadgeTypes
  <2>6. /\ vCall'[c].op = "none"
        /\ \A d \in Reviewer \cup {Owner} : vCall'[d].op # "none" => d # c /\ vCall'[d] = vCall[d]
        /\ vCall[Owner].op = "none" => vCall'[Owner].op = "none"
    BY <2>1, CallEndsKeeps
  <2>7. ASSUME oneAdmin' PROVE (OneReview /\ PendingWaits /\ OwnerIsCurrent /\ BadgeCloses)'
    <3>1. OneReview /\ PendingWaits /\ BadgeCloses
      BY <2>1, <2>7 DEF BadgeInv
    <3>2. /\ r.docs = docs /\ vStatus = "pending" /\ \A q \in Reviewer : Reviewing(q) => q = c
      BY <2>1, <3>1 DEF OneReview, Reviewing
    <3>3. OwnerIdle' /\ Complete(docs)
      BY <2>6, <3>1, <3>2 DEF PendingWaits, OwnerIdle
    <3>4. OneReview'
      BY <2>6, <3>2 DEF OneReview, Reviewing
    <3>5. PendingWaits' /\ OwnerIsCurrent'
      BY <2>4, <3>3 DEF PendingWaits, OwnerIsCurrent
    <3>6. Complete(docs')
      BY <2>3, <3>3 DEF Complete, There
    <3>7. ASSUME badge', ~byHand' PROVE given = {"approved"}
      <4>1. badge => vStatus = "approved"
        BY <2>1, <3>1, <3>7 DEF BadgeCloses
      <4> QED BY <2>1, <3>2, <3>7, <4>1
    <3>8. ASSUME given = {"approved"} PROVE Unapproved(docs') = {}
      <4>1. ASSUME NEW e \in Doc, docs'[e].there PROVE docs'[e].review = "approved"
        <5>1. docs[e].there /\ docs'[e].review = r.to[e]
          BY <2>3, <3>2, <4>1
        <5>2. r.to[e] \in given
          BY <3>2, <5>1 DEF There
        <5> QED BY <3>8, <5>1, <5>2
      <4> QED BY <4>1 DEF Unapproved, There
    <3> HIDE DEF given
    <3>9. BadgeCloses'
      BY <2>1, <3>3, <3>6, <3>7, <3>8 DEF BadgeCloses, Complete, Unapproved, There
    <3> QED BY <3>4, <3>5, <3>9
  <2> QED BY <2>5, <2>7 DEF BadgeInv
<1>10. ASSUME NEW on \in BOOLEAN, PatchBadge(on) PROVE BadgeInv'
  <2>1. /\ badge' = on /\ verified' = (verified \/ on) /\ byHand' = TRUE
        /\ UNCHANGED <<vStatus, docs, vCall, oneAdmin>>
    BY <1>10 DEF PatchBadge
  <2>2. BadgeTypes'
    BY <2>1 DEF BadgeInv, BadgeTypes
  <2>3. ASSUME oneAdmin' PROVE (OneReview /\ PendingWaits /\ OwnerIsCurrent /\ BadgeCloses)'
    <3>1. OneReview /\ PendingWaits /\ OwnerIsCurrent
      BY <2>1, <2>3 DEF BadgeInv
    <3>2. (OneReview /\ PendingWaits /\ OwnerIsCurrent)'
      BY <2>1, <3>1 DEF OneReview, Reviewing, PendingWaits, OwnerIsCurrent, OwnerIdle, Complete, There
    <3> QED BY <2>1, <3>2 DEF BadgeCloses
  <2> QED BY <2>2, <2>3 DEF BadgeInv
<1>11. CASE UNCHANGED verificationVars
  BY <1>11 DEF verificationVars, BadgeInv, BadgeTypes, OneReview, Reviewing, PendingWaits,
               OwnerIsCurrent, OwnerIdle, BadgeCloses, Complete, Unapproved, There
<1> QED
  BY <1>1, <1>2, <1>3, <1>4, <1>5, <1>6, <1>7, <1>8, <1>9, <1>10, <1>11 DEF VerificationNext

\* While the admins take turns, a badge not set by hand stands on an approved request
\* with every required document there and approved, for any number of documents,
\* types and admins (BadgeIsReviewed).
THEOREM VerifiedIsReviewed == VerificationSpec => []BadgeIsReviewed
<1>1. VerificationSpec => []BadgeInv
  BY BadgeInvInit, BadgeInvStep, PTL DEF VerificationSpec
<1>2. BadgeInv => BadgeIsReviewed
  BY DEF BadgeInv, BadgeCloses, BadgeIsReviewed, Complete
<1> QED BY <1>1, <1>2, PTL

=================================================================================
