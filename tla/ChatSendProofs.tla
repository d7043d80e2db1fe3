--------------------------- MODULE ChatSendProofs ---------------------------
(***************************************************************************)
(* Theorems of ChatSend and of MessageLife: for any number of messages, of *)
(* requests or jobs handled at the same time and of edits, any size of the *)
(* outbox, and any number of rollbacks and restarts.  Sending is shown to  *)
(* implement the promise of Delivery.  And of PaymentWatch and Catalogue,  *)
(* two more screens of the app that wait for answers: what is waited for   *)
(* has, in every state, somebody who will bring it.                        *)
(***************************************************************************)
EXTENDS ChatSend, MessageLife, PaymentWatch, Catalogue, TLAPS

Elements(s) == {s[i] : i \in DOMAIN s}

\* Taking m off a queue keeps it a queue and keeps every other message on it.
LEMMA WithoutKeeps ==
    ASSUME NEW s \in Seq(Message), NEW m
    PROVE  /\ Without(s, m) \in Seq(Message)
           /\ Elements(s) \ {m} \subseteq Elements(Without(s, m))
<1>1. CASE ~ \E i \in DOMAIN s : s[i] = m
  BY <1>1 DEF Without, Elements
<1>2. CASE \E i \in DOMAIN s : s[i] = m
  <2> DEFINE at == CHOOSE i \in DOMAIN s : s[i] = m
             w == [i \in 1 .. Len(s) - 1 |-> IF i < at THEN s[i] ELSE s[i + 1]]
  <2>1. Without(s, m) = w
    BY <1>2 DEF Without
  <2>2. at \in 1 .. Len(s) /\ s[at] = m
    BY <1>2
  <2> HIDE DEF at
  <2>3. Len(s) \in Nat /\ Len(s) - 1 \in Nat
    BY <2>2
  <2>4. w \in Seq(Message)
    BY <2>2, <2>3
  <2>5. ASSUME NEW x \in Elements(s), x # m
        PROVE  x \in Elements(w)
    <3>1. PICK j \in 1 .. Len(s) : s[j] = x
      BY <2>5 DEF Elements
    <3>2. j # at
      BY <2>2, <2>5, <3>1
    <3>3. CASE j < at
      <4>1. j \in DOMAIN w /\ w[j] = x
        BY <2>2, <2>3, <3>1, <3>3
      <4> QED BY <4>1 DEF Elements
    <3>4. CASE j > at
      <4>1. j - 1 \in 1 .. Len(s) - 1 /\ ~(j - 1 < at) /\ (j - 1) + 1 = j
        BY <2>2, <2>3, <3>1, <3>4
      <4>2. j - 1 \in DOMAIN w /\ w[j - 1] = x
        BY <3>1, <4>1
      <4> QED BY <4>2 DEF Elements
    <3> QED BY <2>2, <3>1, <3>2, <3>3, <3>4
  <2> QED BY <2>1, <2>4, <2>5
<1> QED BY <1>1, <1>2

\* Putting a message on the outbox keeps every message that is there; the message
\* itself is queued, or the user is told that there is no room.
LEMMA EnqueueKeeps ==
    ASSUME outbox \in Seq(Message), told \subseteq Message,
           NEW m \in Message, Enqueue(m)
    PROVE  /\ outbox' \in Seq(Message)
           /\ told' \subseteq Message
           /\ told \subseteq told'
           /\ Queued \subseteq Queued'
           /\ m \in Queued' \cup told'
<1>1. CASE m \in Queued \/ Len(outbox) < MaxOutbox
  <2> DEFINE w == Without(outbox, m)
  <2>1. outbox' = Append(w, m) /\ told' = told
    BY <1>1 DEF Enqueue
  <2>2. w \in Seq(Message) /\ Elements(outbox) \ {m} \subseteq Elements(w)
    BY WithoutKeeps
  <2> HIDE DEF w
  <2>3. Append(w, m) \in Seq(Message) /\ Len(Append(w, m)) = Len(w) + 1
    BY <2>2
  <2>4. Len(w) \in Nat
    BY <2>2
  <2>5. m \in Elements(outbox')
    <3>1. Len(w) + 1 \in DOMAIN outbox' /\ outbox'[Len(w) + 1] = m
      BY <2>1, <2>2, <2>3, <2>4
    <3> QED BY <3>1 DEF Elements
  <2>6. Elements(w) \subseteq Elements(outbox')
    <3>1. SUFFICES ASSUME NEW i \in DOMAIN w
                   PROVE  i \in DOMAIN outbox' /\ outbox'[i] = w[i]
      BY DEF Elements
    <3> QED BY <2>1, <2>2, <2>3, <2>4, <3>1
  <2> QED BY <2>1, <2>2, <2>3, <2>5, <2>6 DEF Queued, Elements
<1>2. CASE ~(m \in Queued \/ Len(outbox) < MaxOutbox)
  BY <1>2 DEF Enqueue, Queued
<1> QED BY <1>1, <1>2

(***************************************************************************)
(* Type correctness                                                        *)
(***************************************************************************)

Requests == [step : Handling \cup Answered, msg : Message]

\* A request that is not free stays well typed when it is answered, moved on or
\* let go of.
LEMMA RequestType ==
    ASSUME request \in [Request -> {Free} \cup Requests],
           NEW r \in Request, request[r].step # "free",
           \/ \E a \in Answered : Answer(r, a)
           \/ \E s \in Handling : Advance(r, s)
           \/ Release(r)
    PROVE  request' \in [Request -> {Free} \cup Requests]
<1>1. request[r] \in Requests
  BY DEF Free
<1>2. \A a \in Answered \cup Handling : [request[r] EXCEPT !.step = a] \in Requests
  BY <1>1 DEF Requests
<1> QED BY <1>1, <1>2 DEF Answer, Advance, Release

\* The table, the requests and the device keep their types (TypeOK): a flush in
\* flight always knows the message its answer is about.
THEOREM SendTypeCorrect == Spec => []TypeOK
<1> USE BoundAssumption DEF Requests
<1>0. <<>> \in Seq(Message)
  OBVIOUS
<1>1. Init => TypeOK
  <2> SUFFICES ASSUME Init PROVE TypeOK
    OBVIOUS
  <2>1. 0 \in 0 .. MaxRollback /\ 0 \in 0 .. MaxKill
    OBVIOUS
  <2>2. request \in [Request -> {Free} \cup Requests]
    BY DEF Init
  <2>3. stored \in [Message -> Nat] /\ burnt \in [Message -> 0 .. MaxRollback]
    BY <2>1 DEF Init
  <2> QED BY <1>0, <2>1, <2>2, <2>3 DEF Init, TypeOK
<1>2. TypeOK /\ [Next]_vars => TypeOK'
  <2> SUFFICES ASSUME TypeOK, [Next]_vars PROVE TypeOK'
    OBVIOUS
  <2> USE DEF server, flushing
  <2>0. \A m : Without(outbox, m) \in Seq(Message)
    BY WithoutKeeps DEF TypeOK
  <2>1. ASSUME NEW r \in Request, Serve(r) PROVE TypeOK'
    <3>1. request[r].step # "free"
      BY <2>1 DEF Serve, Fail, Refuse, Look, Insert, Conflict, Commit, Rollback
    <3>2. \/ \E a \in Answered : Answer(r, a)
          \/ \E s \in Handling : Advance(r, s)
      BY <2>1 DEF Serve, Fail, Refuse, Look, Insert, Conflict, Commit, Rollback,
                  Answered, Handling
    <3>3. request' \in [Request -> {Free} \cup Requests]
      BY <3>1, <3>2, RequestType DEF TypeOK
    <3>4. request[r].msg \in Message
      BY <3>1 DEF TypeOK, Free
    <3>5. stored' \in [Message -> Nat]
      <4>1. CASE Commit(r)
        BY <3>4, <4>1 DEF Commit, TypeOK
      <4>2. CASE stored' = stored
        BY <4>2 DEF TypeOK
      <4> QED BY <2>1, <4>1, <4>2 DEF Serve, Fail, Refuse, Look, Insert,
                                      Conflict, Rollback
    <3>6. burnt' \in [Message -> 0 .. MaxRollback]
      <4>1. CASE Rollback(r)
        <5>1. burnt[request[r].msg] + 1 \in 0 .. MaxRollback
          BY <3>4, <4>1 DEF Rollback, TypeOK
        <5> QED BY <3>4, <4>1, <5>1 DEF Rollback, TypeOK
      <4>2. CASE burnt' = burnt
        BY <4>2 DEF TypeOK
      <4> QED BY <2>1, <4>1, <4>2 DEF Serve, Fail, Refuse, Look, Insert,
                                      Conflict, Commit
    <3> QED BY <2>1, <3>3, <3>5, <3>6 DEF Serve, TypeOK
  <2>2. ASSUME NEW m \in Message, NEW r \in Request, SendTo(r, m)
        PROVE  request' \in [Request -> {Free} \cup Requests]
    BY <2>2 DEF SendTo, TypeOK, Handling
  <2>3. ASSUME NEW m \in Message, Write(m) PROVE TypeOK'
    BY <2>2, <2>3 DEF Write, TypeOK
  <2>4. ASSUME NEW m \in Message, Enqueue(m)
        PROVE  outbox' \in Seq(Message) /\ told' \subseteq Message
    BY <2>4, EnqueueKeeps DEF TypeOK
  <2>5. ASSUME NEW m \in Message, WriteOffline(m) PROVE TypeOK'
    BY <2>4, <2>5 DEF WriteOffline, TypeOK
  <2>6. ASSUME NEW r \in Request, Release(r)
        PROVE  request' \in [Request -> {Free} \cup Requests]
    BY <2>6 DEF Release, TypeOK
  <2>7. ASSUME NEW m \in Message, CallOver(m),
               outbox' \in Seq(Message), told' \subseteq Message
        PROVE  TypeOK'
    BY <2>6, <2>7 DEF CallOver, TypeOK
  <2>8. ASSUME NEW m \in Message,
               ComposerOk(m) \/ ComposerRefused(m) \/ ComposerFails(m)
        PROVE  TypeOK'
    <3>1. outbox' \in Seq(Message) /\ told' \subseteq Message
      BY <2>0, <2>4, <2>8 DEF ComposerOk, ComposerRefused, ComposerFails, TypeOK
    <3> QED BY <2>7, <2>8, <3>1 DEF ComposerOk, ComposerRefused, ComposerFails
  <2>9. ASSUME NEW m \in Message, Discard(m) PROVE TypeOK'
    BY <2>0, <2>9 DEF Discard, TypeOK
  <2>10. CASE Trigger
    BY <2>10 DEF Trigger, TypeOK
  <2>11. CASE ProbeOk \/ ProbeFails \/ PassOver
    <3>1. ASSUME NextPass
          PROVE  pass' \in {"idle", "probing", "sending"} /\ queued' \in BOOLEAN
      BY <3>1, Zenon DEF NextPass, TypeOK
    <3>2. CASE ProbeOk
      BY <3>2 DEF ProbeOk, TypeOK
    <3>3. CASE ProbeFails
      BY <3>1, <3>3 DEF ProbeFails, TypeOK
    <3>4. CASE PassOver
      BY <3>1, <3>4 DEF PassOver, TypeOK
    <3> QED BY <2>11, <3>2, <3>3, <3>4
  <2>12. CASE FlushSend
    <3>1. Head(batch) \in Message
      BY <2>12 DEF FlushSend, TypeOK
    <3> QED BY <2>2, <2>12, <3>1 DEF FlushSend, TypeOK
  <2>13. CASE FlushOk \/ FlushRefused
    <3>1. Head(batch) \in Message /\ Tail(batch) \in Seq(Message) /\ flight \in Request
      BY <2>13 DEF FlushOk, FlushRefused, FlushHears, TypeOK
    <3> QED BY <2>0, <2>6, <2>13, <3>1, ZenonT(60) DEF FlushOk, FlushRefused, FlushHears, TypeOK
  <2>14. CASE FlushFails
    <3>1. pass' \in {"idle", "probing", "sending"} /\ queued' \in BOOLEAN
      BY <2>14, Zenon DEF FlushFails, NextPass, TypeOK
    <3> QED BY <1>0, <2>6, <2>14, <3>1 DEF FlushFails, TypeOK
  <2>15. CASE Kill
    <3>1. kills' \in 0 .. MaxKill
      BY <2>15 DEF Kill, TypeOK
    <3>2. request' \in [Request -> {Free} \cup Requests]
      BY <2>15 DEF Kill, TypeOK
    <3> QED BY <1>0, <2>15, <3>1, <3>2 DEF Kill, TypeOK
  <2>16. CASE UNCHANGED vars
    BY <2>16 DEF vars, TypeOK, Queued
  <2> QED
    BY <2>1, <2>3, <2>5, <2>8, <2>9, <2>10, <2>11, <2>12, <2>13, <2>14, <2>15,
       <2>16 DEF Next, Compose, Flush
<1> QED BY <1>1, <1>2, PTL DEF Spec

(***************************************************************************)
(* The inductive invariant.  TypeOK is taken from SendTypeCorrect.         *)
(***************************************************************************)

\* Whoever waits for a request waits for its own message, and nobody else does.
OwnRequests ==
    /\ \A m \in Message : call[m] # None =>
          request[call[m]].msg = m /\ call[m] # flight
    /\ flight # None => request[flight].msg = Head(batch)

\* At most one insert of a message is open or committed, and an OK is sent only
\* for a message that is committed.
OneRow ==
    /\ \A m \in Message : stored[m] <= 1
    /\ \A r \in Request : request[r].step = "ok" => stored[request[r].msg] > 0
    /\ \A r \in Request : request[r].step = "inserted" => stored[request[r].msg] = 0
    /\ \A r, q \in Request :
          request[r].step = "inserted" /\ request[q].step = "inserted"
             /\ request[r].msg = request[q].msg => r = q

IInv == OwnRequests /\ OneRow /\ NothingLost

\* A step of the backend keeps the queue and the calls as they are.
LEMMA ServeKeepsIInv ==
    ASSUME TypeOK, IInv, NEW r \in Request, Serve(r)
    PROVE  IInv'
<1> DEFINE m == request[r].msg
<1>1. request[r].step # "free" /\ request[r] # Free /\ m \in Message
  BY DEF Serve, Fail, Refuse, Look, Insert, Conflict, Commit, Rollback, TypeOK, Free
<1>2. /\ call' = call /\ flight' = flight /\ batch' = batch /\ outbox' = outbox
      /\ written' = written /\ told' = told
      /\ discarded' = discarded /\ interrupted' = interrupted
  BY DEF Serve, flushing
<1>3. \A q \in Request \ {r} : request'[q] = request[q]
  BY DEF Serve, Fail, Refuse, Look, Insert, Conflict, Commit, Rollback, Answer,
         Advance, TypeOK
<1>4. Waiting(r) => request'[r].msg = m
  BY <1>1 DEF Serve, Fail, Refuse, Look, Insert, Conflict, Commit, Rollback, Answer,
              Advance, TypeOK
<1>5. request'[r] = Free \/ request'[r].msg = m
  BY <1>1 DEF Serve, Fail, Refuse, Look, Insert, Conflict, Commit, Rollback, Answer,
              Advance, TypeOK
<1>6. OwnRequests'
  <2>1. ASSUME NEW n \in Message, call[n] # None
        PROVE  request'[call[n]].msg = n
    <3>1. call[n] \in Request /\ request[call[n]].msg = n
      BY <2>1 DEF IInv, OwnRequests, TypeOK
    <3>2. call[n] = r => Waiting(r)
      BY DEF Waiting
    <3> QED BY <1>3, <1>4, <3>1, <3>2
  <2>2. ASSUME flight # None
        PROVE  request'[flight].msg = Head(batch)
    <3>1. flight \in Request /\ request[flight].msg = Head(batch)
      BY <2>2 DEF IInv, OwnRequests, TypeOK
    <3>2. flight = r => Waiting(r)
      BY DEF Waiting
    <3> QED BY <1>3, <1>4, <3>1, <3>2
  <2>3. \A n \in Message : call[n] # None => call[n] # flight
    BY DEF IInv, OwnRequests
  <2> QED BY <1>2, <2>1, <2>2, <2>3 DEF OwnRequests
<1>7. \/ stored' = stored
      \/ Commit(r) /\ stored' = [stored EXCEPT ![m] = @ + 1]
  BY DEF Serve, Fail, Refuse, Look, Insert, Conflict, Commit, Rollback, server
<1>8. ASSUME NEW n \in Message, stored[n] > 0 PROVE stored'[n] > 0
  <2>1. stored[n] \in Nat /\ stored \in [Message -> Nat]
    BY DEF TypeOK
  <2>2. stored'[n] = stored[n] \/ stored'[n] = stored[n] + 1
    BY <1>1, <1>7, <2>1
  <2> QED BY <1>8, <2>1, <2>2
<1>9. NothingLost'
  BY <1>2, <1>8 DEF IInv, NothingLost, Queued, TypeOK
<1>10. OneRow'
  <2>1. CASE Commit(r)
    <3>1. /\ stored[m] = 0
          /\ stored'[m] = 1
          /\ \A n \in Message \ {m} : stored'[n] = stored[n]
      BY <1>1, <2>1 DEF Commit, IInv, OneRow, TypeOK
    <3>2. request'[r].step \in {"ok", "free"}
      BY <2>1 DEF Commit, Answer, Free, TypeOK
    <3>3. \A q \in Request \ {r} :
             request[q].step = "inserted" => request[q].msg # m
      BY <2>1 DEF Commit, IInv, OneRow
    <3>4. \A q \in Request : request[q].step \in {"ok", "inserted"} =>
                               request[q].msg \in Message
      BY DEF TypeOK, Free
    <3>5. \A n \in Message : stored'[n] <= 1
      BY <3>1 DEF IInv, OneRow
    <3>6. \A q \in Request : request'[q].step = "ok" => stored'[request'[q].msg] > 0
      <4>1. request'[r].step = "ok" => stored'[request'[r].msg] > 0
        BY <1>5, <3>1 DEF Free
      <4>2. \A q \in Request \ {r} : request[q].step = "ok" => stored'[request[q].msg] > 0
        BY <3>1, <3>4 DEF IInv, OneRow
      <4> QED BY <1>3, <4>1, <4>2
    <3>7. \A q \in Request : request'[q].step = "inserted" =>
                               q # r /\ stored'[request'[q].msg] = 0
      BY <1>3, <3>1, <3>2, <3>3, <3>4 DEF IInv, OneRow
    <3>8. \A p, q \in Request :
             request'[p].step = "inserted" /\ request'[q].step = "inserted"
                /\ request'[p].msg = request'[q].msg => p = q
      BY <1>3, <3>7 DEF IInv, OneRow
    <3> QED BY <3>5, <3>6, <3>7, <3>8 DEF OneRow
  <2>2. CASE Insert(r)
    <3>1. /\ stored' = stored /\ stored[m] = 0
          /\ request'[r] = [step |-> "inserted", msg |-> m]
          /\ \A q \in Request : request[q] # [step |-> "inserted", msg |-> m]
      BY <1>1, <2>2 DEF Insert, KeyFree, Advance, server, TypeOK
    <3>2. ASSUME NEW q \in Request, request[q].step = "inserted"
          PROVE  request[q].msg # m
      <4>1. request[q] \in [step : Handling \cup Answered, msg : Message]
        BY <3>2 DEF TypeOK, Free
      <4>2. request[q] = [step |-> "inserted", msg |-> request[q].msg]
        BY <3>2, <4>1
      <4> QED BY <3>1, <4>2
    <3> QED BY <1>3, <3>1, <3>2 DEF IInv, OneRow
  <2>3. CASE Fail(r) \/ Refuse(r) \/ Look(r) \/ Conflict(r) \/ Rollback(r)
    <3>1. stored' = stored
      BY <2>3 DEF Fail, Refuse, Look, Conflict, Rollback, server
    <3>2. request'[r].step # "inserted"
      BY <2>3 DEF Fail, Refuse, Look, Conflict, Rollback, Answer, Advance, Free, TypeOK
    <3>3. request'[r].step = "ok" => stored[m] > 0 /\ request'[r].msg = m
      BY <1>5, <2>3 DEF Fail, Refuse, Look, Conflict, Rollback, Answer, Advance,
                        Free, TypeOK
    <3> QED BY <1>3, <3>1, <3>2, <3>3 DEF IInv, OneRow
  <2> QED BY <2>1, <2>2, <2>3 DEF Serve
<1> QED BY <1>6, <1>9, <1>10 DEF IInv

\* Sending on a free request and letting a request go make no row and no OK.
LEMMA DeviceKeepsOneRow ==
    ASSUME TypeOK, OneRow, UNCHANGED stored,
           \A r \in Request : \/ request'[r] = request[r]
                              \/ request'[r].step \in {"free", "sent"}
    PROVE  OneRow'
  BY DEF OneRow

\* A device step that lets go of r, and of whoever waited for it, keeps the other
\* requests with their owners.
LEMMA ReleaseKeeps ==
    ASSUME TypeOK, IInv, NEW r \in Request, Release(r), UNCHANGED stored
    PROVE  /\ OneRow'
           /\ \A q \in Request \ {r} : request'[q] = request[q]
<1>1. /\ \A q \in Request \ {r} : request'[q] = request[q]
      /\ request'[r] = request[r] \/ request'[r] = Free
  BY DEF Release, TypeOK
<1>2. OneRow'
  BY <1>1, DeviceKeepsOneRow DEF IInv, Free
<1> QED BY <1>1, <1>2

\* A free request that is sent has no owner yet and disturbs none.
LEMMA SendKeeps ==
    ASSUME TypeOK, IInv, NEW r \in Request, NEW m \in Message, SendTo(r, m),
           UNCHANGED stored
    PROVE  /\ OneRow'
           /\ request'[r].msg = m
           /\ flight # r
           /\ \A n \in Message : call[n] # r
           /\ \A q \in Request \ {r} : request'[q] = request[q]
<1>1. /\ \A q \in Request \ {r} : request'[q] = request[q]
      /\ request'[r] = [step |-> "sent", msg |-> m]
      /\ request[r].msg = None
  BY DEF SendTo, TypeOK, Free
<1>2. OneRow'
  BY <1>1, DeviceKeepsOneRow DEF IInv
<1>3. r # None /\ None \notin Message
  BY NoneAssumption
<1>4. \A n \in Message : call[n] # r
  BY <1>1, <1>3 DEF IInv, OwnRequests
<1>5. flight # r
  <2>1. flight # None => Head(batch) \in Message
    BY DEF TypeOK
  <2> QED BY <1>1, <1>3, <2>1 DEF IInv, OwnRequests
<1> QED BY <1>1, <1>2, <1>4, <1>5

\* The queue loses at most m.
LEMMA QueueLoses ==
    ASSUME TypeOK, NEW m, outbox' = Without(outbox, m)
    PROVE  Queued \ {m} \subseteq Queued'
<1>1. Elements(outbox) \ {m} \subseteq Elements(Without(outbox, m))
  BY WithoutKeeps DEF TypeOK
<1> QED BY <1>1 DEF Queued, Elements

\* Before the first message nothing is under way.
LEMMA SendInvInit == Init => IInv
  BY NoneAssumption DEF Init, IInv, OwnRequests, OneRow, NothingLost, Free

\* Every step of the app and of the backend keeps the invariant: one case per
\* action, and under it the conjuncts the action can disturb.
LEMMA SendInvNext == TypeOK /\ IInv /\ [Next]_vars => IInv'
<1> SUFFICES ASSUME TypeOK, IInv, [Next]_vars PROVE IInv'
  OBVIOUS
<1> USE DEF server, flushing
<1>1. ASSUME NEW r \in Request, Serve(r) PROVE IInv'
  BY <1>1, ServeKeepsIInv
<1>2. ASSUME NEW m \in Message, Write(m) PROVE IInv'
  <2>1. PICK r \in Request : SendTo(r, m) /\ call' = [call EXCEPT ![m] = r]
    BY <1>2 DEF Write
  <2>2. /\ OneRow'
        /\ request'[r].msg = m
        /\ flight # r
        /\ \A n \in Message : call[n] # r
        /\ \A q \in Request \ {r} : request'[q] = request[q]
    BY <1>2, <2>1, SendKeeps DEF Write
  <2>3. OwnRequests'
    BY <1>2, <2>1, <2>2 DEF Write, IInv, OwnRequests, TypeOK
  <2>4. NothingLost'
    BY <1>2, <2>1, NoneAssumption DEF Write, IInv, NothingLost, Queued, TypeOK
  <2> QED BY <2>2, <2>3, <2>4 DEF IInv
<1>3. ASSUME UNCHANGED <<stored, request>> PROVE OneRow'
  BY <1>3 DEF IInv, OneRow
<1>4. ASSUME UNCHANGED <<request, call, flight, batch>> PROVE OwnRequests'
  BY <1>4 DEF IInv, OwnRequests
<1>5. ASSUME NEW m \in Message, WriteOffline(m) PROVE IInv'
  <2>1. Queued \subseteq Queued' /\ told \subseteq told' /\ m \in Queued' \cup told'
    BY <1>5, EnqueueKeeps DEF WriteOffline, TypeOK
  <2>2. NothingLost'
    BY <1>5, <2>1 DEF WriteOffline, IInv, NothingLost
  <2> QED BY <1>3, <1>4, <1>5, <2>2 DEF WriteOffline, IInv
<1>6. ASSUME NEW m \in Message, CallOver(m)
      PROVE  OneRow' /\ OwnRequests'
  <2> DEFINE r == call[m]
  <2>1. r \in Request
    BY <1>6 DEF CallOver, TypeOK
  <2>2. /\ OneRow'
        /\ \A q \in Request \ {r} : request'[q] = request[q]
    BY <1>6, <2>1, ReleaseKeeps DEF CallOver
  <2>3. \A n \in Message \ {m} : call[n] # None => call[n] # r
    BY <2>1, <1>6 DEF CallOver, IInv, OwnRequests
  <2>4. flight # r
    BY <1>6 DEF CallOver, IInv, OwnRequests
  <2>5. OwnRequests'
    BY <1>6, <2>2, <2>3, <2>4 DEF CallOver, IInv, OwnRequests, TypeOK
  <2> QED BY <2>2, <2>5
<1>7. ASSUME NEW m \in Message,
             ComposerOk(m) \/ ComposerRefused(m) \/ ComposerFails(m)
      PROVE  IInv'
  <2>1. CallOver(m)
    BY <1>7 DEF ComposerOk, ComposerRefused, ComposerFails
  <2>2. /\ Queued \ {m} \subseteq Queued' /\ told \subseteq told'
        /\ stored[m] > 0 \/ m \in Queued' \cup told'
    <3>1. CASE ComposerOk(m)
      <4>1. call[m] \in Request /\ request[call[m]].msg = m
        BY <2>1 DEF CallOver, IInv, OwnRequests, TypeOK
      <4>2. stored[m] > 0
        BY <3>1, <4>1 DEF ComposerOk, IInv, OneRow
      <4> QED BY <3>1, <4>2, QueueLoses DEF ComposerOk
    <3>2. CASE ComposerRefused(m)
      BY <3>2 DEF ComposerRefused, Queued
    <3>3. CASE ComposerFails(m)
      BY <3>3, EnqueueKeeps DEF ComposerFails, TypeOK
    <3> QED BY <1>7, <3>1, <3>2, <3>3
  <2>3. NothingLost'
    BY <2>1, <2>2 DEF CallOver, IInv, NothingLost, TypeOK
  <2> QED BY <1>6, <2>1, <2>3 DEF IInv
<1>8. ASSUME NEW m \in Message, Discard(m) PROVE IInv'
  <2>1. Queued \ {m} \subseteq Queued'
    BY <1>8, QueueLoses DEF Discard
  <2>2. NothingLost'
    BY <1>8, <2>1 DEF Discard, IInv, NothingLost
  <2> QED BY <1>3, <1>4, <1>8, <2>2 DEF Discard, IInv
<1>9. ASSUME UNCHANGED <<stored, outbox, call, written, told, discarded, interrupted>>
      PROVE  NothingLost'
  BY <1>9 DEF IInv, NothingLost, Queued
<1>10. CASE Trigger
  BY <1>3, <1>4, <1>9, <1>10 DEF Trigger, IInv
<1>11. CASE ProbeOk \/ ProbeFails \/ PassOver
  <2>1. flight = None
    BY <1>11 DEF ProbeOk, ProbeFails, PassOver, TypeOK
  <2>2. OwnRequests'
    BY <1>11, <2>1 DEF ProbeOk, ProbeFails, PassOver, IInv, OwnRequests
  <2> QED BY <1>3, <1>9, <1>11, <2>2 DEF ProbeOk, ProbeFails, PassOver, IInv
<1>12. CASE FlushSend
  <2>1. PICK r \in Request : SendTo(r, Head(batch)) /\ flight' = r
    BY <1>12 DEF FlushSend
  <2>2. Head(batch) \in Message
    BY <1>12 DEF FlushSend, TypeOK
  <2>3. /\ OneRow'
        /\ request'[r].msg = Head(batch)
        /\ \A n \in Message : call[n] # r
        /\ \A q \in Request \ {r} : request'[q] = request[q]
    BY <1>12, <2>1, <2>2, SendKeeps DEF FlushSend
  <2>4. OwnRequests'
    BY <1>12, <2>1, <2>3 DEF FlushSend, IInv, OwnRequests, TypeOK
  <2> QED BY <1>9, <1>12, <2>3, <2>4 DEF FlushSend, IInv
<1>13. ASSUME flight # None, Release(flight), flight' = None,
              UNCHANGED <<stored, call>>
       PROVE  OneRow' /\ OwnRequests'
  <2>1. flight \in Request
    BY <1>13 DEF TypeOK
  <2>2. OneRow' /\ \A q \in Request \ {flight} : request'[q] = request[q]
    BY <1>13, <2>1, ReleaseKeeps
  <2>3. OwnRequests'
    BY <1>13, <2>2 DEF IInv, OwnRequests, TypeOK
  <2> QED BY <2>2, <2>3
<1>14. CASE FlushOk \/ FlushRefused
  <2> DEFINE m == Head(batch)
  <2>1. Queued \ {m} \subseteq Queued' /\ told \subseteq told'
    BY <1>14, QueueLoses DEF FlushOk, FlushRefused, FlushHears
  <2>2. stored[m] > 0 \/ m \in told'
    <3>1. flight \in Request /\ request[flight].msg = m
      BY <1>14 DEF FlushOk, FlushRefused, FlushHears, IInv, OwnRequests, TypeOK
    <3> QED BY <1>14, <3>1 DEF FlushOk, FlushRefused, FlushHears, IInv, OneRow
  <2>3. NothingLost'
    BY <1>14, <2>1, <2>2 DEF FlushOk, FlushRefused, FlushHears, IInv, NothingLost
  <2> QED BY <1>13, <1>14, <2>3 DEF FlushOk, FlushRefused, FlushHears, IInv
<1>15. CASE FlushFails
  BY <1>9, <1>13, <1>15 DEF FlushFails, IInv
<1>16. CASE Kill
  <2>1. OwnRequests'
    BY <1>16 DEF Kill, OwnRequests
  <2>2. OneRow'
    <3>1. \A r \in Request : request'[r] = request[r] \/ request'[r].step \in {"free", "sent"}
      BY <1>16 DEF Kill, Free
    <3> QED BY <1>16, <3>1, DeviceKeepsOneRow DEF Kill, IInv
  <2>3. NothingLost'
    BY <1>16 DEF Kill, IInv, NothingLost, Queued, TypeOK
  <2> QED BY <2>1, <2>2, <2>3 DEF IInv
<1>17. CASE UNCHANGED vars
  BY <1>3, <1>4, <1>9, <1>17 DEF vars, IInv
<1> QED
  BY <1>1, <1>2, <1>5, <1>7, <1>8, <1>10, <1>11, <1>12, <1>14, <1>15, <1>16, <1>17
     DEF Next, Compose, Flush

\* The invariant holds in every state the app and the backend reach.
THEOREM SendInvariantHolds == Spec => []IInv
  BY SendInvInit, SendInvNext, SendTypeCorrect, PTL DEF Spec

(***************************************************************************)
(* The safety properties                                                   *)
(***************************************************************************)

\* However many requests carry the same client_message_id, and however they
\* interleave, create_message stores the message at most once.
THEOREM StoredOnce == Spec => []SentOnce
<1>1. IInv => SentOnce
  BY DEF IInv, OneRow, SentOnce
<1> QED BY <1>1, SendInvariantHolds, PTL

\* No message the user sent off disappears silently (NothingLost).
THEOREM NeverLost == Spec => []NothingLost
<1>1. IInv => NothingLost
  BY DEF IInv
<1> QED BY <1>1, SendInvariantHolds, PTL

\* A message leaves the outbox only when it is stored, refused or deleted by the
\* user; in particular a restart and a network failure keep it.
THEOREM OutboxKeeps == Spec => KeptUntilSent
<1>1. TypeOK /\ IInv /\ [Next]_vars =>
         [\A m \in Queued \ Queued' :
             stored[m] > 0 \/ m \in told' \/ m \in discarded']_vars
  <2> SUFFICES ASSUME TypeOK, IInv, Next,
                      NEW m \in Queued, m \notin Queued'
               PROVE  stored[m] > 0 \/ m \in told' \/ m \in discarded'
    OBVIOUS
  <2>0. outbox' # outbox
    BY DEF Queued
  <2>1. \A n : outbox' = Without(outbox, n) => m = n
    BY QueueLoses
  <2>2. ASSUME NEW n \in Message, Enqueue(n) PROVE FALSE
    BY <2>2, EnqueueKeeps DEF TypeOK
  <2>3. ASSUME NEW n \in Message, Compose(n)
        PROVE  stored[m] > 0 \/ m \in told' \/ m \in discarded'
    <3>1. CASE ComposerOk(n)
      <4>1. call[n] \in Request /\ request[call[n]].msg = n
        BY <3>1 DEF ComposerOk, CallOver, IInv, OwnRequests, TypeOK
      <4>2. stored[n] > 0
        BY <3>1, <4>1 DEF ComposerOk, IInv, OneRow
      <4> QED BY <2>1, <3>1, <4>2 DEF ComposerOk
    <3>2. CASE Discard(n)
      BY <2>1, <3>2 DEF Discard
    <3> QED
      BY <2>0, <2>2, <2>3, <3>1, <3>2
         DEF Compose, Write, WriteOffline, ComposerRefused, ComposerFails
  <2>4. CASE FlushOk \/ FlushRefused
    <3>1. m = Head(batch)
      BY <2>1, <2>4 DEF FlushOk, FlushRefused, FlushHears
    <3>2. flight \in Request /\ request[flight].msg = m
      BY <2>4, <3>1 DEF FlushOk, FlushRefused, FlushHears, IInv, OwnRequests, TypeOK
    <3> QED BY <2>4, <3>1, <3>2 DEF FlushOk, FlushRefused, FlushHears, IInv, OneRow
  <2> QED
    BY <2>0, <2>3, <2>4
       DEF Next, Serve, Trigger, Flush, ProbeOk, ProbeFails, PassOver, FlushSend,
           FlushFails, Kill
<1>2. Spec => [](TypeOK /\ IInv)
  BY SendTypeCorrect, SendInvariantHolds, PTL
<1> QED BY <1>1, <1>2, PTL DEF Spec, KeptUntilSent

(***************************************************************************)
(* The order of the outbox                                                 *)
(***************************************************************************)

Distinct(s) == \A i, j \in DOMAIN s : s[i] = s[j] => i = j

\* What is queued before a message of the batch is in the batch before it.
InOrder ==
    \A i \in DOMAIN batch, p \in DOMAIN outbox :
        outbox[p] = batch[i] =>
            \A j \in 1 .. p - 1 : \E k \in 1 .. i - 1 : batch[k] = outbox[j]

\* A message is queued only when its first call is over, and never called again.
QueuedAfterCall ==
    \A m \in Message :
        /\ call[m] # None => m \in written
        /\ (m \notin written \/ call[m] # None) => m \notin Queued \cup Elements(batch)

OrderInv == Distinct(outbox) /\ InOrder /\ QueuedAfterCall

\* Taking m off a queue without repetitions takes it off altogether and keeps the
\* order of the rest.
LEMMA WithoutOrder ==
    ASSUME NEW s \in Seq(Message), Distinct(s), NEW m
    PROVE  /\ Without(s, m) \in Seq(Message)
           /\ Distinct(Without(s, m))
           /\ Elements(Without(s, m)) = Elements(s) \ {m}
           /\ \A p \in DOMAIN Without(s, m) : \A j \in 1 .. p - 1 :
                 \E q \in DOMAIN s : \E i \in 1 .. q - 1 :
                     Without(s, m)[p] = s[q] /\ Without(s, m)[j] = s[i]
<1>1. CASE ~ \E i \in DOMAIN s : s[i] = m
  <2>1. Without(s, m) = s /\ m \notin Elements(s)
    BY <1>1 DEF Without, Elements
  <2> QED BY <2>1
<1>2. CASE \E i \in DOMAIN s : s[i] = m
  <2> DEFINE at == CHOOSE i \in DOMAIN s : s[i] = m
             w == [i \in 1 .. Len(s) - 1 |-> IF i < at THEN s[i] ELSE s[i + 1]]
             old(i) == IF i < at THEN i ELSE i + 1
  <2>1. Without(s, m) = w
    BY <1>2 DEF Without
  <2>2. at \in 1 .. Len(s) /\ s[at] = m /\ Len(s) \in Nat /\ DOMAIN s = 1 .. Len(s)
    BY <1>2
  <2> HIDE DEF at
  <2>3. \A i \in 1 .. Len(s) - 1 : old(i) \in 1 .. Len(s) /\ old(i) # at /\ w[i] = s[old(i)]
    BY <2>2
  <2>4. w \in Seq(Message) /\ DOMAIN w = 1 .. Len(s) - 1
    BY <2>2
  <2>5. \A i, j \in 1 .. Len(s) - 1 : i < j => old(i) < old(j)
    BY <2>2
  <2>6. \A i, j \in 1 .. Len(s) - 1 : old(i) = old(j) => i = j
    BY <2>2
  <2>7. \A k \in 1 .. Len(s) : k # at => \E i \in 1 .. Len(s) - 1 : old(i) = k
    <3> TAKE k \in 1 .. Len(s)
    <3> HAVE k # at
    <3>1. CASE k < at
      BY <2>2, <3>1
    <3>2. CASE k > at
      <4>1. k - 1 \in 1 .. Len(s) - 1 /\ old(k - 1) = k
        BY <2>2, <3>2
      <4> QED BY <4>1
    <3> QED BY <2>2, <3>1, <3>2
  <2> HIDE DEF w, old
  <2>8. Distinct(w)
    BY <2>2, <2>3, <2>4, <2>6 DEF Distinct
  <2>9. Elements(w) = Elements(s) \ {m}
    <3>1. \A i \in DOMAIN w : w[i] \in Elements(s) /\ w[i] # m
      BY <2>2, <2>3, <2>4 DEF Distinct, Elements
    <3>2. \A k \in DOMAIN s : s[k] # m => s[k] \in Elements(w)
      <4> TAKE k \in DOMAIN s
      <4> HAVE s[k] # m
      <4>1. PICK i \in 1 .. Len(s) - 1 : old(i) = k
        BY <2>2, <2>7
      <4>2. w[i] = s[k] /\ i \in DOMAIN w
        BY <2>3, <2>4, <4>1
      <4> QED BY <4>2 DEF Elements
    <3> QED BY <3>1, <3>2 DEF Elements
  <2>10. ASSUME NEW p \in DOMAIN w, NEW j \in 1 .. p - 1
         PROVE  \E q \in DOMAIN s : \E i \in 1 .. q - 1 : w[p] = s[q] /\ w[j] = s[i]
    <3>1. p \in 1 .. Len(s) - 1 /\ j \in 1 .. Len(s) - 1 /\ j < p
      BY <2>2, <2>4, <2>10
    <3>2. /\ old(p) \in DOMAIN s /\ old(j) \in 1 .. old(p) - 1
          /\ w[p] = s[old(p)] /\ w[j] = s[old(j)]
      BY <2>2, <2>3, <2>5, <3>1
    <3> QED BY <3>2
  <2> QED BY <2>1, <2>4, <2>8, <2>9, <2>10
<1> QED BY <1>1, <1>2

\* A message that is not queued goes to the end.
LEMMA EnqueueLast ==
    ASSUME outbox \in Seq(Message), NEW m \in Message, m \notin Queued, Enqueue(m)
    PROVE  outbox' \in {outbox, Append(outbox, m)}
  BY DEF Enqueue, Without, Queued

LEMMA OrderInvInit == Init => OrderInv
  BY DEF Init, OrderInv, Distinct, InOrder, QueuedAfterCall, Queued, Elements

\* Fewer calls, more messages written, a message less queued: the rest stays in order.
LEMMA RemovalKeepsOrder ==
    ASSUME TypeOK, OrderInv, NEW m, outbox' = Without(outbox, m), batch' = batch,
           written' = written, \A n \in Message : call'[n] \in {None, call[n]}
    PROVE  OrderInv'
<1>1. outbox \in Seq(Message) /\ Distinct(outbox)
  BY DEF TypeOK, OrderInv
<1>2. /\ outbox' \in Seq(Message) /\ Distinct(outbox')
      /\ Elements(outbox') = Elements(outbox) \ {m}
      /\ \A p \in DOMAIN outbox' : \A j \in 1 .. p - 1 :
            \E q \in DOMAIN outbox : \E i \in 1 .. q - 1 : outbox'[p] = outbox[q] /\ outbox'[j] = outbox[i]
  BY <1>1, WithoutOrder
<1>3. InOrder'
  <2>1. SUFFICES ASSUME NEW i \in DOMAIN batch, NEW p \in DOMAIN outbox', outbox'[p] = batch[i],
                        NEW j \in 1 .. p - 1
                 PROVE  \E k \in 1 .. i - 1 : batch[k] = outbox'[j]
    BY DEF InOrder
  <2>2. PICK q \in DOMAIN outbox : \E a \in 1 .. q - 1 : outbox'[p] = outbox[q] /\ outbox'[j] = outbox[a]
    BY <1>2
  <2>3. PICK a \in 1 .. q - 1 : outbox'[p] = outbox[q] /\ outbox'[j] = outbox[a]
    BY <2>2
  <2> QED BY <2>1, <2>3 DEF OrderInv, InOrder
<1>4. QueuedAfterCall'
  <2>1. Queued = Elements(outbox) /\ Queued' = Elements(outbox')
    BY DEF Queued, Elements
  <2>2. Elements(batch)' = Elements(batch)
    BY DEF Elements
  <2> QED BY <1>2, <2>1, <2>2 DEF OrderInv, QueuedAfterCall
<1> QED BY <1>2, <1>3, <1>4 DEF OrderInv

\* A message whose first call is over, or was never made, goes to the end of the
\* outbox: it is in no batch.
LEMMA EnqueueKeepsOrder ==
    ASSUME TypeOK, OrderInv, NEW m \in Message, m \notin written \/ call[m] # None, Enqueue(m),
           batch' = batch, written' = written \cup {m},
           call'[m] = None, \A n \in Message \ {m} : call'[n] = call[n]
    PROVE  OrderInv'
<1>1. /\ outbox \in Seq(Message) /\ batch \in Seq(Message) /\ Distinct(outbox)
      /\ m \notin Queued /\ m \notin Elements(batch)
  BY DEF TypeOK, OrderInv, QueuedAfterCall
<1>2. Elements(batch)' = Elements(batch)
  BY DEF Elements
<1>3. outbox' = outbox \/ outbox' = Append(outbox, m)
  BY <1>1, EnqueueLast
<1>4. CASE outbox' = outbox
  <2>1. QueuedAfterCall'
    BY <1>1, <1>2, <1>4 DEF OrderInv, QueuedAfterCall, Queued
  <2> QED BY <1>4, <2>1 DEF OrderInv, Distinct, InOrder
<1>5. CASE outbox' = Append(outbox, m)
  <2>1. /\ Len(outbox) \in Nat /\ DOMAIN outbox = 1 .. Len(outbox)
        /\ DOMAIN outbox' = 1 .. Len(outbox) + 1
        /\ outbox'[Len(outbox) + 1] = m
        /\ \A i \in DOMAIN outbox : outbox'[i] = outbox[i] /\ outbox[i] # m
    BY <1>1, <1>5 DEF Queued
  <2>2. Distinct(outbox)'
    BY <1>1, <2>1 DEF Distinct
  <2>3. InOrder'
    <3>1. SUFFICES ASSUME NEW i \in DOMAIN batch, NEW p \in DOMAIN outbox', outbox'[p] = batch[i],
                          NEW j \in 1 .. p - 1
                   PROVE  \E k \in 1 .. i - 1 : batch[k] = outbox'[j]
      BY DEF InOrder
    <3>2. batch[i] # m
      BY <1>1 DEF Elements
    <3>3. p \in DOMAIN outbox /\ j \in DOMAIN outbox
      BY <2>1, <3>1, <3>2
    <3> QED BY <2>1, <3>1, <3>3 DEF OrderInv, InOrder
  <2>4. Queued' = Queued \cup {m}
    BY <2>1 DEF Queued
  <2>5. QueuedAfterCall'
    BY <1>2, <2>4 DEF OrderInv, QueuedAfterCall
  <2> QED BY <2>2, <2>3, <2>5 DEF OrderInv
<1> QED BY <1>3, <1>4, <1>5

\* The head of the batch leaves the batch and the outbox.
LEMMA HeadLeaves ==
    ASSUME TypeOK, OrderInv, batch # <<>>, batch' = Tail(batch), outbox' = Without(outbox, Head(batch)),
           written' = written, call' = call
    PROVE  OrderInv'
<1> DEFINE m == Head(batch)
<1>1. /\ outbox \in Seq(Message) /\ Distinct(outbox) /\ batch \in Seq(Message)
      /\ Len(batch) \in Nat \ {0} /\ DOMAIN batch = 1 .. Len(batch) /\ batch[1] = m
      /\ DOMAIN batch' = 1 .. Len(batch) - 1
      /\ \A i \in 1 .. Len(batch) - 1 : batch'[i] = batch[i + 1]
  BY DEF TypeOK, OrderInv
<1>0. outbox' = Without(outbox, m)
  OBVIOUS
<1> HIDE DEF m
<1>2. /\ outbox' \in Seq(Message) /\ Distinct(outbox')
      /\ Elements(outbox') = Elements(outbox) \ {m}
      /\ \A p \in DOMAIN outbox' : \A j \in 1 .. p - 1 :
            \E q \in DOMAIN outbox : \E i \in 1 .. q - 1 : outbox'[p] = outbox[q] /\ outbox'[j] = outbox[i]
  <2> DEFINE w == Without(outbox, m)
  <2>1. /\ w \in Seq(Message) /\ Distinct(w) /\ Elements(w) = Elements(outbox) \ {m}
        /\ \A p \in DOMAIN w : \A j \in 1 .. p - 1 :
              \E q \in DOMAIN outbox : \E i \in 1 .. q - 1 : w[p] = outbox[q] /\ w[j] = outbox[i]
    <3>1. outbox \in Seq(Message) /\ Distinct(outbox)
      BY <1>1
    <3> QED BY <3>1, WithoutOrder
  <2> HIDE DEF w
  <2>2. outbox' = w
    BY <1>0 DEF w
  <2> QED BY <2>1, <2>2
<1>3. InOrder'
  <2>1. SUFFICES ASSUME NEW i \in DOMAIN batch', NEW p \in DOMAIN outbox', outbox'[p] = batch'[i],
                        NEW j \in 1 .. p - 1
                 PROVE  \E k \in 1 .. i - 1 : batch'[k] = outbox'[j]
    BY DEF InOrder
  <2>0. PICK q \in DOMAIN outbox : \E a \in 1 .. q - 1 : outbox'[p] = outbox[q] /\ outbox'[j] = outbox[a]
    BY <1>2
  <2>2. PICK a \in 1 .. q - 1 : outbox'[p] = outbox[q] /\ outbox'[j] = outbox[a]
    BY <2>0
  <2>3. i + 1 \in DOMAIN batch /\ outbox[q] = batch[i + 1] /\ i \in Nat
    BY <1>1, <2>1, <2>2
  <2>4. PICK k \in 1 .. (i + 1) - 1 : batch[k] = outbox[a]
    BY <2>2, <2>3 DEF OrderInv, InOrder
  <2>5. outbox'[j] # m
    <3>1. j \in DOMAIN outbox'
      BY <1>2
    <3> QED BY <1>2, <3>1 DEF Elements
  <2>6. k # 1
    BY <1>1, <2>2, <2>4, <2>5
  <2>7. k - 1 \in 1 .. i - 1 /\ k - 1 \in 1 .. Len(batch) - 1 /\ (k - 1) + 1 = k
    BY <1>1, <2>3, <2>4, <2>6
  <2>8. batch'[k - 1] = outbox'[j]
    BY <1>1, <2>2, <2>4, <2>7
  <2> QED BY <2>7, <2>8
<1>4. QueuedAfterCall'
  <2>1. Queued = Elements(outbox) /\ Queued' = Elements(outbox')
    BY DEF Queued, Elements
  <2>2. Elements(batch)' \subseteq Elements(batch)
    BY <1>1 DEF Elements
  <2> QED BY <1>2, <2>1, <2>2 DEF OrderInv, QueuedAfterCall
<1> QED BY <1>2, <1>3, <1>4 DEF OrderInv

\* The outbox stands still, and the batch does or is given up.
LEMMA StillKeepsOrder ==
    ASSUME OrderInv, outbox' = outbox, batch' \in {batch, <<>>}, written' = written,
           \A n \in Message : call'[n] \in {None, call[n]}
    PROVE  OrderInv'
<1>1. /\ Distinct(outbox)' /\ Queued' = Queued
  BY DEF OrderInv, Distinct, Queued
<1>2. InOrder' /\ Elements(batch)' \subseteq Elements(batch)
  <2>1. CASE batch' = batch
    BY <2>1 DEF OrderInv, InOrder, Elements
  <2>2. CASE batch' = <<>>
    BY <2>2 DEF InOrder, Elements
  <2> QED BY <2>1, <2>2
<1>3. QueuedAfterCall'
  BY <1>1, <1>2 DEF OrderInv, QueuedAfterCall
<1> QED BY <1>1, <1>2, <1>3 DEF OrderInv

\* Every step keeps the order.
LEMMA OrderInvNext == TypeOK /\ OrderInv /\ [Next]_vars => OrderInv'
<1> SUFFICES ASSUME TypeOK, OrderInv, [Next]_vars PROVE OrderInv'
  OBVIOUS
<1> USE DEF flushing
<1>1. ASSUME NEW m \in Message, Write(m) PROVE OrderInv'
  <2>1. PICK r \in Request : call' = [call EXCEPT ![m] = r]
    BY <1>1 DEF Write
  <2>2. /\ m \notin written /\ written' = written \cup {m} /\ UNCHANGED <<outbox, batch>>
    BY <1>1 DEF Write
  <2>3. Distinct(outbox)' /\ InOrder' /\ Queued' = Queued /\ Elements(batch)' = Elements(batch)
    BY <2>2 DEF OrderInv, Distinct, InOrder, Queued, Elements
  <2>4. /\ m \notin Queued \cup Elements(batch)
        /\ \A n \in Message \ {m} : call'[n] = call[n]
    BY <2>1, <2>2 DEF OrderInv, QueuedAfterCall, TypeOK
  <2>5. QueuedAfterCall'
    BY <2>2, <2>3, <2>4 DEF OrderInv, QueuedAfterCall
  <2> QED BY <2>3, <2>5 DEF OrderInv
<1>2. ASSUME NEW m \in Message, WriteOffline(m) PROVE OrderInv'
  <2>1. call[m] = None
    BY <1>2 DEF WriteOffline, OrderInv, QueuedAfterCall
  <2> QED BY <1>2, <2>1, EnqueueKeepsOrder DEF WriteOffline
<1>3. ASSUME NEW m \in Message, CallOver(m)
      PROVE  /\ call[m] # None /\ m \in written /\ m \notin Queued
             /\ call'[m] = None /\ \A n \in Message \ {m} : call'[n] = call[n]
             /\ batch' = batch /\ written' = written
  BY <1>3 DEF CallOver, TypeOK, OrderInv, QueuedAfterCall
<1>4. ASSUME NEW m \in Message, ComposerOk(m) PROVE OrderInv'
  BY <1>3, <1>4, RemovalKeepsOrder DEF ComposerOk
<1>5. ASSUME NEW m \in Message, ComposerRefused(m) PROVE OrderInv'
  BY <1>3, <1>5, StillKeepsOrder DEF ComposerRefused
<1>6. ASSUME NEW m \in Message, ComposerFails(m) PROVE OrderInv'
  <2>1. written' = written \cup {m}
    BY <1>3, <1>6 DEF ComposerFails
  <2> QED BY <1>3, <1>6, <2>1, EnqueueKeepsOrder DEF ComposerFails
<1>7. ASSUME NEW m \in Message, Discard(m) PROVE OrderInv'
  BY <1>7, RemovalKeepsOrder DEF Discard
<1>8. CASE ProbeOk
  <2>1. batch' = outbox /\ UNCHANGED <<outbox, call, written>>
    BY <1>8 DEF ProbeOk
  <2>2. Distinct(outbox)' /\ InOrder'
    BY <2>1 DEF OrderInv, Distinct, InOrder
  <2>3. Queued' = Queued /\ Elements(batch)' = Queued
    BY <2>1 DEF Queued, Elements
  <2>4. QueuedAfterCall'
    BY <2>1, <2>3 DEF OrderInv, QueuedAfterCall
  <2> QED BY <2>2, <2>4 DEF OrderInv
<1>9. CASE FlushOk \/ FlushRefused
  <2>1. batch # <<>>
    BY <1>9 DEF FlushOk, FlushRefused, FlushHears, TypeOK
  <2> QED BY <1>9, <2>1, HeadLeaves DEF FlushOk, FlushRefused, FlushHears
<1>10. CASE FlushFails \/ Kill
  BY <1>10, StillKeepsOrder DEF FlushFails, Kill
<1>11. ASSUME UNCHANGED <<outbox, batch, call, written>> PROVE OrderInv'
  BY <1>11, StillKeepsOrder
<1>12. CASE \/ \E r \in Request : Serve(r)
            \/ Trigger \/ ProbeFails \/ PassOver \/ FlushSend \/ UNCHANGED vars
  BY <1>11, <1>12 DEF Serve, Trigger, ProbeFails, PassOver, FlushSend, vars
<1> QED
  BY <1>1, <1>2, <1>4, <1>5, <1>6, <1>7, <1>8, <1>9, <1>10, <1>12 DEF Next, Compose, Flush

\* The flush never overtakes a message queued earlier, whatever the composer, the user
\* and restarts do to the outbox while it runs (OldestFirst).
THEOREM NeverOvertakes == Spec => []OldestFirst
<1>1. Spec => [](TypeOK /\ OrderInv)
  BY OrderInvInit, OrderInvNext, SendTypeCorrect, PTL DEF Spec
<1>2. TypeOK /\ OrderInv => OldestFirst
  <2> SUFFICES ASSUME TypeOK, OrderInv, batch # <<>>, Head(batch) \in Queued
               PROVE  Head(outbox) = Head(batch)
    BY DEF OldestFirst
  <2>1. 1 \in DOMAIN batch /\ batch[1] = Head(batch) /\ outbox \in Seq(Message)
    BY DEF TypeOK
  <2>2. PICK p \in DOMAIN outbox : outbox[p] = batch[1]
    BY <2>1 DEF Queued
  <2>3. \A j \in 1 .. p - 1 : \E k \in 1 .. 1 - 1 : batch[k] = outbox[j]
    BY <2>1, <2>2 DEF OrderInv, InOrder
  <2>4. p = 1
    <3>1. p \in Nat \ {0} /\ 1 .. 1 - 1 = {}
      BY <2>1, <2>2
    <3>2. p > 1 => 1 \in 1 .. p - 1
      BY <3>1
    <3> QED BY <2>3, <3>1, <3>2
  <2> QED BY <2>1, <2>2, <2>4
<1> QED BY <1>1, <1>2, PTL

(***************************************************************************)
(* What the flush and the composer wait for.                               *)
(***************************************************************************)

\* A request that is waited for is on its way, handled or answered.
AnswerOnItsWay ==
    /\ flight # None => request[flight] # Free
    /\ \A m \in Message : call[m] # None => request[call[m]] # Free

AskedWhileRunning == queued => pass # "idle"

\* A flush that was asked for is asked for still by a running one, or begins with the
\* network probed again, unless the app is killed.
TriggerKept ==
    [][queued => \/ queued' /\ pass' # "idle"
                 \/ pass' = "probing" /\ ~queued'
                 \/ kills' # kills]_vars

\* Nothing that the app waits for is abandoned: neither the flush nor a composer call
\* waits for a request that was given up or reused (send_message, outbox flush).
THEOREM NobodyWaitsInVain == Spec => []AnswerOnItsWay
<1>1. TypeOK /\ IInv => AnswerOnItsWay
  <2> SUFFICES ASSUME TypeOK, IInv PROVE AnswerOnItsWay
    OBVIOUS
  <2>1. \A m \in Message : m # None
    BY NoneAssumption
  <2>2. Free.msg = None
    BY DEF Free
  <2>3. ASSUME flight # None PROVE request[flight] # Free
    <3>1. Head(batch) \in Message /\ request[flight].msg = Head(batch)
      BY <2>3 DEF TypeOK, IInv, OwnRequests
    <3> QED BY <2>1, <2>2, <3>1
  <2>4. ASSUME NEW m \in Message, call[m] # None PROVE request[call[m]] # Free
    BY <2>1, <2>2, <2>4 DEF IInv, OwnRequests
  <2> QED BY <2>3, <2>4 DEF AnswerOnItsWay
<1> QED BY <1>1, SendTypeCorrect, SendInvariantHolds, PTL

LEMMA TriggerStep ==
    ASSUME TypeOK, AskedWhileRunning, [Next]_vars
    PROVE  /\ AskedWhileRunning'
           /\ queued => \/ queued' /\ pass' # "idle"
                        \/ pass' = "probing" /\ ~queued'
                        \/ kills' # kills
<1> USE DEF AskedWhileRunning
<1>1. CASE UNCHANGED <<pass, queued>>
  BY <1>1
<1>2. CASE NextPass
  BY <1>2 DEF NextPass
<1>3. CASE Trigger
  BY <1>3 DEF Trigger
<1>4. CASE ProbeOk
  BY <1>4 DEF ProbeOk
<1>5. CASE Kill
  <2>1. kills' # kills \/ ~queued
    BY <1>5 DEF Kill, TypeOK
  <2> QED BY <1>5, <2>1 DEF Kill
<1>6. \/ UNCHANGED <<pass, queued>> \/ NextPass \/ Trigger \/ ProbeOk \/ Kill
  <2>1. ASSUME NEW r \in Request, Serve(r) PROVE UNCHANGED <<pass, queued>>
    BY <2>1 DEF Serve, flushing
  <2>2. ASSUME NEW m \in Message, Compose(m) PROVE UNCHANGED <<pass, queued>>
    BY <2>2 DEF Compose, Write, WriteOffline, ComposerOk, ComposerRefused, ComposerFails,
                CallOver, Discard, flushing
  <2>3. CASE Flush
    BY <2>3 DEF Flush, ProbeFails, PassOver, FlushSend, FlushOk, FlushRefused, FlushHears,
                FlushFails
  <2>4. CASE UNCHANGED vars
    BY <2>4 DEF vars
  <2> QED BY <2>1, <2>2, <2>3, <2>4 DEF Next
<1> QED BY <1>1, <1>2, <1>3, <1>4, <1>5, <1>6

\* A flush asked for while one runs is never dropped on the way, whichever of its ends
\* the running one meets (_queued in the outbox's flush).  It is what TriggerHonoured
\* needs beside the fairness of the flush.
THEOREM TriggerIsKept == Spec => TriggerKept
<1>1. Init => AskedWhileRunning
  BY DEF Init, AskedWhileRunning
<1>2. TypeOK /\ AskedWhileRunning /\ [Next]_vars
      => [queued => \/ queued' /\ pass' # "idle"
                    \/ pass' = "probing" /\ ~queued'
                    \/ kills' # kills]_vars
  BY TriggerStep
<1>3. TypeOK /\ AskedWhileRunning /\ [Next]_vars => AskedWhileRunning'
  BY TriggerStep
<1> QED BY <1>1, <1>2, <1>3, SendTypeCorrect, PTL DEF Spec, TriggerKept


(***************************************************************************)
(* Sending implements the promise of Delivery                              *)
(***************************************************************************)

\* Whatever the app and the backend work on, the user sent off.
FromUser ==
    /\ Queued \cup Elements(batch) \cup told \cup discarded \cup interrupted \subseteq written
    /\ \A m \in Message : call[m] # None => m \in written
    /\ \A r \in Request : request[r] # Free => request[r].msg \in written

InHand == {m \in Message : call[m] # None}

LEMMA WithoutAdds ==
    ASSUME NEW s \in Seq(Message), NEW m
    PROVE  Elements(Without(s, m)) \subseteq Elements(s)
<1>1. CASE ~ \E i \in DOMAIN s : s[i] = m
  BY <1>1 DEF Without
<1>2. CASE \E i \in DOMAIN s : s[i] = m
  <2> DEFINE at == CHOOSE i \in DOMAIN s : s[i] = m
             w == [i \in 1 .. Len(s) - 1 |-> IF i < at THEN s[i] ELSE s[i + 1]]
  <2>1. Without(s, m) = w
    BY <1>2 DEF Without
  <2>2. Len(s) \in Nat /\ DOMAIN s = 1 .. Len(s) /\ at \in Nat
    <3>1. at \in DOMAIN s /\ DOMAIN s = 1 .. Len(s) /\ Len(s) \in Nat
      BY <1>2
    <3> QED BY <3>1
  <2>3. ASSUME NEW i \in DOMAIN w PROVE w[i] \in Elements(s)
    <3>1. i \in 1 .. Len(s) - 1 /\ w[i] = IF i < at THEN s[i] ELSE s[i + 1]
      OBVIOUS
    <3> HIDE DEF at, w
    <3>2. i \in 1 .. Len(s) /\ i + 1 \in 1 .. Len(s)
      BY <2>2, <3>1
    <3> QED BY <2>2, <3>1, <3>2 DEF Elements
  <2> HIDE DEF w
  <2> QED BY <2>1, <2>3 DEF Elements
<1> QED BY <1>1, <1>2

\* What an enqueueing puts on the outbox is the message alone.
LEMMA EnqueueAdds ==
    ASSUME outbox \in Seq(Message), NEW m \in Message, Enqueue(m)
    PROVE  Queued' \subseteq Queued \cup {m} /\ told' \subseteq told \cup {m}
<1>1. CASE m \in Queued \/ Len(outbox) < MaxOutbox
  <2> DEFINE w == Without(outbox, m)
  <2>1. outbox' = Append(w, m) /\ told' = told
    BY <1>1 DEF Enqueue
  <2>2. w \in Seq(Message) /\ Elements(w) \subseteq Elements(outbox)
    BY WithoutKeeps, WithoutAdds
  <2> HIDE DEF w
  <2>3. Elements(Append(w, m)) \subseteq Elements(w) \cup {m}
    <3>1. Len(w) \in Nat /\ DOMAIN w = 1 .. Len(w)
      BY <2>2
    <3>2. ASSUME NEW i \in DOMAIN Append(w, m) PROVE Append(w, m)[i] \in Elements(w) \cup {m}
      <4>1. i \in 1 .. Len(w) + 1
        BY <2>2, <3>1
      <4>2. CASE i = Len(w) + 1
        BY <2>2, <4>2
      <4>3. CASE i \in 1 .. Len(w)
        BY <2>2, <3>1, <4>3 DEF Elements
      <4> QED BY <3>1, <4>1, <4>2, <4>3
    <3> QED BY <3>2 DEF Elements
  <2> QED BY <2>1, <2>2, <2>3 DEF Queued, Elements
<1>2. CASE ~(m \in Queued \/ Len(outbox) < MaxOutbox)
  BY <1>2 DEF Enqueue, Queued
<1> QED BY <1>1, <1>2

\* What a step of the composer or the flush does to the outbox, put in sets.
LEMMA QueueMoves ==
    ASSUME TypeOK
    PROVE  /\ \A m : outbox' = Without(outbox, m) =>
                 Queued' \subseteq Queued /\ Queued \ {m} \subseteq Queued'
           /\ \A m \in Message : Enqueue(m) =>
                 /\ Queued \subseteq Queued' /\ Queued' \subseteq Queued \cup {m}
                 /\ told \subseteq told' /\ told' \subseteq told \cup {m}
                 /\ m \in Queued' \cup told'
           /\ outbox' = outbox => Queued' = Queued
<1>1. ASSUME NEW m, outbox' = Without(outbox, m)
      PROVE  Queued' \subseteq Queued /\ Queued \ {m} \subseteq Queued'
  <2>1. Queued \ {m} \subseteq Queued'
    BY <1>1, QueueLoses
  <2>2. Elements(Without(outbox, m)) \subseteq Elements(outbox)
    BY WithoutAdds DEF TypeOK
  <2> QED BY <1>1, <2>1, <2>2 DEF Queued, Elements
<1>2. ASSUME NEW m \in Message, Enqueue(m)
      PROVE  /\ Queued \subseteq Queued' /\ Queued' \subseteq Queued \cup {m}
             /\ told \subseteq told' /\ told' \subseteq told \cup {m}
             /\ m \in Queued' \cup told'
  BY <1>2, EnqueueKeeps, EnqueueAdds DEF TypeOK
<1> QED BY <1>1, <1>2 DEF Queued

\* A request that is sent, answered or let go of.
LEMMA RequestsFromUser ==
    ASSUME TypeOK, FromUser, NEW r \in Request,
           \A q \in Request \ {r} : request'[q] = request[q],
           request'[r] = Free \/ request'[r].msg \in written', written \subseteq written'
    PROVE  \A q \in Request : request'[q] # Free => request'[q].msg \in written'
BY DEF FromUser

LEMMA ServedFromUser ==
    ASSUME TypeOK, FromUser, NEW r \in Request, Serve(r)
    PROVE  FromUser'
<1>1. /\ \A q \in Request \ {r} : request'[q] = request[q]
      /\ request'[r] = Free \/ request'[r].msg = request[r].msg
      /\ request[r] # Free
  BY DEF Serve, Fail, Refuse, Look, Insert, Conflict, Commit, Rollback, Answer,
         Advance, TypeOK, Free
<1>2. /\ UNCHANGED <<call, outbox, batch, written, told, discarded, interrupted>>
  BY DEF Serve, flushing
<1> QED BY <1>1, <1>2 DEF FromUser, Queued

LEMMA ReleasedFromUser ==
    ASSUME TypeOK, FromUser, NEW r \in Request, Release(r), UNCHANGED written
    PROVE  \A q \in Request : request'[q] # Free => request'[q].msg \in written'
BY DEF Release, TypeOK, FromUser

LEMMA SentFromUser ==
    ASSUME TypeOK, FromUser, NEW r \in Request, NEW m \in written', SendTo(r, m),
           written \subseteq written'
    PROVE  \A q \in Request : request'[q] # Free => request'[q].msg \in written'
<1>1. \A q \in Request : request'[q] = IF q = r THEN [step |-> "sent", msg |-> m] ELSE request[q]
  BY DEF SendTo, TypeOK
<1> QED BY <1>1 DEF FromUser

LEMMA ComposedFromUser ==
    ASSUME TypeOK, FromUser, NEW m \in Message, Compose(m)
    PROVE  FromUser'
<1> USE QueueMoves
<1>1. CASE Write(m)
  <2>1. PICK r \in Request : SendTo(r, m) /\ call' = [call EXCEPT ![m] = r]
    BY <1>1 DEF Write
  <2>2. \A q \in Request : request'[q] # Free => request'[q].msg \in written'
    BY <1>1, <2>1, SentFromUser DEF Write
  <2> QED BY <1>1, <2>1, <2>2 DEF Write, FromUser, TypeOK, flushing
<1>2. CASE WriteOffline(m)
  BY <1>2 DEF WriteOffline, FromUser, TypeOK, flushing
<1>3. CASE ComposerOk(m) \/ ComposerRefused(m) \/ ComposerFails(m)
  <2>1. CallOver(m) /\ call[m] \in Request /\ m \in written
    BY <1>3 DEF ComposerOk, ComposerRefused, ComposerFails, CallOver, TypeOK, FromUser
  <2>2. \A q \in Request : request'[q] # Free => request'[q].msg \in written'
    BY <2>1, ReleasedFromUser DEF CallOver
  <2>3. /\ Queued' \subseteq Queued \cup {m} /\ told' \subseteq told \cup {m}
        /\ UNCHANGED <<batch, written, discarded, interrupted>>
        /\ \A n \in Message : call'[n] # None => call[n] # None
    BY <1>3, <2>1 DEF ComposerOk, ComposerRefused, ComposerFails, CallOver, TypeOK, flushing
  <2> QED BY <2>1, <2>2, <2>3 DEF FromUser
<1>4. CASE Discard(m)
  BY <1>4 DEF Discard, FromUser, TypeOK, flushing
<1> QED BY <1>1, <1>2, <1>3, <1>4 DEF Compose

\* Taking the head off the batch.
LEMMA RestOfBatch ==
    ASSUME TypeOK, batch # <<>>
    PROVE  /\ Head(batch) \in Elements(batch) /\ Head(batch) \in Message
           /\ Elements(Tail(batch)) \subseteq Elements(batch)
<1>1. batch \in Seq(Message) /\ Len(batch) \in Nat /\ DOMAIN batch = 1 .. Len(batch)
      /\ Len(batch) # 0
  BY DEF TypeOK
<1>2. 1 \in DOMAIN batch /\ Head(batch) = batch[1]
  BY <1>1
<1>3. ASSUME NEW i \in DOMAIN Tail(batch) PROVE Tail(batch)[i] \in Elements(batch)
  <2>1. i \in 1 .. Len(batch) - 1 /\ Tail(batch)[i] = batch[i + 1]
    BY <1>1
  <2>2. i + 1 \in DOMAIN batch
    BY <1>1, <2>1
  <2> QED BY <2>1, <2>2 DEF Elements
<1> QED BY <1>1, <1>2, <1>3 DEF Elements

LEMMA FlushedFromUser ==
    ASSUME TypeOK, FromUser, Flush
    PROVE  FromUser'
<1> USE QueueMoves
<1>1. CASE ProbeOk \/ ProbeFails \/ PassOver
  BY <1>1 DEF ProbeOk, ProbeFails, PassOver, FromUser, Queued, Elements
<1>2. CASE FlushSend
  <2>1. PICK r \in Request : SendTo(r, Head(batch)) /\ flight' = r
    BY <1>2 DEF FlushSend
  <2>2. Head(batch) \in written'
    BY <1>2, RestOfBatch DEF FlushSend, FromUser
  <2>3. \A q \in Request : request'[q] # Free => request'[q].msg \in written'
    BY <1>2, <2>1, <2>2, SentFromUser DEF FlushSend
  <2> QED BY <1>2, <2>3 DEF FlushSend, FromUser
<1>3. CASE FlushOk \/ FlushRefused \/ FlushFails
  <2>1. flight \in Request /\ Release(flight) /\ batch # <<>>
    BY <1>3 DEF FlushOk, FlushRefused, FlushHears, FlushFails, TypeOK
  <2>2. \A q \in Request : request'[q] # Free => request'[q].msg \in written'
    BY <1>3, <2>1, ReleasedFromUser DEF FlushOk, FlushRefused, FlushHears, FlushFails
  <2>3. Elements(batch') \subseteq Elements(batch) /\ Head(batch) \in written
    BY <1>3, <2>1, RestOfBatch DEF FlushOk, FlushRefused, FlushHears, FlushFails, FromUser, Elements
  <2>4. Queued' \subseteq Queued /\ told' \subseteq told \cup {Head(batch)}
        /\ UNCHANGED <<call, written, discarded, interrupted>>
    BY <1>3 DEF FlushOk, FlushRefused, FlushHears, FlushFails
  <2> QED BY <2>2, <2>3, <2>4 DEF FromUser, Elements
<1> QED BY <1>1, <1>2, <1>3 DEF Flush

LEMMA FromUserNext == TypeOK /\ FromUser /\ [Next]_vars => FromUser'
<1> SUFFICES ASSUME TypeOK, FromUser, [Next]_vars PROVE FromUser'
  OBVIOUS
<1>1. CASE UNCHANGED vars \/ Trigger
  BY <1>1 DEF vars, Trigger, FromUser, Queued, Elements
<1>2. CASE Kill
  <2>1. /\ \A r \in Request : request'[r] = Free \/ request'[r] = request[r]
        /\ \A m \in Message : call'[m] = None
        /\ Queued' = Queued /\ Elements(batch') = {}
        /\ UNCHANGED <<written, told, discarded>>
        /\ interrupted' = interrupted \cup {m \in Message : call[m] # None}
    BY <1>2 DEF Kill, Queued, Elements
  <2> QED BY <2>1 DEF FromUser
<1> QED BY <1>1, <1>2, ServedFromUser, ComposedFromUser, FlushedFromUser DEF Next

\* The device goes on with what it has: the cases that lose or move nothing else.
LEMMA GoesOn ==
    ASSUME FromUser, FromUser', UNCHANGED <<written, stored>>,
           InHand' \subseteq InHand, Queued' \subseteq Queued \cup InHand,
           told \subseteq told', discarded \subseteq discarded', interrupted \subseteq interrupted',
           \A m \in Queued \ Queued' : stored[m] > 0 \/ m \in told' \cup discarded',
           \A m \in InHand \ InHand' :
               stored[m] > 0 \/ m \in Queued' \cup told' \cup discarded' \cup interrupted'
    PROVE  Promise!GoOn
BY DEF Promise!GoOn, FromUser, InHand

LEMMA ServedKeepsPromise ==
    ASSUME TypeOK, IInv, FromUser, FromUser', NEW r \in Request, Serve(r)
    PROVE  Promise!Next
<1>1. UNCHANGED <<call, outbox, written, told, discarded, interrupted>> /\ Queued' = Queued
  BY DEF Serve, flushing, Queued
<1>2. CASE Commit(r)
  <2> DEFINE m == request[r].msg
  <2>1. request[r] # Free /\ m \in Message /\ m \in written /\ stored[m] = 0
    BY <1>2 DEF Commit, TypeOK, Free, FromUser, IInv, OneRow
  <2>2. stored' = [stored EXCEPT ![m] = 1]
    BY <1>2, <2>1 DEF Commit, TypeOK
  <2>3. Promise!Arrive(m)
    BY <1>1, <2>1, <2>2 DEF Promise!Arrive
  <2> QED BY <2>1, <2>3 DEF Promise!Next
<1>3. CASE ~Commit(r)
  <2>1. UNCHANGED stored
    BY <1>3 DEF Serve, Fail, Refuse, Look, Insert, Conflict, Rollback, server
  <2>2. Promise!GoOn
    BY <1>1, <2>1, GoesOn DEF InHand
  <2> QED BY <2>2 DEF Promise!Next
<1> QED BY <1>2, <1>3

LEMMA WriteKeepsPromise ==
    ASSUME TypeOK, FromUser, FromUser', NEW m \in Message, Write(m) \/ WriteOffline(m)
    PROVE  Promise!Next
<1>1. m \notin written /\ written' = written \cup {m}
      /\ UNCHANGED <<stored, discarded, interrupted>> /\ m \notin told
  BY DEF Write, WriteOffline, server, FromUser
<1>2. CASE Write(m)
  <2>1. PICK r \in Request : call' = [call EXCEPT ![m] = r]
    BY <1>2 DEF Write
  <2>2. r # None
    BY NoneAssumption
  <2>3. InHand' = InHand \cup {m}
    BY <2>1, <2>2 DEF TypeOK, InHand
  <2>4. Queued' = Queued /\ told' = told
    BY <1>2 DEF Write, Queued
  <2> QED BY <1>1, <2>3, <2>4 DEF Promise!Next, Promise!Give, InHand
<1>3. CASE WriteOffline(m)
  <2>1. call' = call /\ InHand' = InHand
    BY <1>3 DEF WriteOffline, InHand
  <2>2. \/ Queued' = Queued \cup {m} /\ told' = told
        \/ Queued' = Queued /\ told' = told \cup {m}
    <3>1. CASE told' = told
      BY <1>1, <1>3, <3>1, QueueMoves DEF WriteOffline
    <3>2. CASE told' # told
      BY <1>3, <3>2 DEF WriteOffline, Enqueue, Queued
    <3> QED BY <3>1, <3>2
  <2> QED BY <1>1, <2>1, <2>2 DEF Promise!Next, Promise!Give
<1> QED BY <1>2, <1>3

\* The composer's call ends: what it was about is stored, kept on disk, or told.
LEMMA CallKeepsPromise ==
    ASSUME TypeOK, IInv, FromUser, FromUser', NEW m \in Message,
           ComposerOk(m) \/ ComposerRefused(m) \/ ComposerFails(m)
    PROVE  Promise!GoOn
<1>1. CallOver(m)
  BY DEF ComposerOk, ComposerRefused, ComposerFails
<1>2. /\ UNCHANGED <<written, stored, discarded, interrupted>>
      /\ InHand' = InHand \ {m} /\ m \in InHand
  BY <1>1, NoneAssumption DEF CallOver, server, InHand, TypeOK
<1>3. CASE ComposerOk(m)
  <2>1. stored[m] > 0
    <3>1. call[m] \in Request /\ request[call[m]].msg = m
      BY <1>3 DEF ComposerOk, CallOver, IInv, OwnRequests, TypeOK
    <3> QED BY <1>3, <3>1 DEF ComposerOk, IInv, OneRow
  <2>2. Queued' \subseteq Queued /\ Queued \ {m} \subseteq Queued' /\ told' = told
    BY <1>3, QueueMoves DEF ComposerOk
  <2> QED BY <1>2, <2>1, <2>2, GoesOn
<1>4. CASE ComposerRefused(m)
  <2>1. Queued' = Queued /\ told' = told \cup {m}
    BY <1>4 DEF ComposerRefused, Queued
  <2> QED BY <1>2, <2>1, GoesOn
<1>5. CASE ComposerFails(m)
  <2>1. Queued \subseteq Queued' /\ Queued' \subseteq Queued \cup {m}
        /\ told \subseteq told' /\ m \in Queued' \cup told'
    BY <1>5, QueueMoves DEF ComposerFails
  <2> QED BY <1>2, <2>1, GoesOn
<1> QED BY <1>3, <1>4, <1>5

LEMMA DiscardKeepsPromise ==
    ASSUME TypeOK, FromUser, FromUser', NEW m \in Message, Discard(m)
    PROVE  Promise!GoOn
<1>1. Queued' \subseteq Queued /\ Queued \ {m} \subseteq Queued'
  BY QueueMoves DEF Discard
<1>2. discarded' = discarded \cup {m} /\ InHand' = InHand
      /\ UNCHANGED <<written, stored, told, interrupted>>
  BY DEF Discard, server, InHand
<1> QED BY <1>1, <1>2, GoesOn

LEMMA FlushKeepsPromise ==
    ASSUME TypeOK, IInv, FromUser, FromUser', Flush
    PROVE  Promise!GoOn
<1>1. UNCHANGED <<written, stored, call, discarded, interrupted>> /\ InHand' = InHand
  BY DEF Flush, ProbeOk, ProbeFails, PassOver, FlushSend, FlushOk, FlushRefused, FlushHears,
         FlushFails, server, InHand
<1>2. CASE FlushOk \/ FlushRefused
  <2> DEFINE m == Head(batch)
  <2>1. Queued' \subseteq Queued /\ Queued \ {m} \subseteq Queued'
    BY <1>2, QueueMoves DEF FlushOk, FlushRefused, FlushHears
  <2>2. flight \in Request /\ request[flight].msg = m
    BY <1>2 DEF FlushOk, FlushRefused, FlushHears, IInv, OwnRequests, TypeOK
  <2>3. told \subseteq told' /\ (stored[m] > 0 \/ m \in told')
    BY <1>2, <2>2 DEF FlushOk, FlushRefused, FlushHears, IInv, OneRow
  <2> HIDE DEF m
  <2> QED BY <1>1, <2>1, <2>3, GoesOn
<1>3. CASE ~(FlushOk \/ FlushRefused)
  <2>1. UNCHANGED told /\ Queued' = Queued
    BY <1>3 DEF Flush, ProbeOk, ProbeFails, PassOver, FlushSend, FlushFails, Queued
  <2> QED BY <1>1, <2>1, GoesOn
<1> QED BY <1>2, <1>3

\* The app ends: what it had in hand only is cut off, what is on disk stays.
LEMMA KillKeepsPromise ==
    ASSUME TypeOK, FromUser, FromUser', Kill
    PROVE  Promise!GoOn
<1>1. /\ InHand' = {} /\ interrupted' = interrupted \cup InHand /\ Queued' = Queued
      /\ UNCHANGED <<written, stored, told, discarded>>
  BY DEF Kill, InHand, Queued, server
<1> QED BY <1>1, GoesOn

LEMMA PromiseInit == Init => Promise!Init /\ FromUser
  BY DEF Init, Promise!Init, FromUser, Queued, Elements

LEMMA PromiseNext ==
    TypeOK /\ IInv /\ FromUser /\ FromUser' /\ [Next]_vars => [Promise!Next]_(Promise!vars)
<1> SUFFICES ASSUME TypeOK, IInv, FromUser, FromUser', [Next]_vars
             PROVE  Promise!Next \/ UNCHANGED Promise!vars
  OBVIOUS
<1>1. CASE UNCHANGED vars \/ Trigger
  BY <1>1 DEF vars, Trigger, server, Queued, Promise!vars
<1>2. ASSUME NEW m \in Message, Compose(m) PROVE Promise!Next
  BY <1>2, WriteKeepsPromise, CallKeepsPromise, DiscardKeepsPromise DEF Compose, Promise!Next
<1>3. ASSUME Flush \/ Kill PROVE Promise!Next
  BY <1>3, FlushKeepsPromise, KillKeepsPromise DEF Promise!Next
<1> QED BY <1>1, <1>2, <1>3, ServedKeepsPromise DEF Next

\* Composer, outbox, flush and backend implement the promise of Delivery: each of their
\* steps gives a message to the device, brings one to the chat for the first time, or
\* lets go of nothing that is neither stored nor known to the user.
THEOREM SendingKeepsPromise == Spec => ImplementsDelivery
<1>1. Spec => [](TypeOK /\ IInv)
  BY SendTypeCorrect, SendInvariantHolds, PTL
<1>2. Spec => []FromUser
  BY <1>1, PromiseInit, FromUserNext, SendTypeCorrect, PTL DEF Spec
<1> QED BY <1>1, <1>2, PromiseInit, PromiseNext, PTL DEF Spec, ImplementsDelivery, Promise!Spec

\* The promise is enough: in whatever keeps it nothing comes twice and every message
\* given is in the chat, on the device, or known to the user, but for what was only in
\* hand when the app ended.
THEOREM PromiseIsEnough == Promise!Spec => []Promise!Accounted
<1> DEFINE Once == stored \in [Message -> {0, 1}]
<1>1. Promise!Init => Once /\ Promise!Accounted
  BY DEF Promise!Init, Promise!Accounted
<1>2. Once /\ Promise!Accounted /\ [Promise!Next]_(Promise!vars) => (Once /\ Promise!Accounted)'
  <2> SUFFICES ASSUME Once, Promise!Accounted, [Promise!Next]_(Promise!vars)
               PROVE  (Once /\ Promise!Accounted)'
    OBVIOUS
  <2>1. CASE UNCHANGED Promise!vars
    BY <2>1 DEF Promise!vars, Promise!Accounted
  <2>2. ASSUME NEW m \in Message, Promise!Give(m) PROVE (Once /\ Promise!Accounted)'
    BY <2>2 DEF Promise!Give, Promise!Accounted
  <2>3. ASSUME NEW m \in Message, Promise!Arrive(m) PROVE (Once /\ Promise!Accounted)'
    <3>1. /\ stored' \in [Message -> {0, 1}] /\ stored'[m] = 1
          /\ \A n : n # m => stored'[n] = stored[n]
      BY <2>3 DEF Promise!Arrive
    <3> QED BY <2>3, <3>1 DEF Promise!Arrive, Promise!Accounted
  <2>4. CASE Promise!GoOn
    BY <2>4 DEF Promise!GoOn, Promise!Accounted
  <2> QED BY <2>1, <2>2, <2>3, <2>4 DEF Promise!Next
<1> HIDE DEF Once
<1> QED BY <1>1, <1>2, PTL DEF Promise!Spec

(***************************************************************************)
(* MessageLife: the texts of a message, for any number of messages, jobs   *)
(* and edits.                                                              *)
(***************************************************************************)

Transcribing == {"stt", "listening", "mark", "follow"}
JobRow == [kind : {"none", "stt", "listening", "mark", "follow", "tr", "asking"},
           msg : LifeMsg \cup {NoMsg}, text : Nat,
           row : {"none", "new", "old", "lost"}, gone : BOOLEAN]
TrRow == [of : Nat, ok : BOOLEAN]

LifeTypes ==
    /\ type \in [LifeMsg -> {"text", "voice"}]
    /\ body \in [LifeMsg -> Nat]
    /\ stt \in [LifeMsg -> {"none", "pending", "done", "failed"}]
    /\ gone \in [LifeMsg -> BOOLEAN]
    /\ tr \in [LifeMsg -> TrRow]
    /\ job \in [LifeJob -> JobRow]
    /\ edit \in [msg : LifeMsg \cup {NoMsg}, row : BOOLEAN]
    /\ calm \in BOOLEAN

\* A voice message is transcribed by one job.
OneVoice ==
    \A j \in LifeJob : job[j].kind \in Transcribing =>
        /\ job[j].msg \in LifeMsg
        /\ type[job[j].msg] = "voice"
        /\ \A i \in LifeJob : job[i].kind \in Transcribing /\ job[i].msg = job[j].msg => i = j

\* Before the transcript is there the message has no text.
Unheard ==
    \A j \in LifeJob : job[j].kind \in {"stt", "listening"} =>
        gone[job[j].msg] \/ body[job[j].msg] = 0

\* A translation is asked for a text there is, and for the message's own unless an
\* edit came between.
AsksForText ==
    \A j \in LifeJob : job[j].kind \in {"tr", "asking"} =>
        /\ job[j].msg \in LifeMsg
        /\ job[j].text # 0
        /\ calm => job[j].text = body[job[j].msg] \/ gone[job[j].msg]

OfText == \A m \in LifeMsg : tr[m].ok => tr[m].of # 0

\* An edit is of a text; one that no job overlaps knows whether there is a
\* translation.
EditAlone ==
    edit # NoEdit =>
        /\ edit.msg \in LifeMsg
        /\ type[edit.msg] = "text"
        /\ calm => /\ \A j \in LifeJob : job[j].msg # edit.msg
                   /\ edit.row <=> tr[edit.msg] # NoTr

LifeInv ==
    /\ LifeTypes /\ OneVoice /\ Unheard /\ AsksForText /\ OfText /\ EditAlone
    /\ TranscriptKept /\ TranslationFollowsEdit

LEMMA JobRows ==
    /\ NoJob \in JobRow /\ NoJob.kind = "none" /\ NoJob.msg = NoMsg
    /\ \A m \in LifeMsg, v \in Nat :
          /\ TrJob(m, v) \in JobRow
          /\ TrJob(m, v).kind = "tr" /\ TrJob(m, v).msg = m /\ TrJob(m, v).text = v
<1>1. NoJob \in JobRow /\ NoJob.kind = "none" /\ NoJob.msg = NoMsg
  BY DEF NoJob, JobRow
<1>2. ASSUME NEW m \in LifeMsg, NEW v \in Nat
      PROVE  /\ TrJob(m, v) \in JobRow
             /\ TrJob(m, v).kind = "tr" /\ TrJob(m, v).msg = m /\ TrJob(m, v).text = v
  BY DEF TrJob, NoJob, JobRow
<1> QED BY <1>1, <1>2

\* A job goes on, ends, or starts for the text of a message: the rows stay.
LEMMA JobMoves ==
    ASSUME LifeInv, NEW j \in LifeJob, NEW r \in JobRow,
           job' = [job EXCEPT ![j] = r],
           UNCHANGED <<type, body, stt, gone, tr, edit, calm>>,
           r.kind \in Transcribing =>
               /\ job[j].kind \in Transcribing /\ r.msg = job[j].msg
               /\ r.kind \in {"stt", "listening"} => job[j].kind \in {"stt", "listening"},
           r.kind \in {"tr", "asking"} =>
               /\ r.msg \in LifeMsg /\ r.text # 0
               /\ calm => r.text = body[r.msg] \/ gone[r.msg],
           calm /\ edit # NoEdit => r.msg \in {NoMsg, job[j].msg}
    PROVE  LifeInv'
<1> USE LifeAssumption
<1>1. job' \in [LifeJob -> JobRow] /\ job'[j] = r /\ \A i \in LifeJob \ {j} : job'[i] = job[i]
  BY DEF LifeInv, LifeTypes
<1>2. LifeTypes'
  BY <1>1 DEF LifeInv, LifeTypes
<1>3. OneVoice'
  BY <1>1 DEF LifeInv, OneVoice, Transcribing
<1>4. Unheard'
  BY <1>1 DEF LifeInv, Unheard, Transcribing
<1>5. AsksForText'
  BY <1>1 DEF LifeInv, AsksForText
<1>6. OfText' /\ TranscriptKept' /\ TranslationFollowsEdit'
  BY DEF LifeInv, OfText, TranscriptKept, TranslationFollowsEdit
<1>7. EditAlone'
  BY <1>1 DEF LifeInv, EditAlone
<1> QED BY <1>2, <1>3, <1>4, <1>5, <1>6, <1>7 DEF LifeInv

LEMMA InitLife == LifeInit => LifeInv
<1> SUFFICES ASSUME LifeInit PROVE LifeInv
  OBVIOUS
<1> USE LifeAssumption
<1> DEFINE first(m) == IF type[m] = "text" THEN TrJob(m, 1)
                       ELSE [NoJob EXCEPT !.kind = "stt", !.msg = m]
       f == CHOOSE g \in [LifeMsg -> LifeJob] : \A m, n \in LifeMsg : g[m] = g[n] => m = n
<1>1. job = [j \in LifeJob |-> IF \E m \in LifeMsg : f[m] = j
                             THEN first(CHOOSE m \in LifeMsg : f[m] = j) ELSE NoJob]
  BY DEF LifeInit
<1>2. /\ type \in [LifeMsg -> {"text", "voice"}]
      /\ body = [m \in LifeMsg |-> IF type[m] = "text" THEN 1 ELSE 0]
      /\ stt = [m \in LifeMsg |-> IF type[m] = "voice" THEN "pending" ELSE "none"]
      /\ gone = [m \in LifeMsg |-> FALSE]
      /\ tr = [m \in LifeMsg |-> NoTr]
      /\ edit = NoEdit /\ calm \in BOOLEAN
  BY DEF LifeInit
<1>3. ASSUME NEW m \in LifeMsg
      PROVE  /\ first(m) \in JobRow /\ first(m).msg = m
             /\ first(m).kind = IF type[m] = "text" THEN "tr" ELSE "stt"
             /\ type[m] = "text" => first(m).text = 1
  <2>1. [NoJob EXCEPT !.kind = "stt", !.msg = m] \in JobRow
    BY DEF NoJob, JobRow
  <2>2. /\ [NoJob EXCEPT !.kind = "stt", !.msg = m].msg = m
        /\ [NoJob EXCEPT !.kind = "stt", !.msg = m].kind = "stt"
    BY DEF NoJob
  <2> QED BY <2>1, <2>2, JobRows
<1> HIDE DEF first, f
<1>4. ASSUME NEW j \in LifeJob
      PROVE  \/ job[j] = NoJob
             \/ \E m \in LifeMsg : f[m] = j /\ job[j] = first(m)
  BY <1>1
<1>5. ASSUME NEW j \in LifeJob, job[j].kind # "none"
      PROVE  \E m \in LifeMsg : f[m] = j /\ job[j] = first(m)
  BY <1>4, <1>5, JobRows
<1>6. LifeTypes
  <2>1. job \in [LifeJob -> JobRow]
    BY <1>1, <1>3, <1>4, JobRows
  <2>2. NoTr \in TrRow /\ NoEdit \in [msg : LifeMsg \cup {NoMsg}, row : BOOLEAN]
    BY DEF NoTr, TrRow, NoEdit
  <2> QED BY <1>2, <2>1, <2>2 DEF LifeTypes
<1>7. OneVoice
  <2> SUFFICES ASSUME NEW j \in LifeJob, job[j].kind \in Transcribing
               PROVE  /\ job[j].msg \in LifeMsg
                      /\ type[job[j].msg] = "voice"
                      /\ \A i \in LifeJob :
                            job[i].kind \in Transcribing /\ job[i].msg = job[j].msg => i = j
    BY DEF OneVoice
  <2>1. PICK m \in LifeMsg : f[m] = j /\ job[j] = first(m)
    BY <1>5 DEF Transcribing
  <2>2. type[m] = "voice" /\ job[j].msg = m
    BY <1>2, <1>3, <2>1 DEF Transcribing
  <2>3. ASSUME NEW i \in LifeJob, job[i].kind \in Transcribing, job[i].msg = m
        PROVE  i = j
    <3>1. PICK n \in LifeMsg : f[n] = i /\ job[i] = first(n)
      BY <1>5, <2>3 DEF Transcribing
    <3> QED BY <1>3, <2>1, <2>3, <3>1
  <2> QED BY <2>2, <2>3
<1>8. Unheard
  <2> SUFFICES ASSUME NEW j \in LifeJob, job[j].kind \in {"stt", "listening"}
               PROVE  body[job[j].msg] = 0
    BY DEF Unheard
  <2>1. PICK m \in LifeMsg : f[m] = j /\ job[j] = first(m)
    BY <1>5
  <2> QED BY <1>2, <1>3, <2>1
<1>9. AsksForText
  <2> SUFFICES ASSUME NEW j \in LifeJob, job[j].kind \in {"tr", "asking"}
               PROVE  job[j].msg \in LifeMsg /\ job[j].text # 0 /\ job[j].text = body[job[j].msg]
    BY DEF AsksForText
  <2>1. PICK m \in LifeMsg : f[m] = j /\ job[j] = first(m)
    BY <1>5
  <2> QED BY <1>2, <1>3, <2>1
<1>10. OfText /\ TranslationFollowsEdit
  BY <1>2 DEF NoTr, OfText, TranslationFollowsEdit
<1>11. TranscriptKept
  BY <1>2 DEF TranscriptKept
<1>12. EditAlone
  BY <1>2 DEF EditAlone
<1> QED BY <1>6, <1>7, <1>8, <1>9, <1>10, <1>11, <1>12 DEF LifeInv

\* The job's message, and a job that ends.
LEMMA JobFacts ==
    ASSUME LifeInv, NEW j \in LifeJob
    PROVE  /\ job[j] \in JobRow
           /\ job[j].kind \in Transcribing => job[j].msg \in LifeMsg /\ type[job[j].msg] = "voice"
           /\ job[j].kind \in {"tr", "asking"} => job[j].msg \in LifeMsg
<1> QED BY DEF LifeInv, LifeTypes, OneVoice, AsksForText

LEMMA TranscribeStartsLife ==
    ASSUME LifeInv, NEW j \in LifeJob, TranscribeStarts(j)
    PROVE  LifeInv'
<1> DEFINE r == [job[j] EXCEPT !.kind = "listening", !.gone = gone[job[j].msg]]
<1>1. job[j].kind = "stt" /\ job[j] \in JobRow /\ gone[job[j].msg] \in BOOLEAN
  BY JobFacts DEF TranscribeStarts, LifeInv, LifeTypes, Transcribing
<1>2. r \in JobRow /\ r.kind = "listening" /\ r.msg = job[j].msg
  BY <1>1 DEF JobRow
<1>3. job' = [job EXCEPT ![j] = r]
  BY <1>1 DEF TranscribeStarts, LifeInv, LifeTypes
<1>4. UNCHANGED <<type, body, stt, gone, tr, edit, calm>>
  BY DEF TranscribeStarts, rowVars
<1> HIDE DEF r
<1> QED BY <1>1, <1>2, <1>3, <1>4, JobMoves DEF Transcribing

LEMMA TranscribeRaisesLife ==
    ASSUME LifeInv, NEW j \in LifeJob, TranscribeRaises(j)
    PROVE  LifeInv'
<1> DEFINE r == [job[j] EXCEPT !.kind = "mark"]
<1>1. job[j].kind = "listening" /\ job[j] \in JobRow
  BY JobFacts DEF TranscribeRaises
<1>2. r \in JobRow /\ r.kind = "mark" /\ r.msg = job[j].msg
  BY <1>1 DEF JobRow
<1>3. job' = [job EXCEPT ![j] = r]
  BY <1>1 DEF TranscribeRaises, Becomes, LifeInv, LifeTypes
<1>4. UNCHANGED <<type, body, stt, gone, tr, edit, calm>>
  BY DEF TranscribeRaises, rowVars
<1> HIDE DEF r
<1> QED BY <1>1, <1>2, <1>3, <1>4, JobMoves DEF Transcribing

LEMMA FollowUpLife ==
    ASSUME LifeInv, NEW j \in LifeJob, FollowUp(j)
    PROVE  LifeInv'
<1> USE LifeAssumption
<1> DEFINE m == job[j].msg
           r == IF body[m] = 0 THEN NoJob ELSE TrJob(m, body[m])
<1>1. job[j].kind = "follow" /\ m \in LifeMsg /\ body[m] \in Nat
  BY JobFacts DEF FollowUp, LifeInv, LifeTypes, Transcribing
<1>2. /\ r \in JobRow /\ r.kind \in {"none", "tr"} /\ r.msg \in {NoMsg, m}
      /\ r.kind = "tr" => r.msg = m /\ r.text = body[m] /\ r.text # 0
  BY <1>1, JobRows
<1>3. job' = [job EXCEPT ![j] = r]
  BY DEF FollowUp
<1>4. UNCHANGED <<type, body, stt, gone, tr, edit, calm>>
  BY DEF FollowUp, rowVars
<1> HIDE DEF r
<1> QED BY <1>1, <1>2, <1>3, <1>4, JobMoves DEF Transcribing

LEMMA TranslateStartsLife ==
    ASSUME LifeInv, NEW j \in LifeJob, TranslateStarts(j)
    PROVE  LifeInv'
<1> DEFINE r == [job[j] EXCEPT !.kind = "asking", !.gone = gone[job[j].msg],
                               !.row = IF tr[job[j].msg] = NoTr THEN "new" ELSE "old"]
<1>1. /\ job[j].kind = "tr" /\ job[j] \in JobRow /\ job[j].msg \in LifeMsg
      /\ gone[job[j].msg] \in BOOLEAN
  BY JobFacts DEF TranslateStarts, LifeInv, LifeTypes
<1>2. r \in JobRow /\ r.kind = "asking" /\ r.msg = job[j].msg /\ r.text = job[j].text
  BY <1>1 DEF JobRow
<1>3. job' = [job EXCEPT ![j] = NoJob] \/ job' = [job EXCEPT ![j] = r]
  BY <1>1 DEF TranslateStarts, Goes, LifeInv, LifeTypes
<1>4. UNCHANGED <<type, body, stt, gone, tr, edit, calm>>
  BY DEF TranslateStarts, rowVars
<1>5. job[j].text # 0 /\ (calm => job[j].text = body[job[j].msg] \/ gone[job[j].msg])
  BY <1>1 DEF LifeInv, AsksForText
<1> HIDE DEF r
<1>6. CASE job' = [job EXCEPT ![j] = r]
  BY <1>1, <1>2, <1>4, <1>5, <1>6, JobMoves DEF Transcribing
<1>7. CASE job' = [job EXCEPT ![j] = NoJob]
  BY <1>4, <1>7, JobMoves, JobRows DEF Transcribing
<1> QED BY <1>3, <1>6, <1>7

LEMMA OpenChatLife ==
    ASSUME LifeInv, OpenChat
    PROVE  LifeInv'
<1> USE LifeAssumption
<1>1. UNCHANGED <<type, body, stt, gone, tr, edit, calm>> /\ (calm => edit = NoEdit)
  BY DEF OpenChat, rowVars
<1>2. CASE UNCHANGED job
  BY <1>1, <1>2 DEF LifeInv, LifeTypes, OneVoice, Unheard, AsksForText, OfText, EditAlone,
     TranscriptKept, TranslationFollowsEdit
<1>3. CASE /\ Idle # {}
           /\ \E m \in {n \in Listed : body[n] # 0 /\ ~tr[n].ok} :
                 job' = [job EXCEPT ![CHOOSE j \in Idle : TRUE] = TrJob(m, body[m])]
  <2>1. PICK m \in Listed : /\ body[m] # 0
                            /\ job' = [job EXCEPT ![CHOOSE j \in Idle : TRUE] = TrJob(m, body[m])]
    BY <1>3
  <2>2. PICK j \in LifeJob : j = CHOOSE i \in Idle : TRUE
    BY <1>3 DEF Idle
  <2>3. m \in LifeMsg /\ body[m] \in Nat
    BY DEF Listed, LifeInv, LifeTypes
  <2>4. /\ TrJob(m, body[m]) \in JobRow /\ TrJob(m, body[m]).kind = "tr"
        /\ TrJob(m, body[m]).msg = m /\ TrJob(m, body[m]).text = body[m]
    BY <2>3, JobRows
  <2> QED BY <1>1, <2>1, <2>2, <2>3, <2>4, JobMoves DEF Transcribing
<1> QED BY <1>2, <1>3 DEF OpenChat

\* One job ends.
LEMMA JobEnds ==
    ASSUME LifeInv, NEW j \in LifeJob, Goes(j)
    PROVE  /\ job' \in [LifeJob -> JobRow] /\ job'[j] = NoJob
           /\ \A i \in LifeJob : i # j => job'[i] = job[i]
<1> QED BY JobRows DEF Goes, LifeInv, LifeTypes

\* What only the jobs and the status of a message decide, when no text changes.
LEMMA MarksFailedLife ==
    ASSUME LifeInv, NEW j \in LifeJob, job[j].kind \in Transcribing, Goes(j),
           NEW m, m = job[j].msg, body[m] = 0 \/ gone[m],
           stt' = [stt EXCEPT ![m] = "failed"],
           UNCHANGED <<type, body, gone, tr, edit, calm>>
    PROVE  LifeInv'
<1> USE LifeAssumption
<1>1. m \in LifeMsg /\ type[m] = "voice"
  BY JobFacts
<1>2. /\ job' \in [LifeJob -> JobRow] /\ job'[j] = NoJob
      /\ \A i \in LifeJob : i # j => job'[i] = job[i]
  BY JobEnds
<1>3. NoJob.kind = "none" /\ NoJob.msg = NoMsg
  BY JobRows
<1>4. LifeTypes'
  BY <1>1, <1>2 DEF LifeInv, LifeTypes
<1>5. OneVoice'
  BY <1>2, <1>3 DEF LifeInv, OneVoice, Transcribing
<1>6. Unheard' /\ AsksForText'
  BY <1>2, <1>3 DEF LifeInv, Unheard, AsksForText
<1>7. OfText' /\ TranslationFollowsEdit'
  BY DEF LifeInv, OfText, TranslationFollowsEdit
<1>8. TranscriptKept'
  BY <1>1 DEF LifeInv, LifeTypes, TranscriptKept
<1>9. EditAlone'
  BY <1>2, <1>3 DEF LifeInv, EditAlone
<1> QED BY <1>4, <1>5, <1>6, <1>7, <1>8, <1>9 DEF LifeInv

LEMMA TranscribeFailsLife ==
    ASSUME LifeInv, NEW j \in LifeJob, TranscribeFails(j)
    PROVE  LifeInv'
<1>1. job[j].kind \in Transcribing /\ Goes(j)
  BY DEF TranscribeFails, Transcribing
<1>2. body[job[j].msg] = 0 \/ gone[job[j].msg]
  BY DEF TranscribeFails, LifeInv, Unheard
<1>3. stt' = [stt EXCEPT ![job[j].msg] = "failed"] /\ UNCHANGED <<type, body, gone, tr, edit, calm>>
  BY DEF TranscribeFails, MarksFailed
<1> QED BY <1>1, <1>2, <1>3, MarksFailedLife

LEMMA MarkAfterErrorLife ==
    ASSUME LifeInv, NEW j \in LifeJob, MarkAfterError(j)
    PROVE  LifeInv'
<1>1. job[j].kind \in Transcribing /\ job' = [job EXCEPT ![j] = NoJob] /\ Goes(j)
  BY DEF MarkAfterError, Transcribing, Goes
<1>2. CASE body[job[j].msg] = 0
  <2>1. stt' = [stt EXCEPT ![job[j].msg] = "failed"] /\ UNCHANGED <<type, body, gone, tr, edit, calm>>
    BY <1>2 DEF MarkAfterError, MarksFailed
  <2> QED BY <1>1, <1>2, <2>1, MarksFailedLife
<1>3. CASE body[job[j].msg] # 0
  <2>1. UNCHANGED <<type, body, stt, gone, tr, edit, calm>>
    BY <1>3 DEF MarkAfterError, rowVars
  <2> QED BY <1>1, <2>1, JobMoves, JobRows DEF Transcribing
<1> QED BY <1>2, <1>3

LEMMA TranscribeRefusedLife ==
    ASSUME LifeInv, NEW j \in LifeJob, TranscribeRefused(j)
    PROVE  LifeInv'
<1> USE LifeAssumption
<1> DEFINE m == job[j].msg
<1>1. job[j].kind = "listening" /\ m \in LifeMsg /\ type[m] = "voice" /\ Goes(j)
  BY JobFacts DEF TranscribeRefused, Transcribing
<1>2. /\ gone' = [gone EXCEPT ![m] = TRUE] /\ body' = [body EXCEPT ![m] = 0]
      /\ UNCHANGED <<type, stt, tr, edit, calm>>
  BY DEF TranscribeRefused
<1>3. /\ job' \in [LifeJob -> JobRow] /\ job'[j] = NoJob
      /\ \A i \in LifeJob : i # j => job'[i] = job[i]
  BY <1>1, JobEnds
<1>4. NoJob.kind = "none" /\ NoJob.msg = NoMsg
  BY JobRows
<1> HIDE DEF m
<1>5. LifeTypes'
  BY <1>1, <1>2, <1>3 DEF LifeInv, LifeTypes
<1>6. gone'[m] /\ \A n \in LifeMsg : n # m => gone'[n] = gone[n] /\ body'[n] = body[n]
  BY <1>1, <1>2 DEF LifeInv, LifeTypes
<1>7. OneVoice'
  BY <1>2, <1>3, <1>4 DEF LifeInv, OneVoice, Transcribing
<1>8. Unheard'
  BY <1>3, <1>4, <1>6, <1>7 DEF LifeInv, Unheard, OneVoice, Transcribing
<1>9. AsksForText'
  BY <1>2, <1>3, <1>4, <1>6 DEF LifeInv, AsksForText
<1>10. OfText' /\ TranslationFollowsEdit' /\ TranscriptKept'
  BY <1>2, <1>6 DEF LifeInv, OfText, TranslationFollowsEdit, TranscriptKept
<1>11. EditAlone'
  BY <1>2, <1>3, <1>4 DEF LifeInv, EditAlone
<1> QED BY <1>5, <1>7, <1>8, <1>9, <1>10, <1>11 DEF LifeInv

LEMMA TranscribeDoneLife ==
    ASSUME LifeInv, NEW j \in LifeJob, TranscribeDone(j)
    PROVE  LifeInv'
<1> USE LifeAssumption
<1> DEFINE m == job[j].msg
<1>1. /\ job[j].kind = "listening" /\ job[j] \in JobRow /\ m \in LifeMsg /\ type[m] = "voice"
      /\ gone[m] \/ body[m] = 0
  BY JobFacts DEF TranscribeDone, Transcribing, LifeInv, Unheard
<1>2. UNCHANGED <<type, gone, tr, edit, calm>>
  BY DEF TranscribeDone
<1>3. PICK next \in {"follow", "mark"} :
        /\ Becomes(j, next)
        /\ \/ UNCHANGED <<body, stt>>
           \/ body' = [body EXCEPT ![m] = 1] /\ stt' = [stt EXCEPT ![m] = "done"]
  BY DEF TranscribeDone
<1> DEFINE r == [job[j] EXCEPT !.kind = next]
<1>4. r \in JobRow /\ r.kind = next /\ r.msg = m
  BY <1>1 DEF JobRow
<1>5. /\ job' = [job EXCEPT ![j] = r]
      /\ job' \in [LifeJob -> JobRow] /\ job'[j] = r
      /\ \A i \in LifeJob : i # j => job'[i] = job[i]
  BY <1>3, <1>4 DEF Becomes, LifeInv, LifeTypes
<1> HIDE DEF r
<1>6. CASE UNCHANGED <<body, stt>>
  BY <1>1, <1>2, <1>4, <1>5, <1>6, JobMoves DEF Transcribing
<1>7. CASE body' = [body EXCEPT ![m] = 1] /\ stt' = [stt EXCEPT ![m] = "done"]
  <2> HIDE DEF m
  <2>1. LifeTypes'
    BY <1>1, <1>2, <1>5, <1>7 DEF LifeInv, LifeTypes
  <2>2. /\ body'[m] = 1 /\ stt'[m] = "done"
        /\ \A n \in LifeMsg : n # m => body'[n] = body[n] /\ stt'[n] = stt[n]
    BY <1>1, <1>7 DEF LifeInv, LifeTypes
  <2>3. job[j].kind \in Transcribing /\ job[j].msg = m
    BY <1>1 DEF Transcribing, m
  <2>4. OneVoice'
    BY <1>2, <1>4, <1>5, <2>3 DEF LifeInv, OneVoice, Transcribing
  <2>5. Unheard'
    <3> SUFFICES ASSUME NEW i \in LifeJob, job'[i].kind \in {"stt", "listening"}
                 PROVE  gone'[job'[i].msg] \/ body'[job'[i].msg] = 0
      BY DEF Unheard
    <3>1. i # j /\ job'[i] = job[i]
      BY <1>3, <1>4, <1>5
    <3>2. job[i].msg # m /\ job[i].msg \in LifeMsg
      BY <2>3, <3>1 DEF LifeInv, OneVoice, Transcribing
    <3> QED BY <1>2, <2>2, <3>1, <3>2 DEF LifeInv, Unheard
  <2>6. AsksForText'
    <3> SUFFICES ASSUME NEW i \in LifeJob, job'[i].kind \in {"tr", "asking"}
                 PROVE  /\ job'[i].msg \in LifeMsg
                        /\ job'[i].text # 0
                        /\ calm => job'[i].text = body'[job'[i].msg] \/ gone[job'[i].msg]
      BY <1>2 DEF AsksForText
    <3>1. i # j /\ job'[i] = job[i]
      BY <1>3, <1>4, <1>5
    <3>2. /\ job[i].msg \in LifeMsg /\ job[i].text # 0
          /\ calm => job[i].text = body[job[i].msg] \/ gone[job[i].msg]
      BY <3>1 DEF LifeInv, AsksForText
    <3>3. CASE job[i].msg = m
      BY <1>1, <3>1, <3>2, <3>3 DEF m
    <3>4. CASE job[i].msg # m
      BY <2>2, <3>1, <3>2, <3>4
    <3> QED BY <3>3, <3>4
  <2>7. OfText'
    BY <1>2 DEF LifeInv, OfText
  <2>8. TranslationFollowsEdit'
    <3> SUFFICES ASSUME calm, NEW n \in LifeMsg, tr[n].ok
                 PROVE  tr[n].of = body'[n] \/ gone[n]
      BY <1>2 DEF TranslationFollowsEdit
    <3>1. (tr[n].of = body[n] \/ gone[n]) /\ tr[n].of # 0
      BY DEF LifeInv, TranslationFollowsEdit, OfText
    <3>2. CASE n = m
      BY <1>1, <3>1, <3>2 DEF m
    <3> QED BY <2>2, <3>1, <3>2
  <2>9. TranscriptKept'
    BY <1>2, <2>2 DEF LifeInv, TranscriptKept
  <2>10. EditAlone'
    <3> SUFFICES ASSUME edit # NoEdit
                 PROVE  /\ edit.msg \in LifeMsg
                        /\ type[edit.msg] = "text"
                        /\ calm => /\ \A i \in LifeJob : job'[i].msg # edit.msg
                                   /\ edit.row <=> tr[edit.msg] # NoTr
      BY <1>2 DEF EditAlone
    <3>1. job'[j].msg = job[j].msg
      BY <1>4, <1>5 DEF m
    <3> QED BY <1>5, <3>1 DEF LifeInv, EditAlone
  <2> QED BY <2>1, <2>4, <2>5, <2>6, <2>7, <2>8, <2>9, <2>10 DEF LifeInv
<1> QED BY <1>3, <1>6, <1>7

LEMMA TranslateEndsLife ==
    ASSUME LifeInv, NEW j \in LifeJob, NEW ok \in BOOLEAN, TranslateEnds(j, ok)
    PROVE  LifeInv'
<1> USE LifeAssumption
<1> DEFINE m == job[j].msg
           row == [of |-> job[j].text, ok |-> ok]
<1>1. job[j].kind = "asking" /\ job[j] \in JobRow /\ m \in LifeMsg /\ Goes(j)
  BY JobFacts DEF TranslateEnds
<1>2. /\ UNCHANGED <<type, body, stt, gone, edit, calm>>
      /\ UNCHANGED tr \/ tr' = [tr EXCEPT ![m] = row]
  BY DEF TranslateEnds
<1>3. CASE UNCHANGED tr
  BY <1>1, <1>2, <1>3, JobMoves, JobRows DEF Goes, Transcribing
<1>4. CASE tr' = [tr EXCEPT ![m] = row]
  <2>1. /\ job' \in [LifeJob -> JobRow] /\ job'[j] = NoJob
        /\ \A i \in LifeJob : i # j => job'[i] = job[i]
    BY <1>1, JobEnds
  <2>2. NoJob.kind = "none" /\ NoJob.msg = NoMsg
    BY JobRows
  <2>3. row \in TrRow /\ row.of = job[j].text /\ row.ok = ok
    BY <1>1 DEF TrRow, JobRow
  <2>4. job[j].text # 0 /\ (calm => job[j].text = body[m] \/ gone[m])
    BY <1>1 DEF LifeInv, AsksForText
  <2>5. calm /\ edit # NoEdit => edit.msg # m
    BY DEF LifeInv, EditAlone
  <2> HIDE DEF m, row
  <2>6. /\ tr' \in [LifeMsg -> TrRow] /\ tr'[m] = row
        /\ \A n \in LifeMsg : n # m => tr'[n] = tr[n]
    BY <1>1, <1>4, <2>3 DEF LifeInv, LifeTypes
  <2>7. LifeTypes'
    BY <1>2, <2>1, <2>6 DEF LifeInv, LifeTypes
  <2>8. OneVoice' /\ Unheard'
    BY <1>2, <2>1, <2>2 DEF LifeInv, OneVoice, Unheard, Transcribing
  <2>9. AsksForText'
    BY <1>2, <2>1, <2>2 DEF LifeInv, AsksForText
  <2>10. OfText'
    BY <2>3, <2>4, <2>6 DEF LifeInv, OfText
  <2>11. TranslationFollowsEdit'
    BY <1>2, <2>3, <2>4, <2>6 DEF LifeInv, TranslationFollowsEdit
  <2>12. TranscriptKept'
    BY <1>2 DEF LifeInv, TranscriptKept
  <2>13. EditAlone'
    BY <1>2, <2>1, <2>2, <2>5, <2>6 DEF LifeInv, EditAlone
  <2> QED BY <2>7, <2>8, <2>9, <2>10, <2>11, <2>12, <2>13 DEF LifeInv
<1> QED BY <1>2, <1>3, <1>4

LEMMA JobsLostLife ==
    ASSUME LifeInv, JobsLost
    PROVE  LifeInv'
<1> USE LifeAssumption
<1>1. \A j \in LifeJob : job'[j] = NoJob /\ job'[j].kind = "none" /\ job'[j].msg = NoMsg
  BY JobRows DEF JobsLost
<1>2. UNCHANGED <<type, body, stt, gone, tr, edit, calm>> /\ job' \in [LifeJob -> JobRow]
  BY JobRows DEF JobsLost, rowVars
<1>3. LifeTypes'
  BY <1>2 DEF LifeInv, LifeTypes
<1>4. OneVoice' /\ Unheard' /\ AsksForText'
  BY <1>1 DEF OneVoice, Unheard, AsksForText, Transcribing
<1>5. OfText' /\ TranscriptKept' /\ TranslationFollowsEdit'
  BY <1>2 DEF LifeInv, OfText, TranscriptKept, TranslationFollowsEdit
<1>6. EditAlone'
  BY <1>1, <1>2 DEF LifeInv, EditAlone
<1> QED BY <1>3, <1>4, <1>5, <1>6 DEF LifeInv

LEMMA EditStartsLife ==
    ASSUME LifeInv, NEW m \in LifeMsg, EditStarts(m)
    PROVE  LifeInv'
<1>1. UNCHANGED <<type, body, stt, gone, tr, job, calm>>
  BY DEF EditStarts, rowVars
<1>2. edit' = [msg |-> m, row |-> tr[m] # NoTr] /\ type[m] = "text"
  BY DEF EditStarts
<1>3. calm => \A j \in LifeJob : job[j].msg # m
  BY DEF EditStarts, OpenOn
<1>4. (tr[m] # NoTr) \in BOOLEAN
  OBVIOUS
<1>5. /\ edit' \in [msg : LifeMsg \cup {NoMsg}, row : BOOLEAN]
      /\ edit'.msg = m /\ (edit'.row <=> tr[m] # NoTr)
  BY <1>2, <1>4
<1>6. LifeTypes'
  BY <1>1, <1>5 DEF LifeInv, LifeTypes
<1>7. OneVoice' /\ Unheard' /\ AsksForText' /\ OfText' /\ TranscriptKept' /\ TranslationFollowsEdit'
  BY <1>1 DEF LifeInv, OneVoice, Unheard, AsksForText, OfText, TranscriptKept, TranslationFollowsEdit
<1>8. EditAlone'
  BY <1>1, <1>2, <1>3, <1>5 DEF EditAlone
<1> QED BY <1>6, <1>7, <1>8 DEF LifeInv

LEMMA LosesRows ==
    ASSUME LifeInv, NEW m
    PROVE  /\ Loses(m) \in [LifeJob -> JobRow]
           /\ \A i \in LifeJob : /\ Loses(m)[i].kind = job[i].kind
                                 /\ Loses(m)[i].msg = job[i].msg
                                 /\ Loses(m)[i].text = job[i].text
<1>1. ASSUME NEW i \in LifeJob
      PROVE  LET r == [job[i] EXCEPT !.row = "lost"] IN
             r \in JobRow /\ r.kind = job[i].kind /\ r.msg = job[i].msg /\ r.text = job[i].text
  BY DEF LifeInv, LifeTypes, JobRow
<1> QED BY <1>1 DEF Loses, LifeInv, LifeTypes

LEMMA EditEndsLife ==
    ASSUME LifeInv, NEW ok \in BOOLEAN, EditEnds(ok)
    PROVE  LifeInv'
<1> USE LifeAssumption
<1> DEFINE m == edit.msg
           v == body[m] + 1
           rest == IF edit.row THEN Loses(m) ELSE job
<1>1. /\ edit # NoEdit /\ m \in LifeMsg /\ type[m] = "text" /\ edit' = NoEdit
      /\ UNCHANGED <<type, stt, gone, calm>>
  BY DEF EditEnds, LifeInv, EditAlone
<1>2. EditAlone' /\ edit' \in [msg : LifeMsg \cup {NoMsg}, row : BOOLEAN]
  BY <1>1 DEF EditAlone, NoEdit
<1>3. CASE UNCHANGED <<body, tr, job>>
  <2>1. LifeTypes'
    BY <1>1, <1>2, <1>3 DEF LifeInv, LifeTypes
  <2>2. OneVoice' /\ Unheard' /\ AsksForText' /\ OfText' /\ TranscriptKept' /\ TranslationFollowsEdit'
    BY <1>1, <1>3 DEF LifeInv, OneVoice, Unheard, AsksForText, OfText, TranscriptKept,
       TranslationFollowsEdit
  <2> QED BY <1>2, <2>1, <2>2 DEF LifeInv
<1>4. CASE ok
  <2>1. /\ Idle # {} /\ body' = [body EXCEPT ![m] = v]
        /\ tr' = IF edit.row THEN [tr EXCEPT ![m] = NoTr] ELSE tr
        /\ job' = [rest EXCEPT ![CHOOSE i \in Idle : TRUE] = TrJob(m, v)]
    BY <1>4 DEF EditEnds
  <2>2. PICK j \in LifeJob : j = CHOOSE i \in Idle : TRUE
    BY <2>1 DEF Idle
  <2>3. body[m] \in Nat /\ v \in Nat /\ v # 0
    BY <1>1 DEF LifeInv, LifeTypes
  <2>4. /\ TrJob(m, v) \in JobRow /\ TrJob(m, v).kind = "tr"
        /\ TrJob(m, v).msg = m /\ TrJob(m, v).text = v
    BY <1>1, <2>3, JobRows
  <2>5. /\ rest \in [LifeJob -> JobRow]
        /\ \A i \in LifeJob : /\ rest[i].kind = job[i].kind /\ rest[i].msg = job[i].msg
                              /\ rest[i].text = job[i].text
    BY LosesRows DEF LifeInv, LifeTypes
  <2>6. calm => /\ \A i \in LifeJob : job[i].msg # m
                /\ edit.row <=> tr[m] # NoTr
    BY <1>1 DEF LifeInv, EditAlone
  <2> HIDE DEF rest
  <2>7. /\ job' \in [LifeJob -> JobRow] /\ job'[j] = TrJob(m, v)
        /\ \A i \in LifeJob : i # j =>
              /\ job'[i].kind = job[i].kind /\ job'[i].msg = job[i].msg
              /\ job'[i].text = job[i].text
    BY <2>1, <2>2, <2>4, <2>5
  <2>8. /\ body' \in [LifeMsg -> Nat] /\ body'[m] = v
        /\ \A n \in LifeMsg : n # m => body'[n] = body[n]
    BY <1>1, <2>1, <2>3 DEF LifeInv, LifeTypes
  <2>9. NoTr \in TrRow /\ ~NoTr.ok
    BY DEF NoTr, TrRow
  <2>10. /\ tr' \in [LifeMsg -> TrRow] /\ (tr'[m] = NoTr \/ (tr'[m] = tr[m] /\ ~edit.row))
         /\ \A n \in LifeMsg : n # m => tr'[n] = tr[n]
    BY <1>1, <2>1, <2>9 DEF LifeInv, LifeTypes
  <2> HIDE DEF m, v
  <2>11. LifeTypes'
    BY <1>1, <1>2, <2>7, <2>8, <2>10 DEF LifeInv, LifeTypes
  <2>12. OneVoice'
    BY <1>1, <2>4, <2>7 DEF LifeInv, OneVoice, Transcribing
  <2>13. Unheard'
    <3> SUFFICES ASSUME NEW i \in LifeJob, job'[i].kind \in {"stt", "listening"}
                 PROVE  gone'[job'[i].msg] \/ body'[job'[i].msg] = 0
      BY DEF Unheard
    <3>1. i # j /\ job'[i].msg = job[i].msg /\ job[i].kind \in {"stt", "listening"}
      BY <2>4, <2>7
    <3>2. job[i].msg \in LifeMsg /\ type[job[i].msg] = "voice"
      BY <3>1 DEF LifeInv, OneVoice, Transcribing
    <3>3. job[i].msg # m
      BY <1>1, <3>2
    <3> QED BY <1>1, <2>8, <3>1, <3>2, <3>3 DEF LifeInv, Unheard
  <2>14. AsksForText'
    <3> SUFFICES ASSUME NEW i \in LifeJob, job'[i].kind \in {"tr", "asking"}
                 PROVE  /\ job'[i].msg \in LifeMsg
                        /\ job'[i].text # 0
                        /\ calm => job'[i].text = body'[job'[i].msg] \/ gone[job'[i].msg]
      BY <1>1 DEF AsksForText
    <3>1. CASE i = j
      BY <1>1, <2>3, <2>4, <2>7, <2>8, <3>1
    <3>2. CASE i # j
      <4>1. job[i].kind \in {"tr", "asking"} /\ job'[i].msg = job[i].msg /\ job'[i].text = job[i].text
        BY <2>7, <3>2
      <4>2. /\ job[i].msg \in LifeMsg /\ job[i].text # 0
            /\ calm => job[i].text = body[job[i].msg] \/ gone[job[i].msg]
        BY <4>1 DEF LifeInv, AsksForText
      <4> QED BY <2>6, <2>8, <4>1, <4>2
    <3> QED BY <3>1, <3>2
  <2>15. OfText'
    BY <2>9, <2>10 DEF LifeInv, OfText
  <2>16. TranslationFollowsEdit'
    <3> SUFFICES ASSUME calm, NEW n \in LifeMsg, tr'[n].ok
                 PROVE  tr'[n].of = body'[n] \/ gone[n]
      BY <1>1 DEF TranslationFollowsEdit
    <3>1. n # m
      BY <2>6, <2>9, <2>10
    <3> QED BY <2>8, <2>10, <3>1 DEF LifeInv, TranslationFollowsEdit
  <2>17. TranscriptKept'
    <3> SUFFICES ASSUME NEW n \in LifeMsg, type[n] = "voice", ~gone[n]
                 PROVE  stt[n] = "done" <=> body'[n] # 0
      BY <1>1 DEF TranscriptKept
    <3>1. n # m
      BY <1>1
    <3> QED BY <2>8, <3>1 DEF LifeInv, TranscriptKept
  <2> QED BY <1>2, <2>11, <2>12, <2>13, <2>14, <2>15, <2>16, <2>17 DEF LifeInv
<1> QED BY <1>3, <1>4 DEF EditEnds

\* Messages are deleted: what says nothing of a deleted message keeps its truth.
LEMMA DeletedLife ==
    ASSUME LifeInv, gone' \in [LifeMsg -> BOOLEAN],
           body' \in [LifeMsg -> Nat], stt' \in [LifeMsg -> {"none", "pending", "done", "failed"}],
           \A m \in LifeMsg : \/ gone'[m]
                              \/ gone'[m] = gone[m] /\ body'[m] = body[m] /\ stt'[m] = stt[m],
           UNCHANGED <<type, tr, job, edit, calm>>
    PROVE  LifeInv'
<1>1. LifeTypes'
  BY DEF LifeInv, LifeTypes
<1>2. OneVoice'
  BY DEF LifeInv, OneVoice
<1>3. Unheard'
  BY <1>2 DEF LifeInv, Unheard, OneVoice, Transcribing
<1>4. AsksForText'
  BY DEF LifeInv, AsksForText
<1>5. OfText' /\ TranslationFollowsEdit'
  BY DEF LifeInv, OfText, TranslationFollowsEdit
<1>6. TranscriptKept'
  BY DEF LifeInv, TranscriptKept
<1>7. EditAlone'
  BY DEF LifeInv, EditAlone
<1> QED BY <1>1, <1>2, <1>3, <1>4, <1>5, <1>6, <1>7 DEF LifeInv

LEMMA DeleteForEveryoneLife ==
    ASSUME LifeInv, NEW m \in LifeMsg, DeleteForEveryone(m)
    PROVE  LifeInv'
<1>1. gone' = [gone EXCEPT ![m] = TRUE] /\ UNCHANGED <<type, body, stt, tr, job, edit, calm>>
  BY DEF DeleteForEveryone
<1> QED BY <1>1, DeletedLife DEF LifeInv, LifeTypes

LEMMA ClearHistoryLife ==
    ASSUME LifeInv, ClearHistory
    PROVE  LifeInv'
<1>1. /\ gone' = [m \in LifeMsg |-> TRUE]
      /\ body' = [m \in LifeMsg |-> IF gone[m] THEN body[m] ELSE 0]
      /\ stt' = [m \in LifeMsg |-> IF gone[m] THEN stt[m] ELSE "none"]
      /\ UNCHANGED <<type, tr, job, edit, calm>>
  BY DEF ClearHistory
<1> QED BY <1>1, DeletedLife DEF LifeInv, LifeTypes

LEMMA ScreenLife ==
    ASSUME LifeInv, UNCHANGED <<type, body, stt, gone, tr, job, edit, calm>>
    PROVE  LifeInv'
<1>1. LifeTypes'
  BY DEF LifeInv, LifeTypes
<1>2. OneVoice' /\ Unheard' /\ AsksForText' /\ OfText' /\ TranscriptKept' /\ TranslationFollowsEdit'
  BY DEF LifeInv, OneVoice, Unheard, AsksForText, OfText, TranscriptKept, TranslationFollowsEdit
<1>3. EditAlone'
  BY DEF LifeInv, EditAlone
<1> QED BY <1>1, <1>2, <1>3 DEF LifeInv

LEMMA LifeNextKeeps == LifeInv /\ [LifeNext]_lifeVars => LifeInv'
<1> SUFFICES ASSUME LifeInv, [LifeNext]_lifeVars
             PROVE  LifeInv'
  OBVIOUS
<1>1. ASSUME NEW j \in LifeJob, TranscribeStarts(j) PROVE LifeInv'
  BY <1>1, TranscribeStartsLife
<1>2. ASSUME NEW j \in LifeJob, TranscribeFails(j) PROVE LifeInv'
  BY <1>2, TranscribeFailsLife
<1>3. ASSUME NEW j \in LifeJob, TranscribeRefused(j) PROVE LifeInv'
  BY <1>3, TranscribeRefusedLife
<1>4. ASSUME NEW j \in LifeJob, TranscribeDone(j) PROVE LifeInv'
  BY <1>4, TranscribeDoneLife
<1>5. ASSUME NEW j \in LifeJob, TranscribeRaises(j) PROVE LifeInv'
  BY <1>5, TranscribeRaisesLife
<1>6. ASSUME NEW j \in LifeJob, MarkAfterError(j) PROVE LifeInv'
  BY <1>6, MarkAfterErrorLife
<1>7. ASSUME NEW j \in LifeJob, FollowUp(j) PROVE LifeInv'
  BY <1>7, FollowUpLife
<1>8. ASSUME NEW j \in LifeJob, TranslateStarts(j) PROVE LifeInv'
  BY <1>8, TranslateStartsLife
<1>9. ASSUME NEW j \in LifeJob, NEW ok \in BOOLEAN, TranslateEnds(j, ok) PROVE LifeInv'
  BY <1>9, TranslateEndsLife
<1>10. ASSUME JobsLost PROVE LifeInv'
  BY <1>10, JobsLostLife
<1>11. ASSUME NEW m \in LifeMsg, EditStarts(m) PROVE LifeInv'
  BY <1>11, EditStartsLife
<1>12. ASSUME NEW ok \in BOOLEAN, EditEnds(ok) PROVE LifeInv'
  BY <1>12, EditEndsLife
<1>13. ASSUME NEW m \in LifeMsg, DeleteForEveryone(m) PROVE LifeInv'
  BY <1>13, DeleteForEveryoneLife
<1>14. ASSUME ClearHistory PROVE LifeInv'
  BY <1>14, ClearHistoryLife
<1>15. ASSUME OpenChat PROVE LifeInv'
  BY <1>15, OpenChatLife
<1>16. ASSUME NEW m \in LifeMsg, NEW by \in {"sender", "recipient"}, DeleteForMe(m, by)
       PROVE  LifeInv'
  BY <1>16, ScreenLife DEF DeleteForMe, rowVars
<1>17. ASSUME NEW m \in LifeMsg, ScrollAway(m) \/ ScrollBack(m) \/ Ages(m) \/ TimerRings(m)
       PROVE  LifeInv'
  BY <1>17, ScreenLife DEF ScrollAway, ScrollBack, Ages, TimerRings, rowVars
<1>18. ASSUME ClearMine \/ CloseChat PROVE LifeInv'
  BY <1>18, ScreenLife DEF ClearMine, CloseChat, rowVars
<1>19. ASSUME UNCHANGED lifeVars PROVE LifeInv'
  BY <1>19, ScreenLife DEF lifeVars
<1> QED BY <1>1, <1>2, <1>3, <1>4, <1>5, <1>6, <1>7, <1>8, <1>9, <1>10, <1>11, <1>12, <1>13, <1>14,
   <1>15, <1>16, <1>17, <1>18, <1>19 DEF LifeNext

\* The status of a voice message agrees with its transcript, and the recipient
\* reads no translation of an older text after an edit that no job overlaps,
\* whatever fails around a commit: TextsAgree is an invariant.
THEOREM TextsBelongTogether == LifeSpec => []TextsAgree
<1>1. LifeInv => TextsAgree
  BY DEF LifeInv, TextsAgree
<1> QED BY <1>1, InitLife, LifeNextKeeps, PTL DEF LifeSpec

(***************************************************************************)
(* MessageLife: the shimmer of a voice message.                            *)
(***************************************************************************)

BubbleRow == [show : {"none", "blank", "plain", "translated", "pending", "failed"}, text : Nat]

ScreenTypes ==
    /\ bubble \in [LifeMsg -> BubbleRow]
    /\ alarm \in [LifeMsg -> {"away", "off", "on", "rang"}]
    /\ aged \in [LifeMsg -> BOOLEAN]

\* Only a bubble in sight has a timer, and it has one when and only when it waits for
\* its transcript; the timer of a message that is not 45 seconds old has not rung.
Timed ==
    \A m \in LifeMsg :
        /\ bubble[m] = NoBubble => alarm[m] = "away"
        /\ alarm[m] # "away" => (alarm[m] # "off" <=> bubble[m].show = "pending")
        /\ alarm[m] = "rang" => aged[m]

ScreenInv == ScreenTypes /\ Timed

\* What shimmers has its timer set.
ShimmerTimed == \A m \in LifeMsg : Shimmers(m) => alarm[m] = "on"

\* When its time has passed a message does not begin to shimmer, whatever is loaded,
\* scrolled back or published about it.
NeverShimmersAgain ==
    [][\A m \in LifeMsg : aged[m] /\ ~Shimmers(m) => ~Shimmers(m)']_lifeVars

\* One bubble after a step: of its row and its timer follows the rest.
BubbleOk(m) ==
    /\ bubble[m] \in BubbleRow /\ alarm[m] \in {"away", "off", "on", "rang"}
    /\ bubble[m] = NoBubble => alarm[m] = "away"
    /\ alarm[m] # "away" => (alarm[m] # "off" <=> bubble[m].show = "pending")
    /\ alarm[m] = "rang" => aged[m]

Still(m) == aged[m] /\ ~Shimmers(m) => ~Shimmers(m)'

LEMMA ScreenByBubble ==
    ASSUME bubble' = [m \in LifeMsg |-> bubble'[m]], alarm' = [m \in LifeMsg |-> alarm'[m]],
           aged' \in [LifeMsg -> BOOLEAN], \A m \in LifeMsg : BubbleOk(m)'
    PROVE  ScreenInv'
BY DEF ScreenInv, ScreenTypes, Timed, BubbleOk

LEMMA BubbleFacts ==
    ASSUME ScreenInv, NEW m \in LifeMsg
    PROVE  BubbleOk(m)
BY DEF ScreenInv, ScreenTypes, Timed, BubbleOk

LEMMA NoBubbleRow == NoBubble \in BubbleRow /\ NoBubble.show = "none"
  BY DEF NoBubble, BubbleRow

\* A timer that is armed anew.
LEMMA ArmedOk ==
    ASSUME NEW b \in BubbleRow, NEW late \in BOOLEAN
    PROVE  /\ Armed(b, late) \in {"off", "on", "rang"}
           /\ Armed(b, late) # "off" <=> b.show = "pending"
           /\ Armed(b, late) = "rang" => late
           /\ late => Armed(b, late) # "on"
BY DEF Armed

\* The screen stays.
LEMMA ScreenStays ==
    ASSUME ScreenInv, UNCHANGED screenVars, aged' \in [LifeMsg -> BOOLEAN],
           \A m \in LifeMsg : aged[m] => aged'[m]
    PROVE  ScreenInv' /\ \A m \in LifeMsg : Still(m)
BY DEF ScreenInv, ScreenTypes, Timed, screenVars, Still, Shimmers

\* One bubble and its timer change.
LEMMA OneBubble ==
    ASSUME ScreenInv, NEW m \in LifeMsg, NEW b, NEW a, UNCHANGED aged,
           bubble' = [bubble EXCEPT ![m] = b], alarm' = [alarm EXCEPT ![m] = a],
           b \in BubbleRow, a \in {"away", "off", "on", "rang"},
           b = NoBubble => a = "away",
           a # "away" => (a # "off" <=> b.show = "pending"),
           a = "rang" => aged[m],
           aged[m] /\ ~Shimmers(m) => ~(b.show = "pending" /\ a \in {"on", "off"})
    PROVE  ScreenInv' /\ \A n \in LifeMsg : Still(n)
<1>1. /\ bubble' \in [LifeMsg -> BubbleRow] /\ alarm' \in [LifeMsg -> {"away", "off", "on", "rang"}]
      /\ bubble'[m] = b /\ alarm'[m] = a
      /\ \A n \in LifeMsg \ {m} : bubble'[n] = bubble[n] /\ alarm'[n] = alarm[n]
  BY DEF ScreenInv, ScreenTypes
<1>2. ScreenInv'
  BY <1>1 DEF ScreenInv, ScreenTypes, Timed
<1>3. \A n \in LifeMsg : Still(n)
  BY <1>1 DEF Still, Shimmers
<1> QED BY <1>2, <1>3

LEMMA VanishesScreen ==
    ASSUME ScreenInv, NEW m \in LifeMsg, Vanishes(m), UNCHANGED aged
    PROVE  ScreenInv' /\ \A n \in LifeMsg : Still(n)
BY OneBubble, NoBubbleRow DEF Vanishes

LEMMA ShowsScreen ==
    ASSUME ScreenInv, NEW m \in LifeMsg, NEW b \in BubbleRow, b.show # "none", Shows(m, b),
           UNCHANGED aged
    PROVE  ScreenInv' /\ \A n \in LifeMsg : Still(n)
<1>1. CASE ~open
  BY <1>1, ScreenStays DEF Shows, ScreenInv, ScreenTypes
<1>2. CASE open
  <2> DEFINE keeps == b = bubble[m] \/ (alarm[m] = "away" /\ bubble[m] # NoBubble)
             a == IF keeps THEN alarm[m] ELSE Armed(b, aged[m])
  <2>1. aged[m] \in BOOLEAN /\ alarm[m] \in {"away", "off", "on", "rang"} /\ BubbleOk(m)
    BY BubbleFacts DEF ScreenInv, ScreenTypes
  <2>2. b # NoBubble
    BY NoBubbleRow
  <2>3. bubble' = [bubble EXCEPT ![m] = b] /\ alarm' = [alarm EXCEPT ![m] = a]
    BY <1>2 DEF Shows, ScreenInv, ScreenTypes
  <2>4. CASE keeps
    <3>1. a = alarm[m]
      BY <2>4
    <3> HIDE DEF a
    <3> QED BY <2>1, <2>2, <2>3, <2>4, <3>1, OneBubble DEF BubbleOk, Shimmers
  <2>5. CASE ~keeps
    <3>1. a = Armed(b, aged[m])
      BY <2>5
    <3> HIDE DEF a
    <3> QED BY <2>1, <2>2, <2>3, <3>1, OneBubble, ArmedOk
  <2> QED BY <2>4, <2>5
<1> QED BY <1>1, <1>2

LEMMA MappedRow ==
    ASSUME NEW m \in LifeMsg, NEW v \in Nat, NEW s, NEW del \in BOOLEAN, NEW late \in BOOLEAN
    PROVE  Mapped(m, v, s, del, late) \in BubbleRow /\ Mapped(m, v, s, del, late).show # "none"
BY DEF Mapped, BubbleRow

\* The jobs, which show what they wrote.
LEMMA JobScreen ==
    ASSUME LifeInv, ScreenInv, NEW j \in LifeJob,
           \/ TranscribeStarts(j) \/ TranscribeFails(j) \/ TranscribeRefused(j)
           \/ TranscribeDone(j) \/ TranscribeRaises(j) \/ MarkAfterError(j) \/ FollowUp(j)
           \/ TranslateStarts(j)
    PROVE  ScreenInv' /\ \A n \in LifeMsg : Still(n)
<1> DEFINE m == job[j].msg
<1>1. CASE TranscribeStarts(j) \/ TranscribeRaises(j) \/ FollowUp(j) \/ TranslateStarts(j)
  BY <1>1, ScreenStays
  DEF TranscribeStarts, TranscribeRaises, FollowUp, TranslateStarts, ScreenInv, ScreenTypes
<1>2. CASE TranscribeFails(j) \/ TranscribeRefused(j) \/ TranscribeDone(j) \/ MarkAfterError(j)
  <2>1. m \in LifeMsg
    BY <1>2 DEF LifeInv, OneVoice, Transcribing, TranscribeFails, TranscribeRefused,
                TranscribeDone, MarkAfterError
  <2>2. job[j].gone \in BOOLEAN /\ gone[m] \in BOOLEAN /\ aged[m] \in BOOLEAN
    BY <2>1 DEF LifeInv, LifeTypes, JobRow, ScreenInv, ScreenTypes
  <2>3. CASE TranscribeFails(j)
    BY <2>1, <2>2, <2>3, MappedRow, ShowsScreen DEF TranscribeFails, MarksFailed
  <2>4. CASE TranscribeRefused(j)
    BY <2>1, <2>4, VanishesScreen DEF TranscribeRefused
  <2>5. CASE TranscribeDone(j)
    BY <2>1, <2>2, <2>5, MappedRow, ShowsScreen DEF TranscribeDone
  <2>6. CASE MarkAfterError(j) /\ body[m] = 0
    BY <2>1, <2>2, <2>6, MappedRow, ShowsScreen DEF MarkAfterError, MarksFailed
  <2>7. CASE MarkAfterError(j) /\ body[m] # 0
    BY <2>7, ScreenStays DEF MarkAfterError, ScreenInv, ScreenTypes
  <2> QED BY <1>2, <2>3, <2>4, <2>5, <2>6, <2>7
<1> QED BY <1>1, <1>2

LEMMA TranslateEndsScreen ==
    ASSUME LifeInv, ScreenInv, NEW j \in LifeJob, NEW ok \in BOOLEAN, TranslateEnds(j, ok)
    PROVE  ScreenInv' /\ \A n \in LifeMsg : Still(n)
<1> DEFINE m == job[j].msg
           b == IF job[j].gone THEN Mapped(m, 0, "none", TRUE, FALSE)
                ELSE [show |-> "translated", text |-> job[j].text]
<1>1. m \in LifeMsg /\ job[j].text \in Nat /\ job[j].gone \in BOOLEAN
  BY DEF LifeInv, LifeTypes, JobRow, AsksForText, TranslateEnds
<1>2. b \in BubbleRow /\ b.show # "none"
  BY <1>1, MappedRow DEF BubbleRow
<1>3. Shows(m, b) \/ UNCHANGED screenVars
  BY DEF TranslateEnds
<1>4. UNCHANGED aged
  BY DEF TranslateEnds
<1> HIDE DEF b, m
<1> QED BY <1>1, <1>2, <1>3, <1>4, ShowsScreen, ScreenStays DEF ScreenInv, ScreenTypes

LEMMA EditScreen ==
    ASSUME LifeInv, ScreenInv, NEW ok \in BOOLEAN, EditEnds(ok)
    PROVE  ScreenInv' /\ \A n \in LifeMsg : Still(n)
<1> DEFINE m == edit.msg
           v == body[m] + 1
           b == [show |-> "plain", text |-> v]
<1>1. m \in LifeMsg
  BY DEF LifeInv, EditAlone, EditEnds
<1>2. v \in Nat
  BY <1>1 DEF LifeInv, LifeTypes
<1>3. b \in BubbleRow /\ b.show # "none"
  BY <1>2 DEF BubbleRow
<1>4. (Shows(m, b) \/ UNCHANGED screenVars) /\ UNCHANGED aged
  BY DEF EditEnds
<1> HIDE DEF b, m
<1> QED BY <1>1, <1>3, <1>4, ShowsScreen, ScreenStays DEF ScreenInv, ScreenTypes

\* The screen is emptied, or loaded.
LEMMA ClearedScreen ==
    ASSUME ScreenInv, UNCHANGED aged, bubble' = [m \in LifeMsg |-> NoBubble],
           alarm' = [m \in LifeMsg |-> "away"]
    PROVE  ScreenInv' /\ \A n \in LifeMsg : Still(n)
BY NoBubbleRow DEF ScreenInv, ScreenTypes, Timed, Still, Shimmers

LEMMA LoadedRow ==
    ASSUME LifeInv, ScreenInv, NEW m \in LifeMsg
    PROVE  Loaded(m) \in BubbleRow /\ Loaded(m).show # "none"
<1>1. tr[m] \in TrRow /\ body[m] \in Nat /\ aged[m] \in BOOLEAN
  BY DEF LifeInv, LifeTypes, ScreenInv, ScreenTypes
<1>2. [show |-> "translated", text |-> tr[m].of] \in BubbleRow
  BY <1>1 DEF BubbleRow, TrRow
<1> QED BY <1>1, <1>2, MappedRow DEF Loaded

LEMMA OpenChatScreen ==
    ASSUME LifeInv, ScreenInv, OpenChat
    PROVE  ScreenInv' /\ \A n \in LifeMsg : Still(n)
<1>1. /\ bubble' = [m \in LifeMsg |-> IF m \in Listed THEN Loaded(m) ELSE NoBubble]
      /\ alarm' = [m \in LifeMsg |-> IF m \in Listed THEN Armed(Loaded(m), aged[m]) ELSE "away"]
      /\ aged' = aged /\ aged \in [LifeMsg -> BOOLEAN]
  BY DEF OpenChat, ScreenInv, ScreenTypes
<1>2. ASSUME NEW m \in LifeMsg PROVE BubbleOk(m)' /\ Still(m)
  <2>1. CASE m \in Listed
    <3>1. bubble'[m] = Loaded(m) /\ alarm'[m] = Armed(Loaded(m), aged[m]) /\ aged'[m] = aged[m]
      BY <1>1, <2>1
    <3>2. Loaded(m) # NoBubble /\ aged[m] \in BOOLEAN
      BY <1>1, LoadedRow, NoBubbleRow
    <3> QED BY <3>1, <3>2, LoadedRow, ArmedOk DEF BubbleOk, Still, Shimmers
  <2>2. CASE m \notin Listed
    BY <1>1, <2>2, NoBubbleRow DEF BubbleOk, Still, Shimmers
  <2> QED BY <2>1, <2>2
<1> QED BY <1>1, <1>2, ScreenByBubble

\* The recipient scrolls, and time passes.
LEMMA ScrollScreen ==
    ASSUME ScreenInv, NEW m \in LifeMsg, ScrollAway(m) \/ ScrollBack(m) \/ TimerRings(m)
    PROVE  ScreenInv' /\ \A n \in LifeMsg : Still(n)
<1>1. bubble[m] \in BubbleRow /\ aged[m] \in BOOLEAN /\ BubbleOk(m)
  BY BubbleFacts DEF ScreenInv, ScreenTypes
<1>2. bubble' = [bubble EXCEPT ![m] = bubble[m]] /\ UNCHANGED aged
  BY DEF ScreenInv, ScreenTypes, ScrollAway, ScrollBack, TimerRings
<1>3. CASE ScrollAway(m)
  BY <1>1, <1>2, <1>3, OneBubble DEF ScrollAway
<1>4. CASE ScrollBack(m)
  <2> DEFINE a == Armed(bubble[m], aged[m])
  <2>1. alarm' = [alarm EXCEPT ![m] = a] /\ bubble[m] # NoBubble
    BY <1>4 DEF ScrollBack
  <2>2. a \in {"off", "on", "rang"} /\ (a # "off" <=> bubble[m].show = "pending")
        /\ (a = "rang" => aged[m]) /\ (aged[m] => a # "on")
    BY <1>1, ArmedOk
  <2> HIDE DEF a
  <2> QED BY <1>1, <1>2, <2>1, <2>2, OneBubble
<1>5. CASE TimerRings(m)
  BY <1>1, <1>2, <1>5, OneBubble DEF TimerRings, BubbleOk
<1> QED BY <1>3, <1>4, <1>5

LEMMA ScreenInvInit == LifeInit => ScreenInv
<1> SUFFICES ASSUME LifeInit PROVE ScreenInv
  OBVIOUS
<1>1. /\ bubble = [m \in LifeMsg |-> NoBubble] /\ alarm = [m \in LifeMsg |-> "away"]
      /\ aged \in [LifeMsg -> BOOLEAN]
  BY DEF LifeInit
<1> QED BY <1>1, NoBubbleRow DEF ScreenInv, ScreenTypes, Timed

LEMMA ScreenStep ==
    ASSUME LifeInv, ScreenInv, [LifeNext]_lifeVars
    PROVE  ScreenInv' /\ \A n \in LifeMsg : Still(n)
<1> USE DEF ScreenInv, ScreenTypes
<1>1. CASE UNCHANGED lifeVars \/ JobsLost \/ ClearMine \/ \E m \in LifeMsg : EditStarts(m)
  BY <1>1, ScreenStays DEF lifeVars, screenVars, JobsLost, ClearMine, EditStarts
<1>2. ASSUME NEW m \in LifeMsg, Ages(m) PROVE ScreenInv' /\ \A n \in LifeMsg : Still(n)
  BY <1>2, ScreenStays DEF Ages
<1> USE DEF ClearHistory, CloseChat, DeleteForEveryone, DeleteForMe
<1>3. CASE ClearHistory \/ CloseChat
  BY <1>3, ClearedScreen
<1>4. ASSUME NEW m \in LifeMsg,
             DeleteForEveryone(m) \/ \E by \in {"sender", "recipient"} : DeleteForMe(m, by)
      PROVE  ScreenInv' /\ \A n \in LifeMsg : Still(n)
  BY <1>4, VanishesScreen
<1> QED BY <1>1, <1>2, <1>3, <1>4, JobScreen, TranslateEndsScreen, EditScreen, OpenChatScreen,
           ScrollScreen DEF LifeNext

\* A bubble that shimmers for its transcript has its timer set: on the way in, after
\* every event and every scroll (_TranscriptSection of chat_message_item.dart).  It is
\* what ShimmerEnds needs beside the fairness of the clock.
THEOREM ShimmerHasItsTimer == LifeSpec => []ShimmerTimed
<1>1. ScreenInv => ShimmerTimed
  BY DEF ScreenInv, Timed, ShimmerTimed, Shimmers
<1> QED BY <1>1, InitLife, LifeNextKeeps, ScreenInvInit, ScreenStep, PTL DEF LifeSpec

\* A message 45 seconds old that does not shimmer never does again: not on a reload,
\* on the way back into sight, nor on an event that repeats what it shows.
THEOREM ShimmerDoesNotReturn == LifeSpec => NeverShimmersAgain
<1>1. LifeInv /\ ScreenInv /\ [LifeNext]_lifeVars
      => [\A m \in LifeMsg : aged[m] /\ ~Shimmers(m) => ~Shimmers(m)']_lifeVars
  BY ScreenStep DEF Still
<1> QED BY <1>1, InitLife, LifeNextKeeps, ScreenInvInit, ScreenStep, PTL
        DEF LifeSpec, NeverShimmersAgain

(***************************************************************************)
(* PaymentWatch: a payment that is made one at a time on a screen that     *)
(* asks one question at a time.                                            *)
(***************************************************************************)

WatchTypes ==
    /\ buying \subseteq Buy /\ heard \subseteq Buy
    /\ pending \in Buy \cup {NoBuy} /\ pollTimer \in Buy \cup {NoBuy}
    /\ status \in [Buy -> {"absent", "pending", "over"}]
    /\ tries \in [Buy -> Nat]
    /\ polls \subseteq [owner : Buy \cup {NoBuy}, about : Buy, n : Nat]

\* The flag is set exactly while a question is open, and never for two.
OneQuestion ==
    OnePoll => /\ polling <=> polls # {}
               /\ \A q, r \in polls : q = r

\* The last question of a timer is the open one.
LastTryOpen(p) == \E q \in polls : q.owner = p /\ tries[p] = MaxTries

\* Who stays, and makes one payment at a time: it is followed by the timer of its own
\* checkout, which has an attempt left or its last one open, and the open question is
\* about it.  Whatever was asked about once is followed still, or the user was told.
Followed ==
    alive /\ oneAtATime /\ OnePoll =>
        /\ pending = pollTimer
        /\ pending # NoBuy => tries[pending] < MaxTries \/ LastTryOpen(pending)
        /\ \A q \in polls : q.about = pending
        /\ \A p \in Buy : tries[p] > 0 => p = pending \/ p \in heard

\* Meanwhile nothing else is bought, and what is being bought is new.
OneBuy ==
    oneAtATime =>
        /\ alive /\ pending # NoBuy => buying = {}
        /\ pollTimer \notin buying /\ (pollTimer # NoBuy => status[pollTimer] # "absent")
        /\ \A p, r \in buying : p = r
        /\ \A p \in buying : tries[p] = 0
        /\ \A p \in Buy : status[p] = "absent" => tries[p] = 0 /\ p \notin buying

WatchInv == WatchTypes /\ OneQuestion /\ Followed /\ OneBuy

WatchPoll == [owner : Buy \cup {NoBuy}, about : Buy, n : Nat]

LEMMA WatchInvInit == WatchInit => WatchInv
  BY WatchAssumption
  DEF WatchInit, WatchInv, WatchTypes, OneQuestion, Followed, OneBuy, OnePoll, WatchAssumption

LEMMA CheckoutWatch == ASSUME WatchInv, NEW p \in Buy, Checkout(p) PROVE WatchInv'
<1>1. WatchTypes'
  BY DEF WatchInv, WatchTypes, Checkout
<1>2. OneQuestion' /\ Followed'
  BY DEF WatchInv, WatchTypes, OneQuestion, Followed, OnePoll, LastTryOpen, Checkout
<1>3. OneBuy'
  BY WatchAssumption DEF WatchInv, WatchTypes, OneBuy, WatchAssumption, Checkout
<1> QED BY <1>1, <1>2, <1>3 DEF WatchInv

LEMMA CheckoutEndsWatch == ASSUME WatchInv, NEW p \in Buy, CheckoutEnds(p) PROVE WatchInv'
<1>1. WatchTypes'
  BY DEF WatchInv, WatchTypes, CheckoutEnds
<1>2. OneQuestion' /\ Followed'
  BY DEF WatchInv, OneQuestion, Followed, OnePoll, LastTryOpen, CheckoutEnds
<1>3. OneBuy'
  BY DEF WatchInv, OneBuy, CheckoutEnds
<1> QED BY <1>1, <1>2, <1>3 DEF WatchInv

\* The payment is followed from its first question on: no other is, and none is open.
LEMMA FollowWatch == ASSUME WatchInv, NEW p \in Buy, Follow(p) PROVE WatchInv'
<1>1. WatchTypes'
  BY DEF WatchInv, WatchTypes, Follow
<1>2. OneQuestion'
  BY DEF WatchInv, OneQuestion, OnePoll, Follow
<1>3. oneAtATime => tries' = tries
  BY DEF WatchInv, WatchTypes, OneBuy, Follow
<1>4. Followed'
  <2> SUFFICES ASSUME alive, oneAtATime, OnePoll
               PROVE  /\ 0 < MaxTries /\ tries'[p] = 0
                      /\ polls = {}
                      /\ \A r \in Buy : tries[r] > 0 => r \in heard
    BY <1>3, WatchAssumption DEF WatchInv, WatchTypes, Followed, OnePoll, LastTryOpen, Follow
  <2>1. pending = NoBuy
    BY DEF WatchInv, OneBuy, Follow
  <2>2. polls = {}
    BY <2>1, WatchAssumption DEF WatchInv, WatchTypes, Followed, WatchAssumption
  <2>3. \A r \in Buy : tries[r] > 0 => r \in heard
    BY <2>1, WatchAssumption DEF WatchInv, Followed, WatchAssumption
  <2>4. 0 < MaxTries /\ tries'[p] = 0
    BY WatchAssumption DEF WatchInv, WatchTypes, WatchAssumption, Follow
  <2> QED BY <2>2, <2>3, <2>4
<1>5. OneBuy'
  <2> SUFFICES ASSUME oneAtATime PROVE OneBuy'
    BY DEF OneBuy, Follow
  <2>1. buying' = {}
    BY DEF WatchInv, OneBuy, Follow
  <2> QED BY <1>3, <2>1 DEF WatchInv, OneBuy, Follow
<1> QED BY <1>1, <1>2, <1>4, <1>5 DEF WatchInv

LEMMA SettledWatch == ASSUME WatchInv, NEW p \in Buy, Settled(p) PROVE WatchInv'
<1>1. WatchTypes'
  BY DEF WatchInv, WatchTypes, Settled
<1>2. OneQuestion' /\ Followed'
  BY DEF WatchInv, OneQuestion, Followed, OnePoll, LastTryOpen, Settled
<1>3. OneBuy'
  BY DEF WatchInv, WatchTypes, OneBuy, Settled
<1> QED BY <1>1, <1>2, <1>3 DEF WatchInv

\* A question about the payment that is followed, of a timer or of the user.
LEMMA QuestionAsked ==
    ASSUME WatchInv, NEW o \in Buy \cup {NoBuy}, NEW n \in Nat, pending \in Buy, Asks(o, n)
    PROVE  /\ polls' \subseteq WatchPoll
           /\ \A q \in polls' : q \in polls \/ (q.owner = o /\ q.about = pending)
           /\ \E q \in polls' : q.owner = o
           /\ OnePoll /\ ~polling => \A q, r \in polls' : q = r
<1> DEFINE new == [owner |-> o, about |-> pending, n |-> n]
<1>1. new \in WatchPoll /\ new.owner = o /\ new.about = pending
  BY DEF WatchPoll
<1>2. polls' = polls \cup {new} /\ polls \subseteq WatchPoll
  BY DEF WatchInv, WatchTypes, WatchPoll, Asks
<1> HIDE DEF new
<1> QED BY <1>1, <1>2 DEF WatchInv, OneQuestion

LEMMA FiresWatch == ASSUME WatchInv, Fires PROVE WatchInv'
<1>1. pollTimer \in Buy /\ tries[pollTimer] \in Nat /\ MaxTries \in Nat \ {0}
  BY WatchAssumption DEF WatchInv, WatchTypes, Fires, WatchAssumption
<1>2. /\ tries' \in [Buy -> Nat] /\ tries'[pollTimer] = tries[pollTimer] + 1
      /\ \A p \in Buy \ {pollTimer} : tries'[p] = tries[p]
  BY <1>1 DEF WatchInv, WatchTypes, Fires
<1>3. OneBuy'
  BY <1>1, <1>2, WatchAssumption DEF WatchInv, WatchTypes, OneBuy, WatchAssumption, Fires
<1>4. CASE pending = NoBuy
  <2>1. UNCHANGED <<polls, polling>> /\ pollTimer' = NoBuy /\ pending' = NoBuy
    BY <1>4 DEF Fires
  <2>2. WatchTypes' /\ OneQuestion'
    BY <1>2, <2>1 DEF WatchInv, WatchTypes, OneQuestion, OnePoll, Fires
  <2>3. Followed'
    BY <1>1, <1>4, <2>1, WatchAssumption DEF WatchInv, Followed, OnePoll, Fires, WatchAssumption
  <2> QED BY <1>3, <2>2, <2>3 DEF WatchInv
<1>5. CASE pending # NoBuy
  <2> DEFINE o == pollTimer
             n == tries[pollTimer] + 1
  <2>1. pending \in Buy /\ Asks(o, n) /\ n \in Nat /\ pollTimer' = pollTimer /\ pending' = pending
    BY <1>1, <1>5 DEF WatchInv, WatchTypes, Fires
  <2>2. polling' = OnePoll /\ ~polling
    BY <2>1 DEF Asks, Fires
  <2> HIDE DEF n
  <2>3. /\ polls' \subseteq WatchPoll
        /\ \A q \in polls' : q \in polls \/ (q.owner = pollTimer /\ q.about = pending)
        /\ \E q \in polls' : q.owner = pollTimer
        /\ OnePoll => \A q, r \in polls' : q = r
    BY <1>1, <2>1, <2>2, QuestionAsked
  <2>4. WatchTypes'
    BY <1>2, <2>1, <2>3 DEF WatchInv, WatchTypes, WatchPoll, Fires
  <2>5. OneQuestion'
    BY <2>2, <2>3 DEF WatchInv, OneQuestion, OnePoll, Fires
  <2>6. Followed'
    <3> SUFFICES ASSUME alive, oneAtATime, OnePoll PROVE Followed'
      BY DEF Followed, OnePoll, Fires
    <3>1. pending = pollTimer /\ tries[pending] < MaxTries
      BY <2>2, <1>5 DEF WatchInv, OneQuestion, Followed, LastTryOpen
    <3>2. tries'[pending] < MaxTries \/ LastTryOpen(pending)'
      BY <1>1, <1>2, <2>1, <2>3, <3>1 DEF LastTryOpen
    <3> QED BY <1>2, <2>1, <2>3, <3>1, <3>2 DEF WatchInv, Followed, OnePoll, LastTryOpen, Fires
  <2> QED BY <1>3, <2>4, <2>5, <2>6 DEF WatchInv
<1> QED BY <1>4, <1>5

LEMMA ResumesWatch == ASSUME WatchInv, Resumes PROVE WatchInv'
<1>1. pending \in Buy /\ Asks(NoBuy, 0) /\ polling' = OnePoll /\ ~polling
  BY DEF WatchInv, WatchTypes, Resumes, Asks
<1>2. /\ polls' \subseteq WatchPoll
      /\ \A q \in polls' : q \in polls \/ (q.owner = NoBuy /\ q.about = pending)
      /\ \E q \in polls' : q.owner = NoBuy
      /\ OnePoll => \A q, r \in polls' : q = r
  BY <1>1, QuestionAsked
<1>3. WatchTypes'
  BY <1>2 DEF WatchInv, WatchTypes, WatchPoll, Resumes
<1>4. OneQuestion'
  BY <1>1, <1>2 DEF WatchInv, OneQuestion, OnePoll, Resumes
<1>5. Followed'
  <2> SUFFICES ASSUME alive, oneAtATime, OnePoll PROVE Followed'
    BY DEF Followed, OnePoll, Resumes
  <2>1. tries[pending] < MaxTries
    BY <1>1 DEF WatchInv, OneQuestion, Followed, LastTryOpen, Resumes
  <2> QED BY <1>2, <2>1 DEF WatchInv, Followed, OnePoll, LastTryOpen, Resumes
<1>6. OneBuy'
  BY DEF WatchInv, OneBuy, Resumes
<1> QED BY <1>3, <1>4, <1>5, <1>6 DEF WatchInv

\* The only question is answered.
LEMMA AnswerWatch ==
    ASSUME WatchInv, NEW q \in polls, polls' = polls \ {q}, polling' = FALSE,
           UNCHANGED <<screen, alive, status, buying, tries, oneAtATime>>,
           \/ heard' = heard \cup {q.about} /\ pending' = NoBuy /\ pollTimer' = NoBuy
           \/ UNCHANGED <<heard, pending, pollTimer>> /\ ~LastTry(q)
    PROVE  WatchInv'
<1>1. q \in WatchPoll
  BY DEF WatchInv, WatchTypes, WatchPoll
<1>2. q.about \in Buy /\ q.owner \in Buy \cup {NoBuy}
  BY <1>1 DEF WatchPoll
<1>3. WatchTypes'
  BY <1>2 DEF WatchInv, WatchTypes
<1>4. OnePoll => polls' = {} /\ \A r \in polls : r = q
  BY DEF WatchInv, OneQuestion
<1>5. OneQuestion'
  BY <1>4 DEF OneQuestion, OnePoll
<1>6. Followed'
  <2> SUFFICES ASSUME alive, oneAtATime, OnePoll PROVE Followed'
    BY DEF Followed, OnePoll
  <2>1. q.about = pending
    BY DEF WatchInv, Followed
  <2>2. CASE heard' = heard \cup {q.about} /\ pending' = NoBuy /\ pollTimer' = NoBuy
    BY <1>4, <2>1, <2>2 DEF WatchInv, Followed, OnePoll
  <2>3. CASE UNCHANGED <<heard, pending, pollTimer>> /\ ~LastTry(q)
    <3>1. pending \in Buy /\ MaxTries \in Nat /\ tries[pending] \in Nat /\ pending # NoBuy
      BY <1>2, <2>1, WatchAssumption DEF WatchInv, WatchTypes, WatchAssumption
    <3>2. ~LastTryOpen(pending)
      BY <1>4, <2>3, <3>1 DEF LastTryOpen, LastTry
    <3>3. tries[pending] < MaxTries
      BY <3>1, <3>2 DEF WatchInv, Followed
    <3> QED BY <1>4, <2>3, <3>3 DEF WatchInv, Followed, OnePoll
  <2> QED BY <2>2, <2>3
<1>7. OneBuy'
  BY WatchAssumption DEF WatchInv, WatchTypes, OneBuy, WatchAssumption
<1> QED BY <1>3, <1>5, <1>6, <1>7 DEF WatchInv

LEMMA PollWatch == ASSUME WatchInv, PollAnswered PROVE WatchInv'
<1>1. ASSUME NEW q \in polls, PollResolves(q) PROVE WatchInv'
  BY <1>1, AnswerWatch DEF PollResolves
<1>2. ASSUME NEW q \in polls, PollLeavesOpen(q) PROVE WatchInv'
  BY <1>2, AnswerWatch DEF PollLeavesOpen
<1> QED BY <1>1, <1>2 DEF PollAnswered

LEMMA LeaveWatch == ASSUME WatchInv, LeaveScreen PROVE WatchInv'
  BY WatchAssumption
  DEF WatchInv, WatchTypes, OneQuestion, OnePoll, Followed, OneBuy, WatchAssumption, LeaveScreen

LEMMA WatchStep == WatchInv /\ [WatchNext]_watchVars => WatchInv'
<1> SUFFICES ASSUME WatchInv, [WatchNext]_watchVars PROVE WatchInv'
  OBVIOUS
<1>1. CASE UNCHANGED watchVars
  BY <1>1 DEF watchVars, WatchInv, WatchTypes, OneQuestion, OnePoll, Followed, LastTryOpen, OneBuy
<1>2. CASE \E p \in Buy : Checkout(p) \/ CheckoutEnds(p) \/ Follow(p) \/ Settled(p)
  BY <1>2, CheckoutWatch, CheckoutEndsWatch, FollowWatch, SettledWatch
<1>3. CASE Fires \/ Resumes \/ PollAnswered \/ LeaveScreen
  BY <1>3, FiresWatch, ResumesWatch, PollWatch, LeaveWatch
<1> QED BY <1>1, <1>2, <1>3 DEF WatchNext

\* Who makes one payment at a time on a screen that asks one question at a time, and
\* stays: the payment that is followed has a timer of its own with an attempt left or
\* its last one open, and no payment that was asked about is given up without a word
\* (_pollPayment and the poll timers).  It is what PaymentTold needs beside fairness.
THEOREM PaymentNeverDropped == WatchSpec => []Followed
<1>1. WatchInv => Followed
  BY DEF WatchInv
<1> QED BY <1>1, WatchInvInit, WatchStep, PTL DEF WatchSpec

(***************************************************************************)
(* Catalogue: who ends the progress the products screen shows.             *)
(***************************************************************************)

TaskRow == [kind : {"none", "load", "search", "filter", "favs", "mine", "fallback"},
            at : {"start", "smart", "plain", "list"}, text : Nat, filter : BOOLEAN,
            gen : Nat, seq : Nat]

CatTypes ==
    /\ task \in [Task -> TaskRow] /\ gen \in Nat /\ seq \in Nat
    /\ query \in Text \cup {0} /\ typed \in Text \cup {0}
    /\ {filter, favs, loading, searching} \subseteq BOOLEAN

\* A load that no newer one overtook, or a list that has no generation.
EndsLoading(t) ==
    \/ task[t].kind = "load" /\ task[t].gen = gen
    \/ task[t].kind \in {"favs", "mine"}

EndsSearching(t) == task[t].kind \in {"search", "filter"}

\* A search waits for an answer of its own: it is not before its first call.
Awaits == \A t \in Task : task[t].kind \in {"search", "fallback"} => task[t].at \in {"smart", "plain"}

\* A progress bar has somebody waiting whose answer takes it off, or the timer that
\* starts the search.
ProgressIsOwned ==
    /\ loading => \E t \in Task : EndsLoading(t)
    /\ searching => typed # 0 \/ \E t \in Task : EndsSearching(t)

CatInv == CatTypes /\ Awaits /\ ProgressIsOwned

\* The rows a handler is given.
LEMMA TaskRows ==
    /\ NoTask \in TaskRow /\ NoTask.kind = "none"
    /\ \A k \in {"favs", "mine"} :
          LET r == [NoTask EXCEPT !.kind = k] IN r \in TaskRow /\ r.kind = k
    /\ \A x \in Nat, on \in BOOLEAN :
          LET r == [NoTask EXCEPT !.kind = "filter", !.text = x, !.filter = on] IN
          r \in TaskRow /\ r.kind = "filter"
BY DEF NoTask, TaskRow

\* A handler gets a row; the progress it owned is off, or it owns it still.
LEMMA RowGiven ==
    ASSUME CatInv, NEW t \in Task, NEW r \in TaskRow,
           task' = [task EXCEPT ![t] = r], gen' \in {gen, gen + 1}, seq' \in {seq, seq + 1},
           query' \in Text \cup {0}, typed' \in Text \cup {0},
           filter' \in BOOLEAN, favs' \in BOOLEAN, loading' \in BOOLEAN, searching' \in BOOLEAN,
           r.kind \in {"search", "fallback"} => r.at \in {"smart", "plain"},
           loading' => \/ r.kind = "load" /\ r.gen = gen'
                       \/ r.kind \in {"favs", "mine"}
                       \/ loading /\ gen' = gen /\ ~EndsLoading(t),
           searching' => \/ r.kind \in {"search", "filter"}
                         \/ typed' # 0
                         \/ searching /\ typed' = typed /\ ~EndsSearching(t)
    PROVE  CatInv'
<1>1. /\ task' \in [Task -> TaskRow] /\ task'[t] = r
      /\ \A u \in Task \ {t} : task'[u] = task[u]
  BY DEF CatInv, CatTypes
<1>2. CatTypes'
  BY <1>1 DEF CatInv, CatTypes
<1>3. Awaits'
  BY <1>1 DEF CatInv, Awaits
<1>4. ProgressIsOwned'
  <2>1. ASSUME loading' PROVE \E u \in Task : EndsLoading(u)'
    <3>1. CASE (r.kind = "load" /\ r.gen = gen') \/ r.kind \in {"favs", "mine"}
      BY <1>1, <3>1 DEF EndsLoading
    <3>2. CASE loading /\ gen' = gen /\ ~EndsLoading(t)
      <4>1. PICK u \in Task : EndsLoading(u)
        BY <3>2 DEF CatInv, ProgressIsOwned
      <4> QED BY <1>1, <3>2, <4>1 DEF EndsLoading
    <3> QED BY <2>1, <3>1, <3>2
  <2>2. ASSUME searching' PROVE typed' # 0 \/ \E u \in Task : EndsSearching(u)'
    <3>1. CASE r.kind \in {"search", "filter"}
      BY <1>1, <3>1 DEF EndsSearching
    <3>2. CASE searching /\ typed' = typed /\ ~EndsSearching(t)
      BY <1>1, <3>2 DEF CatInv, ProgressIsOwned, EndsSearching
    <3> QED BY <2>2, <3>1, <3>2
  <2> QED BY <2>1, <2>2 DEF ProgressIsOwned
<1> QED BY <1>2, <1>3, <1>4 DEF CatInv

LEMMA CatTextNat == CatInv => /\ query \in Nat /\ typed \in Nat /\ filter \in BOOLEAN
                              /\ favs \in BOOLEAN /\ loading \in BOOLEAN /\ searching \in BOOLEAN
  BY CatalogueAssumption DEF CatInv, CatTypes, CatalogueAssumption

\* A handler that starts was free, so no bar was its own.
LEMMA FreeOwnsNothing ==
    ASSUME NEW t \in Task, task[t] = NoTask
    PROVE  ~EndsLoading(t) /\ ~EndsSearching(t)
BY TaskRows DEF EndsLoading, EndsSearching

LEMMA LoadsCat ==
    ASSUME CatInv, NEW t \in Task, NEW keep \in BOOLEAN, Loads(t, keep), filter' = filter,
           seq' = seq,
           \/ typed' = typed /\ searching' = searching
           \/ typed' = 0 /\ searching' = FALSE
    PROVE  CatInv'
<1> DEFINE x == IF keep THEN query ELSE 0
           n == gen + 1
           r == [NoTask EXCEPT !.kind = "load", !.gen = n, !.text = x]
<1>1. n \in Nat /\ x \in Nat
  BY CatTextNat DEF CatInv, CatTypes
<1>2. n = gen + 1 /\ x = IF keep THEN query ELSE 0
  OBVIOUS
<1> HIDE DEF n, x
<1>3. r \in TaskRow /\ r.kind = "load" /\ r.gen = n
  BY <1>1 DEF NoTask, TaskRow
<1>4. task[t] = NoTask /\ task' = [task EXCEPT ![t] = r] /\ gen' = gen + 1
      /\ query' = x /\ loading' = TRUE /\ favs' = FALSE
  BY <1>2 DEF Loads, Starts
<1>5. x \in Text \cup {0} /\ typed' \in Text \cup {0}
  BY <1>2 DEF CatInv, CatTypes
<1>6. searching' \in BOOLEAN /\ filter' \in BOOLEAN
  BY CatTextNat
<1>7. searching' => searching /\ typed' = typed /\ ~EndsSearching(t)
  BY <1>4, FreeOwnsNothing
<1> HIDE DEF r
<1> QED BY <1>2, <1>3, <1>4, <1>5, <1>6, <1>7, RowGiven

LEMMA TypeCat == ASSUME CatInv, NEW x \in Text, Type(x) PROVE CatInv'
<1>1. x # 0 /\ typed' = x
  BY CatalogueAssumption DEF CatalogueAssumption, Type
<1> QED BY <1>1 DEF CatInv, CatTypes, Awaits, ProgressIsOwned, EndsLoading, Type

LEMMA ReloadCat == ASSUME CatInv, NEW t \in Task, Empty(t) \/ Refresh(t) PROVE CatInv'
<1>1. CASE Empty(t)
  BY <1>1, LoadsCat DEF Empty
<1>2. CASE Refresh(t)
  <2>1. PICK keep \in {~favs, TRUE} : Loads(t, keep)
    BY <1>2 DEF Refresh
  <2> QED BY <1>2, <2>1, LoadsCat, CatTextNat DEF Refresh
<1> QED BY <1>1, <1>2

\* The favourites, and the own products: lists without a generation.
LEMMA OwnCat ==
    ASSUME CatInv, NEW t \in Task, NEW k \in {"favs", "mine"},
           Starts(t, [NoTask EXCEPT !.kind = k]), loading' = TRUE, favs' \in BOOLEAN,
           UNCHANGED <<query, filter, searching, typed, gen, seq>>
    PROVE  CatInv'
<1> DEFINE r == [NoTask EXCEPT !.kind = k]
<1>1. r \in TaskRow /\ r.kind = k
  BY TaskRows
<1>2. task[t] = NoTask /\ task' = [task EXCEPT ![t] = r]
  BY DEF Starts
<1> HIDE DEF r
<1> QED BY <1>1, <1>2, RowGiven, FreeOwnsNothing, CatTextNat DEF CatInv, CatTypes

LEMMA ShowFavoritesCat == ASSUME CatInv, NEW t \in Task, ShowFavorites(t) PROVE CatInv'
<1>1. CASE favs /\ Loads(t, FALSE)
  BY <1>1, LoadsCat DEF ShowFavorites
<1>2. CASE Starts(t, [NoTask EXCEPT !.kind = "favs"]) /\ loading' = TRUE /\ favs' = TRUE
           /\ UNCHANGED <<query, gen>>
  BY <1>2, OwnCat DEF ShowFavorites
<1> QED BY <1>1, <1>2 DEF ShowFavorites

LEMMA LoadMineCat == ASSUME CatInv, NEW t \in Task, LoadMine(t) PROVE CatInv'
  BY OwnCat DEF LoadMine

LEMMA SetFilterCat ==
    ASSUME CatInv, NEW t \in Task, NEW on \in BOOLEAN, SetFilter(t, on)
    PROVE  CatInv'
<1>1. PICK x \in {query} \cup (IF on THEN {0} ELSE {}) :
         Starts(t, [NoTask EXCEPT !.kind = "filter", !.text = x, !.filter = on])
  BY DEF SetFilter
<1> DEFINE r == [NoTask EXCEPT !.kind = "filter", !.text = x, !.filter = on]
<1>2. x \in Nat
  BY <1>1, CatTextNat
<1>3. r \in TaskRow /\ r.kind = "filter"
  BY <1>2, TaskRows
<1>4. task[t] = NoTask /\ task' = [task EXCEPT ![t] = r]
  BY <1>1 DEF Starts
<1> HIDE DEF r
<1> QED BY <1>3, <1>4, RowGiven, FreeOwnsNothing, CatTextNat DEF CatInv, CatTypes, SetFilter

LEMMA SearchRow ==
    ASSUME CatInv, NEW t \in Task, NEW x \in Nat
    PROVE  /\ Searching(x, t) \in TaskRow /\ Searching(x, t).at \in {"smart", "plain"}
           /\ Searching(x, t).kind = task[t].kind /\ Searching(x, t).gen = task[t].gen
<1>1. task[t] \in TaskRow /\ seq + 1 \in Nat /\ filter \in BOOLEAN
  BY CatTextNat DEF CatInv, CatTypes
<1> QED BY <1>1 DEF Searching, TaskRow

LEMMA DebounceCat == ASSUME CatInv, NEW t \in Task, Debounce(t) PROVE CatInv'
<1> DEFINE s == Searching(typed, t)
           r == [s EXCEPT !.kind = "search"]
<1>1. s \in TaskRow /\ s.at \in {"smart", "plain"}
  BY SearchRow, CatTextNat
<1> HIDE DEF s
<1>2. r \in TaskRow /\ r.at = s.at /\ r.kind = "search"
  BY <1>1 DEF TaskRow
<1>3. task[t] = NoTask /\ task' = [task EXCEPT ![t] = r]
  BY DEF Debounce, s
<1> HIDE DEF r
<1> QED BY <1>1, <1>2, <1>3, RowGiven, FreeOwnsNothing, CatTextNat DEF CatInv, CatTypes, Debounce

LEMMA TopAnsweredCat == ASSUME CatInv, NEW t \in Task, TopAnswered(t) PROVE CatInv'
<1>1. task[t] \in TaskRow /\ task[t].kind = "load" /\ ~EndsSearching(t)
  BY DEF CatInv, CatTypes, TopAnswered, EndsSearching
<1>2. CASE task[t].gen # gen /\ Ends(t) /\ seq' = seq
  <2>1. ~EndsLoading(t) /\ task' = [task EXCEPT ![t] = NoTask]
    BY <1>1, <1>2 DEF EndsLoading, Ends
  <2> QED BY <1>1, <1>2, <2>1, RowGiven, TaskRows, CatTextNat DEF CatInv, CatTypes, TopAnswered
<1>3. CASE task[t].gen = gen /\ task[t].text = 0 /\ seq' = seq
           /\ task' = [task EXCEPT ![t].at = "list", ![t].filter = filter]
  <2> DEFINE r == [task[t] EXCEPT !.at = "list", !.filter = filter]
  <2>1. r \in TaskRow /\ r.kind = "load" /\ r.gen = gen
    BY <1>1, <1>3, CatTextNat DEF TaskRow
  <2>2. task' = [task EXCEPT ![t] = r]
    BY <1>1, <1>3 DEF TaskRow, CatInv, CatTypes
  <2>3. UNCHANGED <<query, filter, favs, loading, searching, typed, gen, seq>>
    BY <1>3 DEF TopAnswered
  <2>4. query' \in Text \cup {0} /\ typed' \in Text \cup {0}
    BY <2>3 DEF CatInv, CatTypes
  <2>5. filter' \in BOOLEAN /\ favs' \in BOOLEAN /\ loading' \in BOOLEAN /\ searching' \in BOOLEAN
    BY <2>3, CatTextNat
  <2> HIDE DEF r
  <2> QED BY <1>1, <2>1, <2>2, <2>3, <2>4, <2>5, RowGiven
<1>4. CASE task[t].gen = gen /\ task[t].text # 0 /\ seq' = seq + 1
           /\ task' = [task EXCEPT ![t] = Searching(task[t].text, t)]
  <2>1. task[t].text \in Nat
    BY <1>1 DEF TaskRow
  <2> QED BY <1>1, <1>4, <2>1, SearchRow, RowGiven, CatTextNat DEF CatInv, CatTypes, TopAnswered
<1> QED BY <1>2, <1>3, <1>4 DEF TopAnswered

\* What the end of a handler leaves on was not its own.
LEMMA FlagsCat ==
    ASSUME CatInv, NEW t \in Task, Flags(t)
    PROVE  /\ loading' \in BOOLEAN /\ searching' \in BOOLEAN
           /\ loading' => loading /\ ~EndsLoading(t)
           /\ searching' => searching /\ ~EndsSearching(t)
BY CatTextNat DEF Flags, EndsLoading, EndsSearching

LEMMA FinishCat ==
    ASSUME CatInv, NEW t \in Task, Finish(t), filter' \in BOOLEAN, favs' \in BOOLEAN,
           UNCHANGED <<query, typed, gen, seq>>
    PROVE  CatInv'
<1>1. task' = [task EXCEPT ![t] = NoTask] /\ Flags(t)
  BY DEF Finish, Ends
<1> QED BY <1>1, FlagsCat, RowGiven, TaskRows DEF CatInv, CatTypes

LEMMA SearchAnsweredCat == ASSUME CatInv, NEW t \in Task, SearchAnswered(t) PROVE CatInv'
<1>1. CASE Finish(t)
  BY <1>1, FinishCat, CatTextNat DEF SearchAnswered
<1>2. CASE Flags(t) /\ UNCHANGED filter
           /\ task' = [task EXCEPT ![t].kind = "fallback", ![t].at = "plain", ![t].filter = filter]
  <2> DEFINE r == [task[t] EXCEPT !.kind = "fallback", !.at = "plain", !.filter = filter]
  <2>1. task[t] \in TaskRow
    BY DEF CatInv, CatTypes
  <2>2. r \in TaskRow /\ r.kind = "fallback" /\ r.at = "plain"
    BY <2>1, CatTextNat DEF TaskRow
  <2>3. task' = [task EXCEPT ![t] = r]
    BY <1>2, <2>1 DEF TaskRow, CatInv, CatTypes
  <2>4. UNCHANGED <<query, filter, favs, typed, gen, seq>>
    BY <1>2 DEF SearchAnswered
  <2>5. query' \in Text \cup {0} /\ typed' \in Text \cup {0}
    BY <2>4 DEF CatInv, CatTypes
  <2>6. filter' \in BOOLEAN /\ favs' \in BOOLEAN
    BY <2>4, CatTextNat
  <2> HIDE DEF r
  <2> QED BY <1>2, <2>2, <2>3, <2>4, <2>5, <2>6, FlagsCat, RowGiven
<1> QED BY <1>1, <1>2 DEF SearchAnswered

LEMMA AnswersCat == ASSUME CatInv, NEW t \in Task, Answers(t) PROVE CatInv'
<1>1. CASE ListAnswered(t) \/ FilterAnswered(t)
  BY <1>1, FinishCat, CatTextNat DEF ListAnswered, FilterAnswered
<1>2. CASE OwnAnswered(t)
  <2>1. favs' \in BOOLEAN /\ Finish(t) /\ UNCHANGED <<query, filter, typed, gen, seq>>
    BY <1>2, CatTextNat DEF OwnAnswered
  <2> QED BY <2>1, FinishCat, CatTextNat
<1> QED BY <1>1, <1>2, TopAnsweredCat, SearchAnsweredCat DEF Answers

LEMMA CatInvInit == CatalogueInit => CatInv
<1> SUFFICES ASSUME CatalogueInit PROVE CatInv
  OBVIOUS
<1>1. PICK f \in Task :
         task = [t \in Task |-> IF t = f THEN [NoTask EXCEPT !.kind = "load", !.gen = 1]
                                ELSE NoTask]
  BY DEF CatalogueInit
<1>2. task \in [Task -> TaskRow] /\ task[f].kind = "load" /\ task[f].gen = 1
      /\ \A t \in Task : task[t].kind \in {"none", "load"}
  BY <1>1 DEF NoTask, TaskRow
<1> QED BY <1>2 DEF CatInv, CatTypes, Awaits, ProgressIsOwned, EndsLoading, CatalogueInit

LEMMA CatInvStep == CatInv /\ [CatalogueNext]_catVars => CatInv'
<1> SUFFICES ASSUME CatInv, [CatalogueNext]_catVars PROVE CatInv'
  OBVIOUS
<1>1. CASE UNCHANGED catVars
  BY <1>1 DEF catVars, CatInv, CatTypes, Awaits, ProgressIsOwned, EndsLoading, EndsSearching
<1>2. ASSUME NEW x \in Text, Type(x) PROVE CatInv'
  BY <1>2, TypeCat
<1>3. ASSUME NEW t \in Task,
             \/ Empty(t) \/ Refresh(t) \/ ShowFavorites(t) \/ LoadMine(t)
             \/ \E on \in BOOLEAN : SetFilter(t, on)
             \/ Debounce(t) \/ Answers(t)
      PROVE  CatInv'
  BY <1>3, ReloadCat, ShowFavoritesCat, LoadMineCat, SetFilterCat, DebounceCat, AnswersCat
<1> QED BY <1>1, <1>2, <1>3 DEF CatalogueNext

\* However searches, loads, filters and favourites overtake each other: a progress
\* bar that shows has a call on its way whose answer takes it off, or the timer that
\* makes one (_load, _runSmartSearch, the filter and favourites handlers of
\* products_screen.dart).  It is what ProgressEnds needs beside fairness.
THEOREM ProgressHasItsCall == CatalogueSpec => []ProgressIsOwned
<1>1. CatInv => ProgressIsOwned
  BY DEF CatInv
<1> QED BY <1>1, CatInvInit, CatInvStep, PTL DEF CatalogueSpec
=============================================================================
