------------------------------ MODULE ChatSend ------------------------------
(***************************************************************************)
(* Sending chat messages: the composer and the offline outbox of the       *)
(* mobile app (chat_screen.dart, offline_outbox_service.dart,              *)
(* offline_chat_store.dart) against POST /chats/{id}/messages of the       *)
(* backend (services/messages.py, create_message).                         *)
(*                                                                         *)
(* A message is named by its client_message_id.  The composer calls the    *)
(* backend at once; when the call fails for a reason that may pass, the    *)
(* message goes to the outbox on disk, which a flush sends one by one.     *)
(* A call that times out in the app still runs in the backend, so several  *)
(* requests for one message can be handled at the same time.  Between the  *)
(* lookup of a duplicate, the insert and the commit of a request others    *)
(* interleave; the unique key (chat_id, client_message_id) makes a second  *)
(* insert wait for the first to commit or roll back.                       *)
(*                                                                         *)
(* One chat and text messages only: media adds an upload before the call.  *)
(***************************************************************************)
EXTENDS Naturals, Sequences

CONSTANTS
    Message,        \* client message ids
    Request,        \* requests in flight or being handled (reused)
    MaxOutbox,      \* _maxOutbox, 300 in the app
    MaxRollback,    \* bound: rolled-back inserts per message
    MaxKill         \* bound: how often the app is killed

None == "none"

ASSUME NoneAssumption == None \notin Message \cup Request
ASSUME BoundAssumption == MaxOutbox \in Nat /\ MaxRollback \in Nat /\ MaxKill \in Nat

VARIABLES
    stored,         \* committed rows of the messages table, per message
    burnt,          \* inserts that were rolled back, per message
    request,        \* what the backend or the wire does with each request
    call,           \* the request each message's composer call waits for
    outbox,         \* the queue on disk
    pass,           \* the flush: idle, probing the network, or sending
    queued,         \* a flush was asked for while one was running
    batch,          \* what is left of the queue as the pass read it
    flight,         \* the request the flush waits for
    written,        \* messages the user sent off
    told,           \* messages the user was told had failed
    discarded,      \* messages the user deleted while they were pending
    interrupted,    \* messages whose composer call ended with the app
    kills

server == <<stored, burnt>>
flushing == <<pass, queued, batch, flight>>
vars == <<stored, burnt, request, call, outbox, pass, queued, batch, flight,
          written, told, discarded, interrupted, kills>>

Free == [step |-> "free", msg |-> None]
Handling == {"sent", "looked", "inserted"}
Answered == {"ok", "refused", "failed"}

Queued == {outbox[i] : i \in DOMAIN outbox}

Init ==
    /\ stored = [m \in Message |-> 0]
    /\ burnt = [m \in Message |-> 0]
    /\ request = [r \in Request |-> Free]
    /\ call = [m \in Message |-> None]
    /\ outbox = <<>>
    /\ pass = "idle" /\ queued = FALSE /\ batch = <<>> /\ flight = None
    /\ written = {} /\ told = {} /\ discarded = {} /\ interrupted = {}
    /\ kills = 0

(***************************************************************************)
(* The backend: create_message and the commit in send_message              *)
(***************************************************************************)

Waiting(r) == flight = r \/ \E m \in Message : call[m] = r

\* The request is over; its answer travels if the app still waits for it.
Answer(r, a) ==
    request' = [request EXCEPT ![r] =
                   IF Waiting(r) THEN [@ EXCEPT !.step = a] ELSE Free]

Advance(r, s) == request' = [request EXCEPT ![r].step = s]

\* The request is lost, or fails with an error worth a retry, before its insert.
Fail(r) ==
    /\ request[r].step \in {"sent", "looked"}
    /\ Answer(r, "failed")
    /\ UNCHANGED server

\* A check before the lookup refuses it: blocked, not a member, moderation.
Refuse(r) ==
    /\ request[r].step = "sent"
    /\ Answer(r, "refused")
    /\ UNCHANGED server

\* The lookup of a row with this client_message_id, answered at once if found.
Look(r) ==
    /\ request[r].step = "sent"
    /\ IF stored[request[r].msg] > 0 THEN Answer(r, "ok") ELSE Advance(r, "looked")
    /\ UNCHANGED server

\* Mutated form: client_message_id is not unique.
AnyInsert(m) == TRUE

\* The unique key lets an insert through: no row is there or being inserted.
KeyFree(m) ==
    /\ stored[m] = 0
    /\ \A r \in Request : request[r] # [step |-> "inserted", msg |-> m]

\* The insert is flushed and new_message published; nothing is committed yet.
Insert(r) ==
    /\ request[r].step = "looked"
    /\ KeyFree(request[r].msg)
    /\ Advance(r, "inserted")
    /\ UNCHANGED server

\* IntegrityError: roll back and answer with the row that won (the reload of
\* the expired user may fail and give a 500 instead).
Conflict(r) ==
    /\ request[r].step = "looked"
    /\ stored[request[r].msg] > 0
    /\ \E a \in {"ok", "failed"} : Answer(r, a)
    /\ UNCHANGED server

Commit(r) ==
    /\ request[r].step = "inserted"
    /\ stored' = [stored EXCEPT ![request[r].msg] = @ + 1]
    /\ Answer(r, "ok")
    /\ UNCHANGED burnt

\* The handler fails after its insert, or the server stops.
Rollback(r) ==
    /\ request[r].step = "inserted"
    /\ burnt[request[r].msg] < MaxRollback
    /\ burnt' = [burnt EXCEPT ![request[r].msg] = @ + 1]
    /\ Answer(r, "failed")
    /\ UNCHANGED stored

Serve(r) ==
    /\ \/ Fail(r) \/ Refuse(r) \/ Look(r) \/ Insert(r)
       \/ Conflict(r) \/ Commit(r) \/ Rollback(r)
    /\ UNCHANGED <<call, outbox, flushing, written, told, discarded,
                   interrupted, kills>>

(***************************************************************************)
(* The outbox on disk (every write is serialized)                          *)
(***************************************************************************)

\* The queue without m.
Without(s, m) ==
    IF \E i \in DOMAIN s : s[i] = m
    THEN LET at == CHOOSE i \in DOMAIN s : s[i] = m
         IN  [i \in 1 .. Len(s) - 1 |-> IF i < at THEN s[i] ELSE s[i + 1]]
    ELSE s

\* tryEnqueueOutbox: m goes in, or the user is told that the outbox is full.  The
\* queue is sorted by created_at, which is the time of the enqueueing: m is last.
Enqueue(m) ==
    IF m \in Queued \/ Len(outbox) < MaxOutbox
    THEN outbox' = Append(Without(outbox, m), m) /\ UNCHANGED told
    ELSE told' = told \cup {m} /\ UNCHANGED outbox

(***************************************************************************)
(* The composer                                                            *)
(***************************************************************************)

SendTo(r, m) ==
    /\ request[r] = Free
    /\ request' = [request EXCEPT ![r] = [step |-> "sent", msg |-> m]]

\* The app stops waiting for r; an answer on its way is lost.
Release(r) ==
    request' = [request EXCEPT ![r] = IF @.step \in Answered THEN Free ELSE @]

\* _sendPlainText while online.
Write(m) ==
    /\ m \notin written
    /\ written' = written \cup {m}
    /\ \E r \in Request : SendTo(r, m) /\ call' = [call EXCEPT ![m] = r]
    /\ UNCHANGED <<server, outbox, flushing, told, discarded, interrupted, kills>>

\* _sendPlainText while offline.
WriteOffline(m) ==
    /\ m \notin written
    /\ written' = written \cup {m}
    /\ Enqueue(m)
    /\ UNCHANGED <<server, request, call, flushing, discarded, interrupted, kills>>

\* The composer's call for m ends.
CallOver(m) ==
    /\ call[m] # None
    /\ call' = [call EXCEPT ![m] = None]
    /\ Release(call[m])
    /\ UNCHANGED <<server, flushing, written, discarded, interrupted, kills>>

ComposerOk(m) ==
    /\ CallOver(m)
    /\ request[call[m]].step = "ok"
    /\ outbox' = Without(outbox, m)
    /\ UNCHANGED told

\* The text returns to the input field, with an error.
ComposerRefused(m) ==
    /\ CallOver(m)
    /\ request[call[m]].step = "refused"
    /\ told' = told \cup {m}
    /\ UNCHANGED outbox

\* _markPendingKeep: a timeout, a lost answer or a server error.
ComposerFails(m) ==
    /\ CallOver(m)
    /\ Enqueue(m)

\* The user deletes a pending message.  What is under way for it goes on.
Discard(m) ==
    /\ m \in Queued \/ call[m] # None
    /\ outbox' = Without(outbox, m)
    /\ discarded' = discarded \cup {m}
    /\ UNCHANGED <<server, request, call, flushing, written, told, interrupted, kills>>

(***************************************************************************)
(* The flush                                                               *)
(***************************************************************************)

\* flush(): the network came back, a chat was opened, the app was resumed, or a
\* send failed 400 ms ago.  A running flush is asked for another pass.
Trigger ==
    /\ IF pass = "idle" THEN pass' = "probing" /\ queued' = FALSE
       ELSE queued' = TRUE /\ UNCHANGED pass
    /\ UNCHANGED <<server, request, call, outbox, batch, flight, written, told,
                   discarded, interrupted, kills>>

\* Mutated form: `queued` is reset after a pass, not before it.
NextPassLate == pass' = "idle" /\ queued' = FALSE

\* The end of _flushOnce: do { ... } while (_queued).
NextPass ==
    IF queued THEN pass' = "probing" /\ queued' = FALSE
    ELSE pass' = "idle" /\ UNCHANGED queued

\* The network is there: read the queue.
ProbeOk ==
    /\ pass = "probing"
    /\ pass' = "sending"
    /\ batch' = outbox
    /\ UNCHANGED <<server, request, call, outbox, queued, flight, written, told,
                   discarded, interrupted, kills>>

ProbeFails ==
    /\ pass = "probing"
    /\ NextPass
    /\ UNCHANGED <<server, request, call, outbox, batch, flight, written, told,
                   discarded, interrupted, kills>>

PassOver ==
    /\ pass = "sending" /\ batch = <<>>
    /\ NextPass
    /\ UNCHANGED <<server, request, call, outbox, batch, flight, written, told,
                   discarded, interrupted, kills>>

FlushSend ==
    /\ pass = "sending" /\ batch # <<>> /\ flight = None
    /\ \E r \in Request : SendTo(r, Head(batch)) /\ flight' = r
    /\ UNCHANGED <<server, call, outbox, pass, queued, batch, written, told,
                   discarded, interrupted, kills>>

\* The answer to the message at the head of the batch takes it off the queue.
FlushHears(a) ==
    /\ flight # None /\ request[flight].step = a
    /\ Release(flight)
    /\ flight' = None
    /\ batch' = Tail(batch)
    /\ outbox' = Without(outbox, Head(batch))
    /\ UNCHANGED <<server, call, pass, queued, written, discarded, interrupted, kills>>

FlushOk == FlushHears("ok") /\ UNCHANGED told
FlushRefused == FlushHears("refused") /\ told' = told \cup {Head(batch)}

\* Mutated forms: go on with the rest of the batch; drop the message.
FlushSkips ==
    /\ flight # None
    /\ Release(flight)
    /\ flight' = None
    /\ batch' = Tail(batch)
    /\ UNCHANGED <<server, call, outbox, pass, queued, written, told, discarded,
                   interrupted, kills>>
FlushDrops ==
    /\ flight # None
    /\ Release(flight)
    /\ flight' = None
    /\ batch' = Tail(batch)
    /\ outbox' = Without(outbox, Head(batch))
    /\ UNCHANGED <<server, call, pass, queued, written, told, discarded,
                   interrupted, kills>>

\* A network failure breaks off the pass; the message stays queued.
FlushFails ==
    /\ flight # None
    /\ Release(flight)
    /\ flight' = None
    /\ batch' = <<>>
    /\ NextPass
    /\ UNCHANGED <<server, call, outbox, written, told, discarded, interrupted, kills>>

\* The app is killed: what is on disk stays, the rest is gone.
Kill ==
    /\ kills < MaxKill
    /\ kills' = kills + 1
    /\ interrupted' = interrupted \cup {m \in Message : call[m] # None}
    /\ call' = [m \in Message |-> None]
    /\ request' = [r \in Request |->
                      IF request[r].step \in Answered THEN Free ELSE request[r]]
    /\ pass' = "idle" /\ queued' = FALSE /\ batch' = <<>> /\ flight' = None
    /\ UNCHANGED <<server, outbox, written, told, discarded>>

(***************************************************************************)
(* Specification                                                           *)
(***************************************************************************)

Compose(m) ==
    \/ Write(m) \/ WriteOffline(m)
    \/ ComposerOk(m) \/ ComposerRefused(m) \/ ComposerFails(m)
    \/ Discard(m)

Flush ==
    \/ ProbeOk \/ ProbeFails \/ PassOver
    \/ FlushSend \/ FlushOk \/ FlushRefused \/ FlushFails

Next ==
    \/ \E r \in Request : Serve(r)
    \/ \E m \in Message : Compose(m)
    \/ Trigger \/ Flush \/ Kill

Spec == Init /\ [][Next]_vars

\* The flush runs, the backend handles what reaches it, and a composer call ends
\* at the latest with its receive timeout.
Fairness ==
    /\ WF_vars(Flush)
    /\ \A r \in Request : WF_vars(Serve(r))
    /\ \A m \in Message : WF_vars(ComposerFails(m))

FairSpec == Spec /\ Fairness

(***************************************************************************)
(* Properties                                                              *)
(***************************************************************************)

\* Type correctness of the table, the requests and the device.
TypeOK ==
    /\ stored \in [Message -> Nat]
    /\ burnt \in [Message -> 0 .. MaxRollback]
    /\ request \in [Request -> {Free} \cup [step : Handling \cup Answered, msg : Message]]
    /\ call \in [Message -> Request \cup {None}]
    /\ outbox \in Seq(Message)
    /\ pass \in {"idle", "probing", "sending"}
    /\ queued \in BOOLEAN
    /\ batch \in Seq(Message)
    /\ flight \in Request \cup {None}
    /\ flight # None => pass = "sending" /\ batch # <<>>
    /\ written \subseteq Message
    /\ told \subseteq Message
    /\ discarded \subseteq Message
    /\ interrupted \subseteq Message
    /\ kills \in 0 .. MaxKill

\* However often a message is sent again, by the composer, by flushes and by the
\* same app restarted, the chat holds it at most once.
SentOnce == \A m \in Message : stored[m] <= 1

\* A message the user sent off is in the chat, still queued or under way, or
\* the user knows: no message disappears between the composer, the outbox and
\* the backend.  Only a composer call cut off by the end of the app is unsure.
NothingLost ==
    \A m \in written :
        \/ stored[m] > 0
        \/ m \in Queued
        \/ call[m] # None
        \/ m \in told \cup discarded \cup interrupted

\* A message leaves the outbox on disk only when the chat holds it, when the
\* user was told it failed, or when the user deleted it.
KeptUntilSent ==
    [][\A m \in Queued \ Queued' :
          stored[m] > 0 \/ m \in told' \/ m \in discarded']_vars

\* The promise that sending a message keeps: what a composer call is busy with is in
\* hand, and the outbox is the shelf.
Promise == INSTANCE Delivery WITH
    given <- written,
    hand <- {m \in Message : call[m] # None},
    shelf <- Queued,
    copies <- stored,
    known <- told \cup discarded,
    cut <- interrupted

\* Composer, outbox, flush and backend together keep the promise, step by step.
ImplementsDelivery == Promise!Spec

\* The flush does not overtake: while it sends a queued message, no message
\* queued earlier is waiting.
OldestFirst ==
    batch # <<>> /\ Head(batch) \in Queued => Head(outbox) = Head(batch)

\* A flush asked for while one is running is not forgotten: another pass starts
\* after it, unless the app is killed first.
TriggerHonoured ==
    \A k \in 0 .. MaxKill :
        (queued /\ kills = k) ~> ((pass = "probing" /\ ~queued) \/ kills # k)

=============================================================================
