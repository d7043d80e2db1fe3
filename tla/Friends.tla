-------------------------------- MODULE Friends --------------------------------
(***************************************************************************)
(* The friendship of two users (services/friends.py): the one row of the   *)
(* pair in the table friendships, and the requests that send, accept,      *)
(* decline, cancel and remove.  A request loads the row and checks it,     *)
(* then writes the columns that differ from what it loaded; nothing is     *)
(* locked, an update of a deleted row raises, and the pair is unique.      *)
(***************************************************************************)
EXTENDS Naturals, FiniteSets

CONSTANTS Friend,       \* the two users
          FriendReq,    \* requests open at the same time
          DailyLimit,   \* DAILY_REQUEST_LIMIT
          NoFriend

ASSUME FriendAssumption ==
    /\ \E u, v \in Friend : u # v /\ Friend = {u, v}
    /\ NoFriend \notin Friend
    /\ DailyLimit \in Nat

VARIABLES
    pair,     \* the row: status, requester, when last declined
    sent,     \* friend:requests:daily of each user (Redis)
    fReq,     \* open requests
    patient,  \* does each user wait for an answer before the next request
    agreed    \* users who asked for or accepted the friendship and did not decline since

friendVars == <<pair, sent, fReq, patient, agreed>>

NoPair == [status |-> "none", from |-> NoFriend, declined |-> "never"]
NoFriendReq == [op |-> "none", by |-> NoFriend, row |-> NoPair, gone |-> FALSE]

FriendInit ==
    /\ pair = NoPair
    /\ sent = [u \in Friend |-> 0]
    /\ fReq = [q \in FriendReq |-> NoFriendReq]
    /\ patient \in BOOLEAN
    /\ agreed = {}

FriendLoad(q, op, u) ==
    /\ fReq[q].op = "none"
    /\ patient => \A r \in FriendReq : fReq[r].by # u
    /\ fReq' = [fReq EXCEPT ![q] = [op |-> op, by |-> u, row |-> pair, gone |-> FALSE]]

(***************************************************************************)
(* Loading and checking                                                    *)
(***************************************************************************)

\* send_friend_request to somebody whose request waits: an acceptance.
SendBack(q, u) ==
    /\ pair.status = "pending" /\ pair.from # u
    /\ FriendLoad(q, "accept", u)
    /\ UNCHANGED <<pair, sent, patient, agreed>>

\* Mutated form: the requests of a day are counted but not limited.
SendLoadUnlimited(q, u) ==
    /\ pair.status \in {"none", "declined"}
    /\ pair.declined # "recently"
    /\ sent' = [sent EXCEPT ![u] = @ + 1]
    /\ FriendLoad(q, "send", u)
    /\ UNCHANGED <<pair, patient, agreed>>

\* send_friend_request anew: neither pending nor accepted, the cooldown after a
\* decline is over, and the count in Redis, which no rollback takes back, below
\* the daily limit.
SendLoad(q, u) ==
    /\ pair.status \in {"none", "declined"}
    /\ pair.declined # "recently"
    /\ sent[u] < DailyLimit
    /\ sent' = [sent EXCEPT ![u] = @ + 1]
    /\ FriendLoad(q, "send", u)
    /\ UNCHANGED <<pair, patient, agreed>>

\* Mutated form: the sender may answer the request too.
AnswerLoadByAnyone(q, op, u) ==
    /\ pair.status = "pending"
    /\ FriendLoad(q, op, u)
    /\ UNCHANGED <<pair, sent, patient, agreed>>

\* accept_friend_request and decline_friend_request: not by the sender.
AnswerLoad(q, op, u) ==
    /\ pair.status = "pending" /\ pair.from # u
    /\ FriendLoad(q, op, u)
    /\ UNCHANGED <<pair, sent, patient, agreed>>

\* cancel_friend_request: only by the sender.
CancelLoad(q, u) ==
    /\ pair.status = "pending" /\ pair.from = u
    /\ FriendLoad(q, "cancel", u)
    /\ UNCHANGED <<pair, sent, patient, agreed>>

RemoveFriendLoad(q, u) ==
    /\ pair.status = "accepted"
    /\ FriendLoad(q, "unfriend", u)
    /\ UNCHANGED <<pair, sent, patient, agreed>>

(***************************************************************************)
(* Writing                                                                 *)
(***************************************************************************)

Answered(q) == fReq' = [fReq EXCEPT ![q] = NoFriendReq]

\* Rolled back, for any reason.
FriendFails(q) ==
    /\ fReq[q].op # "none"
    /\ Answered(q)
    /\ UNCHANGED <<pair, sent, patient, agreed>>

\* The columns of `new` that differ from what was loaded.
Updated(old, new) ==
    [status   |-> IF new.status = old.status THEN pair.status ELSE new.status,
     from     |-> IF new.from = old.from THEN pair.from ELSE new.from,
     declined |-> IF new.declined = old.declined THEN pair.declined ELSE new.declined]

SendCommits(q) ==
    LET r == fReq[q] IN
    /\ r.op = "send"
    /\ ~r.gone
    /\ r.row.status = "none" => pair.status = "none"
    /\ pair' = Updated(r.row, [r.row EXCEPT !.status = "pending", !.from = r.by])
    /\ agreed' = agreed \cup {r.by}
    /\ Answered(q)
    /\ UNCHANGED <<sent, patient>>

AcceptCommits(q) ==
    LET r == fReq[q] IN
    /\ r.op = "accept"
    /\ ~r.gone
    /\ pair' = Updated(r.row, [r.row EXCEPT !.status = "accepted"])
    /\ agreed' = agreed \cup {r.by}
    /\ Answered(q)
    /\ UNCHANGED <<sent, patient>>

\* The time of the decline is written even when there was one before.
DeclineCommits(q) ==
    LET r == fReq[q] IN
    /\ r.op = "decline"
    /\ ~r.gone
    /\ pair' = [pair EXCEPT !.status = "declined", !.declined = "recently"]
    /\ agreed' = agreed \ {r.by}
    /\ Answered(q)
    /\ UNCHANGED <<sent, patient>>

\* A cancelled request starts the cooldown only if there never was one.
CancelCommits(q) ==
    LET r == fReq[q] IN
    /\ r.op = "cancel"
    /\ ~r.gone
    /\ pair' = Updated(r.row, [r.row EXCEPT
                   !.status = "declined",
                   !.declined = IF @ = "never" THEN "recently" ELSE @])
    /\ Answered(q)
    /\ UNCHANGED <<sent, patient, agreed>>

\* remove_friend deletes the row, and what it knew of declines with it.  Who
\* loaded it cannot update it any more; deleting it again only warns.
RemoveFriend(q) ==
    LET r == fReq[q] IN
    /\ r.op = "unfriend"
    /\ IF r.gone THEN Answered(q) /\ UNCHANGED <<pair, agreed>>
       ELSE /\ pair' = NoPair
            /\ agreed' = {}
            /\ fReq' = [s \in FriendReq |->
                           IF s = q THEN NoFriendReq
                           ELSE [fReq[s] EXCEPT !.gone = @ \/ fReq[s].row.status # "none"]]
    /\ UNCHANGED <<sent, patient>>

\* The cooldown of 48 hours (30 days after three declines) is over; requests
\* take seconds.
FriendCooldownEnds ==
    /\ pair.declined = "recently"
    /\ \A q \in FriendReq : fReq[q].op = "none"
    /\ pair' = [pair EXCEPT !.declined = "before"]
    /\ UNCHANGED <<sent, fReq, patient, agreed>>

\* The next day counts anew.
NextDay ==
    /\ \E u \in Friend : sent[u] > 0
    /\ sent' = [u \in Friend |-> 0]
    /\ UNCHANGED <<pair, fReq, patient, agreed>>

FriendNext ==
    \/ \E q \in FriendReq, u \in Friend : SendBack(q, u)
    \/ \E q \in FriendReq, u \in Friend : SendLoad(q, u)
    \/ \E q \in FriendReq, u \in Friend, op \in {"accept", "decline"} : AnswerLoad(q, op, u)
    \/ \E q \in FriendReq, u \in Friend : CancelLoad(q, u)
    \/ \E q \in FriendReq, u \in Friend : RemoveFriendLoad(q, u)
    \/ \E q \in FriendReq : FriendFails(q)
    \/ \E q \in FriendReq : SendCommits(q)
    \/ \E q \in FriendReq : AcceptCommits(q)
    \/ \E q \in FriendReq : DeclineCommits(q)
    \/ \E q \in FriendReq : CancelCommits(q)
    \/ \E q \in FriendReq : RemoveFriend(q)
    \/ FriendCooldownEnds
    \/ NextDay

FriendSpec == FriendInit /\ [][FriendNext]_friendVars

(***************************************************************************)
(* Properties                                                              *)
(***************************************************************************)

FriendTypeOK ==
    /\ pair \in [status : {"none", "pending", "accepted", "declined"},
                 from : Friend \cup {NoFriend},
                 declined : {"never", "recently", "before"}]
    /\ sent \in [Friend -> 0..DailyLimit]
    /\ agreed \subseteq Friend
    /\ \A q \in FriendReq : fReq[q].op \in {"none", "send", "accept", "decline", "cancel", "unfriend"}

\* Two users who wait for their answers are friends only when both asked for it
\* or accepted it, since the row exists and since they last declined: requests
\* that cross each other, and answers to a row that is gone, befriend nobody.
FriendsConsented ==
    patient /\ pair.status = "accepted" => agreed = Friend
================================================================================
