------------------------------ MODULE MarketProofs ------------------------------
(***************************************************************************)
(* Theorems of Friends: for any number of requests open at the same time   *)
(* and any daily limit, the row and the counters keep their types, and     *)
(* nobody is befriended without a consent of theirs.  And of Listings: for *)
(* any number of listings, payments and TOP slots, what a listing holds,   *)
(* who may publish it, and that a paid week is neither lost nor overtaken. *)
(* And of Connection: for any number of accounts and connections, a phone  *)
(* that is signed in is never left without somebody to open its socket.    *)
(***************************************************************************)
EXTENDS Friends, Listings, Connection, FiniteSetTheorems, SequenceTheorems, WellFoundedInduction, TLAPS

Pair == [status : {"none", "pending", "accepted", "declined"},
         from : Friend \cup {NoFriend},
         declined : {"never", "recently", "before"}]

Request == [op : {"none", "send", "accept", "decline", "cancel", "unfriend"},
            by : Friend \cup {NoFriend}, row : Pair, gone : BOOLEAN]

(***************************************************************************)
(* The inductive invariant                                                 *)
(***************************************************************************)

\* The table of requests: an open one is a user's.
RequestsTyped ==
    /\ fReq \in [FriendReq -> Request]
    /\ \A q \in FriendReq : fReq[q].op # "none" => fReq[q].by \in Friend

\* The row, the open requests and the rows they loaded.
Typed ==
    /\ pair \in Pair
    /\ sent \in [Friend -> 0..DailyLimit]
    /\ agreed \subseteq Friend
    /\ RequestsTyped

\* A row that is not there is NoPair; one that is there names its sender.
RowShape ==
    /\ pair.status = "none" => pair = NoPair
    /\ pair.status # "none" => pair.from \in Friend

\* What an open request loaded: only a send finds no row, and a row that was
\* there is there until it is deleted.
Loaded ==
    \A q \in FriendReq : fReq[q].op # "none" =>
        /\ fReq[q].op # "send" => fReq[q].row.status # "none"
        /\ fReq[q].op = "send" => fReq[q].row.status \in {"none", "declined"}
        /\ fReq[q].row.status = "none" => fReq[q].row = NoPair
        /\ fReq[q].row.status # "none" /\ ~fReq[q].gone => pair.status # "none"

\* Each user has at most one request open.
Serial ==
    \A q, r \in FriendReq : fReq[q].op # "none" /\ fReq[q].by = fReq[r].by => q = r

\* An answer under way is to a request of the other user, who is still named as
\* its sender: only the answering user could have sent another one meanwhile.
AnswersHold ==
    \A q \in FriendReq :
        fReq[q].op \in {"accept", "decline"} /\ ~fReq[q].gone =>
            /\ fReq[q].row.status = "pending"
            /\ fReq[q].row.from \in Friend \ {fReq[q].by}
            /\ pair.from = fReq[q].row.from
            /\ fReq[q].op = "accept" => pair.from \in agreed

\* A request being sent again by its former sender may find the other's, sent
\* meanwhile.
SendsHold ==
    \A q \in FriendReq :
        fReq[q].op = "send" /\ ~fReq[q].gone /\ fReq[q].row.from = fReq[q].by =>
            pair.from \in agreed \cup {fReq[q].by}

\* What the row says was agreed to.
Consent ==
    /\ pair.status = "pending" => pair.from \in agreed
    /\ pair.status = "accepted" => agreed = Friend

Agreement == patient => Serial /\ AnswersHold /\ SendsHold /\ Consent

FInv == Typed /\ RowShape /\ Loaded /\ Agreement

(***************************************************************************)
(* Types                                                                   *)
(***************************************************************************)

\* Loading a request, and ending one, keep the table of requests well typed.
LEMMA RequestTyped ==
    ASSUME Typed, NEW q \in FriendReq
    PROVE  /\ \A u \in Friend, op \in {"send", "accept", "decline", "cancel", "unfriend"} :
                 FriendLoad(q, op, u) => RequestsTyped'
           /\ Answered(q) => RequestsTyped'
           /\ fReq[q].row \in Pair
           /\ fReq[q].op # "none" => fReq[q].by \in Friend
<1> USE DEF RequestsTyped
<1>1. ASSUME NEW u \in Friend,
             NEW op \in {"send", "accept", "decline", "cancel", "unfriend"}, FriendLoad(q, op, u)
      PROVE  RequestsTyped'
  <2>1. [op |-> op, by |-> u, row |-> pair, gone |-> FALSE] \in Request
    BY DEF Request, Typed
  <2> QED BY <1>1, <2>1 DEF FriendLoad, Typed
<1>2. NoFriendReq \in Request /\ NoFriendReq.op = "none"
  BY DEF NoFriendReq, NoPair, Request, Pair
<1>3. Answered(q) => RequestsTyped'
  BY <1>2 DEF Answered, Typed
<1>4. fReq[q].row \in Pair /\ (fReq[q].op # "none" => fReq[q].by \in Friend)
  BY DEF Typed, Request
<1> QED BY <1>1, <1>3, <1>4

\* Merging the columns a request changed into the row gives a row.
LEMMA UpdatedTyped ==
    ASSUME pair \in Pair, NEW old \in Pair, NEW new \in Pair
    PROVE  Updated(old, new) \in Pair
  BY DEF Updated, Pair

\* The first request of a day counts from zero, and none exceeds the limit.
LEMMA SentTyped ==
    ASSUME Typed, NEW q \in FriendReq, NEW u \in Friend, SendLoad(q, u)
    PROVE  sent' \in [Friend -> 0..DailyLimit]
<1>1. sent[u] \in 0..DailyLimit /\ sent[u] < DailyLimit
  BY DEF SendLoad, Typed
<1>2. sent[u] + 1 \in 0..DailyLimit
  BY <1>1, FriendAssumption
<1> QED BY <1>2 DEF SendLoad, Typed

LEMMA TypedInit == FriendInit => Typed
<1>1. NoPair \in Pair /\ NoFriendReq \in Request /\ NoFriendReq.op = "none"
  BY DEF NoFriendReq, NoPair, Request, Pair
<1>2. 0 \in 0..DailyLimit
  BY FriendAssumption
<1> QED BY <1>1, <1>2 DEF FriendInit, Typed, RequestsTyped

LEMMA TypedNext == Typed /\ [FriendNext]_friendVars => Typed'
<1> SUFFICES ASSUME Typed, [FriendNext]_friendVars PROVE Typed'
  OBVIOUS
<1>1. ASSUME NEW q \in FriendReq, NEW u \in Friend,
             \/ SendBack(q, u) \/ CancelLoad(q, u) \/ RemoveFriendLoad(q, u)
             \/ \E op \in {"accept", "decline"} : AnswerLoad(q, op, u)
      PROVE  Typed'
  BY <1>1, RequestTyped DEF SendBack, CancelLoad, RemoveFriendLoad, AnswerLoad, Typed
<1>2. ASSUME NEW q \in FriendReq, NEW u \in Friend, SendLoad(q, u) PROVE Typed'
  BY <1>2, RequestTyped, SentTyped DEF SendLoad, Typed
<1>3. ASSUME NEW q \in FriendReq, FriendFails(q) PROVE Typed'
  BY <1>3, RequestTyped DEF FriendFails, Typed
<1>4. ASSUME NEW q \in FriendReq, SendCommits(q) PROVE Typed'
  <2> DEFINE new == [fReq[q].row EXCEPT !.status = "pending", !.from = fReq[q].by]
  <2>1. new \in Pair
    BY <1>4, RequestTyped DEF SendCommits, Pair
  <2>2. pair' = Updated(fReq[q].row, new)
    BY <1>4 DEF SendCommits
  <2> HIDE DEF new
  <2>3. pair' \in Pair
    BY <2>1, <2>2, RequestTyped, UpdatedTyped DEF Typed
  <2> QED BY <1>4, <2>3, RequestTyped DEF SendCommits, Typed
<1>5. ASSUME NEW q \in FriendReq, AcceptCommits(q) PROVE Typed'
  <2> DEFINE new == [fReq[q].row EXCEPT !.status = "accepted"]
  <2>1. new \in Pair
    BY <1>5, RequestTyped DEF Pair
  <2>2. pair' = Updated(fReq[q].row, new)
    BY <1>5 DEF AcceptCommits
  <2> HIDE DEF new
  <2>3. pair' \in Pair
    BY <2>1, <2>2, RequestTyped, UpdatedTyped DEF Typed
  <2> QED BY <1>5, <2>3, RequestTyped DEF AcceptCommits, Typed
<1>6. ASSUME NEW q \in FriendReq, DeclineCommits(q) PROVE Typed'
  <2>1. pair' \in Pair
    BY <1>6 DEF DeclineCommits, Typed, Pair
  <2> QED BY <1>6, <2>1, RequestTyped DEF DeclineCommits, Typed
<1>7. ASSUME NEW q \in FriendReq, CancelCommits(q) PROVE Typed'
  <2> DEFINE old == fReq[q].row
             new == [old EXCEPT !.status = "declined",
                                !.declined = IF @ = "never" THEN "recently" ELSE @]
  <2>1. new \in Pair
    BY <1>7, RequestTyped DEF Pair
  <2>2. pair' = Updated(old, new)
    BY <1>7 DEF CancelCommits
  <2> HIDE DEF new
  <2>3. pair' \in Pair
    BY <2>1, <2>2, RequestTyped, UpdatedTyped DEF Typed
  <2> QED BY <1>7, <2>3, RequestTyped DEF CancelCommits, Typed
<1>8. ASSUME NEW q \in FriendReq, RemoveFriend(q) PROVE Typed'
  <2>1. CASE fReq[q].gone
    BY <1>8, <2>1, RequestTyped DEF RemoveFriend, Typed
  <2>2. CASE ~fReq[q].gone
    <3>1. /\ pair' = NoPair /\ agreed' = {} /\ UNCHANGED sent
          /\ fReq' = [s \in FriendReq |->
                         IF s = q THEN NoFriendReq
                         ELSE [fReq[s] EXCEPT !.gone = @ \/ fReq[s].row.status # "none"]]
      BY <1>8, <2>2 DEF RemoveFriend
    <3>2. \A r \in FriendReq :
             LET new == [fReq[r] EXCEPT !.gone = @ \/ fReq[r].row.status # "none"]
             IN  new \in Request /\ new.op = fReq[r].op /\ new.by = fReq[r].by
      BY DEF Typed, RequestsTyped, Request
    <3>3. NoFriendReq \in Request /\ NoPair \in Pair
      BY DEF NoFriendReq, NoPair, Request, Pair
    <3>4. RequestsTyped'
      BY <3>1, <3>2, <3>3 DEF Typed, RequestsTyped, NoFriendReq
    <3> QED BY <3>1, <3>3, <3>4 DEF Typed
  <2> QED BY <2>1, <2>2
<1>9. ASSUME FriendCooldownEnds PROVE Typed'
  <2>1. pair' \in Pair
    BY <1>9 DEF FriendCooldownEnds, Typed, Pair
  <2> QED BY <1>9, <2>1 DEF FriendCooldownEnds, Typed, RequestsTyped
<1>10. ASSUME NextDay PROVE Typed'
  BY <1>10, FriendAssumption DEF NextDay, Typed, RequestsTyped
<1>11. CASE UNCHANGED friendVars
  BY <1>11 DEF friendVars, Typed, RequestsTyped
<1> QED
  BY <1>1, <1>2, <1>3, <1>4, <1>5, <1>6, <1>7, <1>8, <1>9, <1>10, <1>11 DEF FriendNext

\* The row of the pair, the day's counters and the open requests keep their types
\* (FriendTypeOK): no merge of columns leaves a row the code does not know, and no
\* user sends more than the daily limit.
THEOREM FriendsTypeCorrect == FriendSpec => []FriendTypeOK
<1>1. Typed => FriendTypeOK
  BY DEF Typed, RequestsTyped, FriendTypeOK, Pair, Request
<1> QED BY <1>1, TypedInit, TypedNext, PTL DEF FriendSpec

(***************************************************************************)
(* Consent                                                                 *)
(***************************************************************************)

\* What a request that has just been loaded, or has ended, leaves of the others.
LEMMA LoadMoves ==
    ASSUME Typed, NEW q \in FriendReq, NEW u \in Friend,
           NEW op \in {"send", "accept", "decline", "cancel", "unfriend"}, FriendLoad(q, op, u)
    PROVE  /\ fReq'[q] = [op |-> op, by |-> u, row |-> pair, gone |-> FALSE]
           /\ \A r \in FriendReq \ {q} : fReq'[r] = fReq[r]
           /\ patient => \A r \in FriendReq : fReq[r].by # u
  BY DEF FriendLoad, Typed, RequestsTyped

LEMMA AnswerMoves ==
    ASSUME Typed, NEW q \in FriendReq, Answered(q)
    PROVE  /\ fReq'[q].op = "none" /\ fReq'[q].by = NoFriend
           /\ \A r \in FriendReq \ {q} : fReq'[r] = fReq[r]
  BY DEF Answered, NoFriendReq, Typed, RequestsTyped

\* A request that loads the row and passes its checks.
LEMMA LoadKeeps ==
    ASSUME FInv, NEW q \in FriendReq, NEW u \in Friend,
           NEW op \in {"send", "accept", "decline", "cancel", "unfriend"}, FriendLoad(q, op, u),
           UNCHANGED <<pair, patient, agreed>>,
           op = "send" => pair.status \in {"none", "declined"},
           op # "send" => pair.status # "none",
           op \in {"accept", "decline"} => pair.status = "pending" /\ pair.from # u
    PROVE  RowShape' /\ Loaded' /\ Agreement'
<1> USE DEF FInv
<1>1. /\ fReq'[q] = [op |-> op, by |-> u, row |-> pair, gone |-> FALSE]
      /\ \A r \in FriendReq \ {q} : fReq'[r] = fReq[r]
      /\ patient => \A r \in FriendReq : fReq[r].by # u
  BY LoadMoves, ZenonT(60)
<1>2. RowShape'
  BY DEF RowShape
<1>3. Loaded'
  BY <1>1 DEF Loaded, RowShape
<1>4. ASSUME patient PROVE Serial' /\ AnswersHold' /\ SendsHold' /\ Consent'
  <2>1. Serial'
    BY <1>1, <1>4 DEF Agreement, Serial
  <2>2. AnswersHold'
    BY <1>1, <1>4 DEF Agreement, AnswersHold, Consent, RowShape
  <2>3. SendsHold'
    BY <1>1, <1>4 DEF Agreement, SendsHold
  <2>4. Consent'
    BY <1>4 DEF Agreement, Consent
  <2> QED BY <2>1, <2>2, <2>3, <2>4
<1> QED BY <1>2, <1>3, <1>4 DEF Agreement

\* A request that ends without a write.
LEMMA EndKeeps ==
    ASSUME FInv, NEW q \in FriendReq, Answered(q), UNCHANGED <<pair, patient, agreed>>
    PROVE  RowShape' /\ Loaded' /\ Agreement'
<1> USE DEF FInv
<1>1. /\ fReq'[q].op = "none" /\ fReq'[q].by = NoFriend
      /\ \A r \in FriendReq \ {q} : fReq'[r] = fReq[r]
  BY AnswerMoves
<1>2. RowShape' /\ Loaded'
  BY <1>1 DEF RowShape, Loaded
<1>3. ASSUME patient PROVE Serial' /\ AnswersHold' /\ SendsHold' /\ Consent'
  BY <1>1, <1>3, FriendAssumption
     DEF Agreement, Serial, AnswersHold, SendsHold, Consent, Typed, RequestsTyped
<1> QED BY <1>2, <1>3 DEF Agreement

\* The lemma every commit uses: the other requests stay, and what is left to show
\* is about the row and the consents.
LEMMA CommitKeeps ==
    ASSUME FInv, NEW q \in FriendReq, Answered(q), UNCHANGED patient, fReq[q].op # "none",
           pair'.status # "none", pair'.from \in Friend,
           patient =>
             /\ \A r \in FriendReq \ {q} : fReq[r].by # fReq[q].by =>
                  /\ fReq[r].op \in {"accept", "decline"} /\ ~fReq[r].gone =>
                        /\ pair'.from = pair.from
                        /\ fReq[r].op = "accept" /\ pair.from \in agreed => pair.from \in agreed'
                  /\ fReq[r].op = "send" /\ ~fReq[r].gone /\ pair.from \in agreed \cup {fReq[r].by}
                        => pair'.from \in agreed' \cup {fReq[r].by}
             /\ Consent'
    PROVE  RowShape' /\ Loaded' /\ Agreement'
<1> USE DEF FInv
<1>1. /\ fReq'[q].op = "none" /\ fReq'[q].by = NoFriend
      /\ \A r \in FriendReq \ {q} : fReq'[r] = fReq[r]
  BY AnswerMoves
<1>2. RowShape' /\ Loaded'
  BY <1>1 DEF RowShape, Loaded
<1>3. ASSUME patient PROVE Serial' /\ AnswersHold' /\ SendsHold' /\ Consent'
  <2>1. \A r \in FriendReq \ {q} : fReq[r].by # fReq[q].by
    BY <1>3 DEF Agreement, Serial
  <2>2. Serial'
    BY <1>1, <1>3, FriendAssumption DEF Agreement, Serial, Typed, RequestsTyped
  <2>3. AnswersHold'
    BY <1>1, <1>3, <2>1 DEF Agreement, AnswersHold
  <2>4. SendsHold'
    BY <1>1, <1>3, <2>1 DEF Agreement, SendsHold
  <2> QED BY <1>3, <2>2, <2>3, <2>4
<1> QED BY <1>2, <1>3 DEF Agreement
LEMMA SendKeeps ==
    ASSUME FInv, NEW q \in FriendReq, SendCommits(q)
    PROVE  RowShape' /\ Loaded' /\ Agreement'
<1> USE DEF FInv
<1> DEFINE u == fReq[q].by
           old == fReq[q].row
<1>1. /\ u \in Friend /\ fReq[q].op = "send" /\ ~fReq[q].gone /\ Answered(q)
      /\ old \in Pair /\ old.status \in {"none", "declined"}
      /\ agreed' = agreed \cup {u} /\ UNCHANGED patient
  BY RequestTyped DEF SendCommits, Loaded
<1>2. pair'.status = "pending" /\ pair'.from = IF old.from = u THEN pair.from ELSE u
  BY <1>1 DEF SendCommits, Updated, Pair
<1>3. old.from = u => pair.from \in Friend
  BY <1>1, FriendAssumption DEF Loaded, RowShape, NoPair
<1>4. ASSUME patient PROVE pair'.from \in agreed'
  BY <1>1, <1>2, <1>4 DEF Agreement, SendsHold
<1>5. ASSUME patient, NEW r \in FriendReq, fReq[r].by # u,
             fReq[r].op \in {"accept", "decline"}, ~fReq[r].gone
      PROVE  pair'.from = pair.from
  <2>1. pair.from \in Friend \ {fReq[r].by} /\ fReq[r].by \in Friend
    BY <1>5, RequestTyped DEF Agreement, AnswersHold
  <2>2. pair.from = u
    BY <1>1, <1>5, <2>1, FriendAssumption
  <2> QED BY <1>2, <2>2
<1>6. ASSUME patient, NEW r \in FriendReq, pair.from \in agreed \cup {fReq[r].by}
      PROVE  pair'.from \in agreed' \cup {fReq[r].by}
  BY <1>1, <1>2, <1>6
<1>7. patient => Consent'
  BY <1>2, <1>4 DEF Consent
<1> QED BY <1>1, <1>2, <1>3, <1>5, <1>6, <1>7, CommitKeeps

LEMMA AcceptKeeps ==
    ASSUME FInv, NEW q \in FriendReq, AcceptCommits(q)
    PROVE  RowShape' /\ Loaded' /\ Agreement'
<1> USE DEF FInv
<1> DEFINE u == fReq[q].by
           old == fReq[q].row
<1>1. /\ u \in Friend /\ fReq[q].op = "accept" /\ ~fReq[q].gone /\ Answered(q)
      /\ old \in Pair /\ old.status # "none"
      /\ agreed' = agreed \cup {u} /\ UNCHANGED patient
  BY RequestTyped DEF AcceptCommits, Loaded
<1>2. pair'.status \in {"accepted", pair.status} /\ pair'.from = pair.from
  BY <1>1 DEF AcceptCommits, Updated, Pair
<1>3. pair.status # "none" /\ pair.from \in Friend
  BY <1>1 DEF Loaded, RowShape
<1>4. ASSUME patient PROVE agreed' = Friend
  <2>1. pair.from \in agreed /\ pair.from \in Friend \ {u} /\ agreed \subseteq Friend
    BY <1>1, <1>4 DEF Agreement, AnswersHold, Typed
  <2> QED BY <1>1, <2>1, FriendAssumption
<1>5. patient => Consent'
  BY <1>2, <1>3, <1>4 DEF Consent
<1> QED BY <1>1, <1>2, <1>3, <1>5, CommitKeeps

LEMMA DeclineKeeps ==
    ASSUME FInv, NEW q \in FriendReq, DeclineCommits(q)
    PROVE  RowShape' /\ Loaded' /\ Agreement'
<1> USE DEF FInv
<1> DEFINE u == fReq[q].by
<1>1. /\ u \in Friend /\ fReq[q].op = "decline" /\ ~fReq[q].gone /\ Answered(q)
      /\ fReq[q].row.status # "none"
      /\ agreed' = agreed \ {u} /\ UNCHANGED patient
  BY RequestTyped DEF DeclineCommits, Loaded
<1>2. pair'.status = "declined" /\ pair'.from = pair.from
  BY DEF DeclineCommits, Typed, Pair
<1>3. pair.from \in Friend
  BY <1>1 DEF Loaded, RowShape
<1>4. ASSUME patient PROVE pair.from # u
  BY <1>1, <1>4 DEF Agreement, AnswersHold
<1>5. patient => Consent'
  BY <1>2 DEF Consent
<1> QED BY <1>1, <1>2, <1>3, <1>4, <1>5, CommitKeeps

LEMMA CancelKeeps ==
    ASSUME FInv, NEW q \in FriendReq, CancelCommits(q)
    PROVE  RowShape' /\ Loaded' /\ Agreement'
<1> USE DEF FInv
<1> DEFINE old == fReq[q].row
           new == [old EXCEPT !.status = "declined",
                              !.declined = IF @ = "never" THEN "recently" ELSE @]
<1>1. /\ fReq[q].op = "cancel" /\ ~fReq[q].gone /\ Answered(q) /\ UNCHANGED <<patient, agreed>>
      /\ old \in Pair /\ old.status # "none" /\ pair' = Updated(old, new)
  BY RequestTyped DEF CancelCommits, Loaded
<1>2. new.status = "declined" /\ new.from = old.from
  BY <1>1 DEF Pair
<1> HIDE DEF new
<1>3. pair'.status \in {"declined", pair.status} /\ pair'.from = pair.from
  BY <1>1, <1>2 DEF Updated
<1>4. pair.status # "none" /\ pair.from \in Friend
  BY <1>1 DEF Loaded, RowShape
<1>5. patient => Consent'
  BY <1>1, <1>3 DEF Agreement, Consent
<1> QED BY <1>1, <1>3, <1>4, <1>5, CommitKeeps

LEMMA RemoveKeeps ==
    ASSUME FInv, NEW q \in FriendReq, RemoveFriend(q)
    PROVE  RowShape' /\ Loaded' /\ Agreement'
<1> USE DEF FInv
<1>1. CASE fReq[q].gone
  BY <1>1, EndKeeps DEF RemoveFriend
<1>2. CASE ~fReq[q].gone
  <2>1. /\ pair' = NoPair /\ UNCHANGED patient
        /\ fReq' = [s \in FriendReq |->
                       IF s = q THEN NoFriendReq
                       ELSE [fReq[s] EXCEPT !.gone = @ \/ fReq[s].row.status # "none"]]
    BY <1>2 DEF RemoveFriend
  <2>2. /\ fReq'[q].op = "none" /\ fReq'[q].by = NoFriend
        /\ \A r \in FriendReq \ {q} :
              /\ fReq'[r].op = fReq[r].op /\ fReq'[r].by = fReq[r].by
              /\ fReq'[r].row = fReq[r].row
              /\ ~fReq'[r].gone => ~fReq[r].gone /\ fReq[r].row.status = "none"
    BY <2>1 DEF NoFriendReq, Typed, RequestsTyped, Request
  <2>3. RowShape'
    BY <2>1 DEF RowShape, NoPair
  <2>4. Loaded'
    BY <2>2 DEF Loaded
  <2>5. ASSUME patient PROVE Serial' /\ AnswersHold' /\ SendsHold' /\ Consent'
    <3>1. Serial'
      BY <2>2, <2>5, FriendAssumption DEF Agreement, Serial, Typed, RequestsTyped
    <3>2. AnswersHold'
      BY <2>2, <2>5 DEF Loaded, AnswersHold
    <3>3. SendsHold'
      <4>1. SUFFICES ASSUME NEW r \in FriendReq \ {q}, fReq[r].op = "send",
                            fReq[r].row = NoPair, fReq[r].row.from = fReq[r].by
                     PROVE  FALSE
        BY <2>2 DEF Loaded, SendsHold
      <4> QED BY <4>1, FriendAssumption DEF NoPair, Typed, RequestsTyped
    <3>4. Consent'
      BY <2>1 DEF Consent, NoPair
    <3> QED BY <3>1, <3>2, <3>3, <3>4
  <2> QED BY <2>1, <2>3, <2>4, <2>5 DEF Agreement
<1> QED BY <1>1, <1>2

LEMMA FInvInit == FriendInit => FInv
<1> SUFFICES ASSUME FriendInit PROVE FInv
  OBVIOUS
<1>1. \A q \in FriendReq : fReq[q].op = "none"
  BY DEF FriendInit, NoFriendReq
<1> QED BY <1>1, TypedInit DEF FInv, FriendInit, RowShape, Loaded, Agreement, Serial,
            AnswersHold, SendsHold, Consent, NoPair

LEMMA FInvNext == FInv /\ [FriendNext]_friendVars => FInv'
<1> SUFFICES ASSUME FInv, [FriendNext]_friendVars
             PROVE  RowShape' /\ Loaded' /\ Agreement'
  BY TypedNext DEF FInv
<1>1. ASSUME NEW q \in FriendReq, NEW u \in Friend,
             \/ SendBack(q, u) \/ SendLoad(q, u) \/ CancelLoad(q, u) \/ RemoveFriendLoad(q, u)
             \/ \E op \in {"accept", "decline"} : AnswerLoad(q, op, u)
      PROVE  RowShape' /\ Loaded' /\ Agreement'
  BY <1>1, LoadKeeps DEF SendBack, SendLoad, CancelLoad, RemoveFriendLoad, AnswerLoad
<1>2. ASSUME NEW q \in FriendReq, FriendFails(q) PROVE RowShape' /\ Loaded' /\ Agreement'
  BY <1>2, EndKeeps DEF FriendFails
<1>3. ASSUME NEW q \in FriendReq,
             \/ SendCommits(q) \/ AcceptCommits(q) \/ DeclineCommits(q)
             \/ CancelCommits(q) \/ RemoveFriend(q)
      PROVE  RowShape' /\ Loaded' /\ Agreement'
  BY <1>3, SendKeeps, AcceptKeeps, DeclineKeeps, CancelKeeps, RemoveKeeps
<1>4. ASSUME FriendCooldownEnds PROVE RowShape' /\ Loaded' /\ Agreement'
  <2>1. /\ pair'.status = pair.status /\ pair'.from = pair.from
        /\ pair.status # "none" /\ UNCHANGED <<fReq, patient, agreed>>
        /\ \A q \in FriendReq : fReq[q].op = "none"
    BY <1>4 DEF FriendCooldownEnds, FInv, Typed, Pair, RowShape, NoPair
  <2> QED BY <2>1 DEF FInv, RowShape, Loaded, Agreement, Serial, AnswersHold, SendsHold, Consent
<1>5. CASE NextDay \/ UNCHANGED friendVars
  BY <1>5 DEF NextDay, friendVars, FInv, RowShape, Loaded, Agreement, Serial, AnswersHold,
              SendsHold, Consent
<1> QED BY <1>1, <1>2, <1>3, <1>4, <1>5 DEF FriendNext

\* However the requests of two users who wait for their answers cross each other,
\* with rows deleted and inserted in between, a friendship has the consent of both.
THEOREM FriendsAgree == FriendSpec => []FriendsConsented
<1>1. FInv => FriendsConsented
  BY DEF FInv, Agreement, Consent, FriendsConsented
<1> QED BY <1>1, FInvInit, FInvNext, PTL DEF FriendSpec

(***************************************************************************)
(* Listings: the loop of promote_top_queue                                 *)
(***************************************************************************)

TopRec == [status : [Product -> ListingStatus], pinned : SUBSET Product,
           weeks : [Product -> Nat], queue : Seq(Product), active : SUBSET Product]

\* r holds what the loop makes of t, round by round, for the first n of the queue.
IsRounds(r, t, n) ==
    r = [k \in 0..n |-> IF k = 0 THEN t ELSE PromoteOne(r[k - 1], t.queue[k])]

LEMMA LeastOf ==
    ASSUME NEW T \in SUBSET Nat, T # {}
    PROVE  \E n \in T : \A k \in T : n <= k
<1> DEFINE R == {ss \in Nat \X Nat : ss[1] < ss[2]}
<1>1. IsWellFoundedOn(R, Nat)
  BY NatLessThanWellFounded DEF OpToRel
<1>2. PICK n \in T : \A k \in T : ~(<<k, n>> \in R)
  BY <1>1, WFMin
<1>3. ASSUME NEW k \in T PROVE n <= k
  <2>1. k \in Nat /\ n \in Nat
    OBVIOUS
  <2>2. CASE k < n
    <3>1. <<k, n>> \in R
      BY <2>1, <2>2
    <3> QED BY <1>2, <3>1
  <2> QED BY <2>1, <2>2
<1> QED BY <1>3

\* The rounds exist, so that Promoted is the last of them.
LEMMA RoundsExist ==
    ASSUME NEW t, NEW n \in Nat
    PROVE  \E r : IsRounds(r, t, n)
<1>1. IsRounds([k \in 0..0 |-> t], t, 0)
  BY DEF IsRounds
<1> DEFINE T == {k \in Nat : ~\E r : IsRounds(r, t, k)}
<1> SUFFICES ASSUME T # {} PROVE FALSE
  OBVIOUS
<1>2. PICK m \in T : \A k \in T : m <= k
  <2>1. T \in SUBSET Nat
    OBVIOUS
  <2> QED BY <2>1, LeastOf
<1>3. m \in Nat /\ m # 0
  BY <1>1
<1>4. m - 1 \in Nat /\ m - 1 \notin T
  BY <1>2, <1>3
<1>5. PICK r : IsRounds(r, t, m - 1)
  BY <1>4
<1> DEFINE s == [k \in 0..m |-> IF k = m THEN PromoteOne(r[m - 1], t.queue[m]) ELSE r[k]]
<1>6. IsRounds(s, t, m)
  BY <1>3, <1>5 DEF IsRounds
<1> QED BY <1>2, <1>6

\* What holds before the loop, and is kept by its k-th round for every k, holds
\* after it: G[k] is what is known after k rounds.
LEMMA LoopRule ==
    ASSUME NEW t \in TopRec, NEW G,
           t \in G[0],
           \A k \in 0 .. Len(t.queue) - 1 : \A u \in G[k] :
               PromoteOne(u, t.queue[k + 1]) \in G[k + 1]
    PROVE  Promoted(t) \in G[Len(t.queue)]
<1> DEFINE n == Len(t.queue)
<1>1. n \in Nat
  BY DEF TopRec
<1>2. PICK r : IsRounds(r, t, n)
  BY <1>1, RoundsExist
<1>3. PICK s : IsRounds(s, t, n) /\ Promoted(t) = s[n]
  BY <1>2 DEF Promoted, IsRounds
<1>4. s[0] = t /\ \A k \in 0 .. n - 1 : s[k + 1] = PromoteOne(s[k], t.queue[k + 1])
  BY <1>1, <1>3 DEF IsRounds
<1> DEFINE T == {k \in 0..n : s[k] \notin G[k]}
<1> SUFFICES ASSUME T # {} PROVE FALSE
  BY <1>1, <1>3
<1> HIDE DEF n
<1>5. PICK m \in T : \A k \in T : m <= k
  <2>1. T \in SUBSET Nat
    BY <1>1
  <2> QED BY <2>1, LeastOf
<1>6. m \in 0..n /\ m # 0
  BY <1>4
<1>7. m - 1 \in 0 .. n - 1 /\ m - 1 \notin T
  BY <1>1, <1>5, <1>6
<1>8. s[m - 1] \in G[m - 1]
  BY <1>1, <1>7
<1>9. s[m] \in G[m]
  <2>1. (m - 1) + 1 = m
    BY <1>1, <1>6
  <2>2. PromoteOne(s[m - 1], t.queue[(m - 1) + 1]) \in G[(m - 1) + 1]
    BY <1>7, <1>8 DEF n
  <2>3. s[(m - 1) + 1] = PromoteOne(s[m - 1], t.queue[(m - 1) + 1])
    BY <1>4, <1>7
  <2> QED BY <2>1, <2>2, <2>3
<1> QED BY <1>9
(***************************************************************************)
(* Listings: what serving the queue does to the slots                      *)
(***************************************************************************)

LEMMA ActivateFields ==
    ASSUME NEW t \in TopRec, NEW p \in Product
    PROVE  LET u == Activate(t, p) IN
           /\ u \in TopRec
           /\ u.status = [t.status EXCEPT ![p] = "published"]
           /\ u.pinned = t.pinned \cup {p} /\ u.weeks = [t.weeks EXCEPT ![p] = 1]
           /\ u.queue = t.queue /\ u.active = t.active \cup {p}
BY DEF Activate, TopRec, ListingStatus

LEMMA UnpinnedFields ==
    ASSUME NEW t \in TopRec, NEW S \in SUBSET Product
    PROVE  LET u == Unpinned(t, S) IN
           /\ u \in TopRec
           /\ u.status = t.status /\ u.pinned = t.pinned \ S
           /\ u.weeks = [p \in Product |-> IF p \in S THEN 0 ELSE t.weeks[p]]
           /\ u.queue = t.queue /\ u.active = t.active
BY DEF Unpinned, TopRec

LEMMA QueuedMembers ==
    ASSUME NEW t \in TopRec
    PROVE  /\ Queued(t) = {t.queue[i] : i \in 1 .. Len(t.queue)}
           /\ Queued(t) \subseteq Product
           /\ Len(t.queue) \in Nat
<1>1. t.queue \in Seq(Product)
  BY DEF TopRec
<1> QED BY <1>1 DEF Queued, ToSet

\* The queue u is what is left of the queue t when some were taken off its front.
Rest(q, s) == \E j \in 0 .. Len(s) : q = SubSeq(s, j + 1, Len(s))

\* u is t after some of the queue were served, from the front: whoever left the
\* queue is on TOP or was archived, nobody left TOP, no listing changed but those
\* that were queued, which are published, and no slot was filled that was not free.
Served(t, u) ==
    /\ u \in TopRec
    /\ Rest(u.queue, t.queue)
    /\ InTop(t) \subseteq InTop(u)
    /\ \A p \in Queued(t) \ Queued(u) : p \in InTop(u) \/ t.status[p] = "archived"
    /\ \A p \in Product : u.status[p] # t.status[p] =>
          u.status[p] = "published" /\ p \in Queued(t)
    /\ \A p \in u.pinned : p \in t.pinned \/ u.status[p] = "published"
    /\ IsFiniteSet(u.pinned)
    /\ InTop(u) = InTop(t) \/ Cardinality(InTop(u)) <= TopSlots

LEMMA RestLeaves ==
    ASSUME NEW s \in Seq(Product), NEW q, Rest(q, s)
    PROVE  /\ q \in Seq(Product)
           /\ \E j \in 0 .. Len(s) : /\ Len(q) = Len(s) - j
                                     /\ \A i \in 1 .. Len(q) : q[i] = s[i + j]
<1>1. PICK j \in 0 .. Len(s) : q = SubSeq(s, j + 1, Len(s))
  BY DEF Rest
<1>2. Len(s) \in Nat /\ j \in Nat /\ j <= Len(s)
  OBVIOUS
<1>3. \A i \in j + 1 .. Len(s) : s[i] \in Product
  <2> TAKE i \in j + 1 .. Len(s)
  <2>1. i \in 1 .. Len(s)
    BY <1>2
  <2> QED BY <2>1, ElementOfSeq
<1>4. /\ q \in Seq(Product)
      /\ Len(q) = IF j + 1 <= Len(s) THEN Len(s) - (j + 1) + 1 ELSE 0
      /\ \A i \in 1 .. Len(s) - (j + 1) + 1 : q[i] = s[(j + 1) + i - 1]
  <2>1. j + 1 \in Int /\ Len(s) \in Int
    BY <1>2
  <2> QED BY <1>1, <1>3, <2>1, SubSeqProperties
<1>5. Len(q) = Len(s) - j
  BY <1>2, <1>4
<1>6. ASSUME NEW i \in 1 .. Len(q) PROVE q[i] = s[i + j]
  <2>1. i \in 1 .. Len(s) - (j + 1) + 1 /\ (j + 1) + i - 1 = i + j
    BY <1>2, <1>5
  <2> QED BY <1>4, <2>1
<1> QED BY <1>4, <1>5, <1>6

LEMMA RestTrans ==
    ASSUME NEW s \in Seq(Product), NEW q, NEW r, Rest(q, s), Rest(r, q)
    PROVE  Rest(r, s)
<1>1. PICK j \in 0 .. Len(s) : q = SubSeq(s, j + 1, Len(s)) /\ Len(q) = Len(s) - j
  <2>1. PICK j \in 0 .. Len(s) : q = SubSeq(s, j + 1, Len(s))
    BY DEF Rest
  <2>2. Len(q) = Len(s) - j
    <3>1. j + 1 \in Int /\ Len(s) \in Int /\ j <= Len(s)
      OBVIOUS
    <3>2. \A i \in j + 1 .. Len(s) : s[i] \in Product
      <4> TAKE i \in j + 1 .. Len(s)
      <4>1. i \in 1 .. Len(s)
        OBVIOUS
      <4> QED BY <4>1, ElementOfSeq
    <3>3. Len(q) = IF j + 1 <= Len(s) THEN Len(s) - (j + 1) + 1 ELSE 0
      BY <2>1, <3>1, <3>2, SubSeqProperties
    <3> QED BY <3>1, <3>3
  <2> QED BY <2>1, <2>2
<1>2. PICK k \in 0 .. Len(q) : r = SubSeq(q, k + 1, Len(q))
  BY DEF Rest
<1>3. Len(s) \in Nat /\ j \in Nat /\ j <= Len(s) /\ k \in Nat /\ k <= Len(s) - j
  BY <1>1
<1>4. CASE k = Len(q)
  <2>1. r = << >>
    <3>1. k + 1 \in Int /\ Len(q) \in Int /\ Len(q) < k + 1
      BY <1>1, <1>3, <1>4
    <3> QED BY <1>2, <3>1, SubSeqEmpty
  <2>2. SubSeq(s, Len(s) + 1, Len(s)) = << >>
    <3>1. Len(s) + 1 \in Int /\ Len(s) \in Int /\ Len(s) < Len(s) + 1
      OBVIOUS
    <3> QED BY <3>1, SubSeqEmpty
  <2>3. Len(s) \in 0 .. Len(s)
    BY <1>3
  <2>4. r = SubSeq(s, Len(s) + 1, Len(s))
    BY <2>1, <2>2
  <2> QED BY <2>3, <2>4 DEF Rest
<1>5. CASE k # Len(q)
  <2> DEFINE i == j + 1
  <2>1. /\ i \in 1 .. Len(s) /\ Len(s) \in 1 .. Len(s)
        /\ k + 1 \in 1 .. Len(s) - i + 1 /\ Len(q) \in 1 .. Len(s) - i + 1
    BY <1>1, <1>3, <1>5
  <2>2. SubSeq(SubSeq(s, i, Len(s)), k + 1, Len(q))
           = SubSeq(s, i + (k + 1) - 1, i + Len(q) - 1)
    BY <2>1, SubSeqOfSubSeq
  <2>3. i + (k + 1) - 1 = (j + k) + 1 /\ j + k \in 0 .. Len(s)
    BY <1>3
  <2>5. i + Len(q) - 1 = Len(s)
    <3>1. Len(q) = Len(s) - j
      BY <1>1
    <3> QED BY <1>3, <3>1
  <2>4. r = SubSeq(s, (j + k) + 1, Len(s))
    BY <1>1, <1>2, <2>2, <2>3, <2>5
  <2> QED BY <2>3, <2>4 DEF Rest
<1> QED BY <1>4, <1>5

LEMMA RestFront ==
    ASSUME NEW s \in Seq(Product), s # << >>
    PROVE  Rest(Tail(s), s)
<1>1. Tail(s) = SubSeq(s, 2, Len(s))
  BY TailIsSubSeq
<1>2. 1 \in 0 .. Len(s) /\ 1 + 1 = 2
  BY EmptySeq
<1> QED BY <1>1, <1>2 DEF Rest

LEMMA RestAll ==
    ASSUME NEW s \in Seq(Product)
    PROVE  Rest(s, s)
<1>1. SubSeq(s, 0 + 1, Len(s)) = s /\ 0 \in 0 .. Len(s)
  BY SubSeqFull
<1> QED BY <1>1 DEF Rest

\* What is left of the queue t stands in the queue u, j places further on.
LEMMA RestShifts ==
    ASSUME NEW t \in TopRec, NEW u \in TopRec, Rest(u.queue, t.queue)
    PROVE  /\ Len(t.queue) \in Nat /\ Len(u.queue) \in Nat
           /\ \E j \in 0 .. Len(t.queue) :
                 /\ Len(u.queue) = Len(t.queue) - j
                 /\ \A i \in 1 .. Len(u.queue) : u.queue[i] = t.queue[i + j]
<1> DEFINE s == t.queue
           q == u.queue
<1>1. s \in Seq(Product) /\ q \in Seq(Product) /\ Rest(q, s)
  BY DEF TopRec
<1> HIDE DEF s, q
<1>2. /\ Len(s) \in Nat /\ Len(q) \in Nat
      /\ \E j \in 0 .. Len(s) : Len(q) = Len(s) - j /\ \A i \in 1 .. Len(q) : q[i] = s[i + j]
  BY <1>1, RestLeaves, LenProperties
<1> QED BY <1>2 DEF s, q

\* What the queue u has, the queue t had.
LEMMA RestQueued ==
    ASSUME NEW t \in TopRec, NEW u \in TopRec, Rest(u.queue, t.queue)
    PROVE  Queued(u) \subseteq Queued(t)
<1>1. Len(t.queue) \in Nat /\ Len(u.queue) \in Nat
  BY RestShifts
<1>2. PICK j \in 0 .. Len(t.queue) :
         /\ Len(u.queue) = Len(t.queue) - j
         /\ \A i \in 1 .. Len(u.queue) : u.queue[i] = t.queue[i + j]
  BY RestShifts
<1>3. ASSUME NEW i \in 1 .. Len(u.queue) PROVE u.queue[i] \in Queued(t)
  <2>1. i + j \in 1 .. Len(t.queue)
    <3>1. Len(u.queue) = Len(t.queue) - j
      BY <1>2
    <3> QED BY <1>1, <3>1
  <2> QED BY <1>2, <2>1, QueuedMembers
<1> QED BY <1>3, QueuedMembers

LEMMA InTopFinite ==
    ASSUME NEW t, IsFiniteSet(t.pinned)
    PROVE  IsFiniteSet(InTop(t)) /\ Cardinality(InTop(t)) \in Nat
<1>1. InTop(t) \subseteq t.pinned
  BY DEF InTop
<1> QED BY <1>1, FS_Subset, FS_CardinalityType

\* Serving nobody serves.
LEMMA ServedNobody ==
    ASSUME NEW t \in TopRec, IsFiniteSet(t.pinned)
    PROVE  Served(t, t)
<1>1. t.queue \in Seq(Product)
  BY DEF TopRec
<1> QED BY <1>1, RestAll DEF Served

\* Serving some, then more, serves.
LEMMA ServedTrans ==
    ASSUME NEW t \in TopRec, NEW u, NEW v, Served(t, u), Served(u, v)
    PROVE  Served(t, v)
<1>1. u \in TopRec /\ v \in TopRec
  BY DEF Served
<1>2. Rest(v.queue, t.queue)
  <2>1. t.queue \in Seq(Product)
    BY DEF TopRec
  <2> QED BY <2>1, RestTrans DEF Served
<1>3. Queued(u) \subseteq Queued(t) /\ Queued(v) \subseteq Queued(u) /\ Queued(t) \subseteq Product
  BY <1>1, RestQueued, QueuedMembers DEF Served
<1>4. InTop(t) \subseteq InTop(v)
  BY DEF Served
<1>5. ASSUME NEW p \in Queued(t) \ Queued(v)
      PROVE  p \in InTop(v) \/ t.status[p] = "archived"
  <2>1. CASE p \in Queued(u)
    <3>1. p \in InTop(v) \/ u.status[p] = "archived"
      BY <2>1, <1>5 DEF Served
    <3>2. u.status[p] # t.status[p] => u.status[p] = "published"
      BY <1>3 DEF Served
    <3> QED BY <3>1, <3>2
  <2>2. CASE p \notin Queued(u)
    BY <2>2, <1>5 DEF Served
  <2> QED BY <2>1, <2>2
<1>6. ASSUME NEW p \in Product, v.status[p] # t.status[p]
      PROVE  v.status[p] = "published" /\ p \in Queued(t)
  <2>1. CASE v.status[p] # u.status[p]
    BY <2>1, <1>3 DEF Served
  <2>2. CASE v.status[p] = u.status[p]
    BY <2>2, <1>6 DEF Served
  <2> QED BY <2>1, <2>2
<1>7. ASSUME NEW p \in v.pinned
      PROVE  p \in t.pinned \/ v.status[p] = "published"
  <2>0. p \in Product
    BY <1>1 DEF TopRec
  <2>1. CASE v.status[p] # u.status[p]
    BY <2>0, <2>1 DEF Served
  <2>2. CASE v.status[p] = u.status[p]
    BY <2>2, <1>7 DEF Served
  <2> QED BY <2>1, <2>2
<1>8. InTop(v) = InTop(t) \/ Cardinality(InTop(v)) <= TopSlots
  BY DEF Served
<1>9. IsFiniteSet(v.pinned)
  BY DEF Served
<1> QED BY <1>1, <1>2, <1>4, <1>5, <1>6, <1>7, <1>8, <1>9 DEF Served

\* Activating p takes one slot at most.
LEMMA ActivateServes ==
    ASSUME NEW t \in TopRec, NEW p \in Product, IsFiniteSet(t.pinned), SlotFree(t)
    PROVE  LET u == Activate(t, p) IN
           /\ u \in TopRec /\ u.queue = t.queue
           /\ InTop(u) = InTop(t) \cup {p}
           /\ \A q \in Product : u.status[q] # t.status[q] => u.status[q] = "published" /\ q = p
           /\ \A q \in u.pinned : q \in t.pinned \/ u.status[q] = "published"
           /\ IsFiniteSet(u.pinned)
           /\ Cardinality(InTop(u)) <= TopSlots
<1> DEFINE u == Activate(t, p)
<1>1. /\ u \in TopRec
      /\ u.status = [t.status EXCEPT ![p] = "published"]
      /\ u.pinned = t.pinned \cup {p} /\ u.weeks = [t.weeks EXCEPT ![p] = 1]
      /\ u.queue = t.queue
  BY ActivateFields
<1> HIDE DEF u
<1>2. t.status \in [Product -> ListingStatus] /\ t.weeks \in [Product -> Nat]
      /\ t.pinned \subseteq Product
  BY DEF TopRec
<1>3. InTop(u) = InTop(t) \cup {p}
  <2>1. \A q \in Product : u.weeks[q] = IF q = p THEN 1 ELSE t.weeks[q]
    BY <1>1, <1>2
  <2>2. 1 > 0
    OBVIOUS
  <2> QED BY <1>1, <1>2, <2>1, <2>2 DEF InTop
<1>4. \A q \in Product : u.status[q] = IF q = p THEN "published" ELSE t.status[q]
  BY <1>1, <1>2
<1>5. IsFiniteSet(u.pinned)
  BY <1>1, FS_AddElement
<1>6. Cardinality(InTop(u)) <= TopSlots
  <2>1. IsFiniteSet(InTop(t)) /\ Cardinality(InTop(t)) \in Nat /\ Cardinality(InTop(t)) < TopSlots
    BY InTopFinite DEF SlotFree
  <2>2. Cardinality(InTop(t) \cup {p}) = IF p \in InTop(t) THEN Cardinality(InTop(t))
                                         ELSE Cardinality(InTop(t)) + 1
    BY <2>1, FS_AddElement
  <2> QED BY <1>3, <2>1, <2>2, ListingAssumption DEF ListingAssumption
<1>7. \A q \in u.pinned : q \in t.pinned \/ u.status[q] = "published"
  BY <1>1, <1>2, <1>4
<1> QED BY <1>1, <1>3, <1>4, <1>5, <1>6, <1>7 DEF u

\* One round of the loop, for the oldest of the queue.
LEMMA RoundServes ==
    ASSUME NEW t \in TopRec, IsFiniteSet(t.pinned), t.queue # << >>, SlotFree(t)
    PROVE  LET u == PromoteOne(t, Head(t.queue)) IN
           Served(t, u) /\ u.queue = Tail(t.queue)
<1> DEFINE p == Head(t.queue)
           rest == [t EXCEPT !.queue = Tail(@)]
           u == PromoteOne(t, p)
<1>1. t.queue \in Seq(Product)
  BY DEF TopRec
<1>2. p \in Product /\ Tail(t.queue) \in Seq(Product) /\ Rest(Tail(t.queue), t.queue)
  BY <1>1, HeadTailProperties, RestFront
<1>3. /\ rest \in TopRec /\ rest.queue = Tail(t.queue) /\ rest.status = t.status
      /\ rest.pinned = t.pinned /\ rest.weeks = t.weeks
  BY <1>2 DEF TopRec
<1>4. InTop(rest) = InTop(t)
  BY <1>3 DEF InTop
<1>5. IsFiniteSet(rest.pinned) /\ SlotFree(rest)
  BY <1>3, <1>4 DEF SlotFree
<1>6. p \in Queued(t)
  <2>1. p = t.queue[1] /\ 1 \in 1 .. Len(t.queue)
    BY <1>1, EmptySeq
  <2> QED BY <2>1, QueuedMembers
<1>7. u = IF t.status[p] = "archived" THEN rest ELSE Activate(rest, p)
  BY DEF PromoteOne
<1>8. \A q \in Queued(t) : q = p \/ q \in Queued(rest)
  <2> TAKE q \in Queued(t)
  <2>1. PICK i \in 1 .. Len(t.queue) : q = t.queue[i]
    BY QueuedMembers
  <2>2. CASE i = 1
    BY <1>1, <2>1, <2>2
  <2>3. CASE i # 1
    <3>1. Len(Tail(t.queue)) = Len(t.queue) - 1
          /\ \A k \in 1 .. Len(Tail(t.queue)) : Tail(t.queue)[k] = t.queue[k + 1]
      BY <1>1, HeadTailProperties
    <3>2. i - 1 \in 1 .. Len(Tail(t.queue)) /\ (i - 1) + 1 = i
      BY <1>1, <2>1, <2>3, <3>1
    <3>3. rest.queue[i - 1] = q
      BY <1>3, <2>1, <3>1, <3>2
    <3> QED BY <1>3, <3>2, <3>3, QueuedMembers
  <2> QED BY <2>2, <2>3
<1> HIDE DEF p, rest, u
<1>9. CASE t.status[p] = "archived"
  <2>1. u = rest
    BY <1>7, <1>9
  <2> QED BY <1>2, <1>3, <1>4, <1>5, <1>8, <1>9, <2>1 DEF Served, p, u
<1>10. CASE t.status[p] # "archived"
  <2>1. /\ u \in TopRec /\ u.queue = Tail(t.queue)
        /\ InTop(u) = InTop(t) \cup {p}
        /\ \A q \in Product : u.status[q] # t.status[q] => u.status[q] = "published" /\ q = p
        /\ \A q \in u.pinned : q \in t.pinned \/ u.status[q] = "published"
        /\ IsFiniteSet(u.pinned)
        /\ Cardinality(InTop(u)) <= TopSlots
    BY <1>2, <1>3, <1>4, <1>5, <1>7, <1>10, ActivateServes
  <2>2. Queued(u) = Queued(rest)
    BY <1>3, <2>1 DEF Queued
  <2>3. Served(t, u)
    BY <1>2, <1>6, <1>8, <2>1, <2>2 DEF Served
  <2> QED BY <2>1, <2>3 DEF p, u
<1> QED BY <1>9, <1>10

\* promote_top_queue serves, and stops when nobody waits or no slot is free.
LEMMA PromotedServes ==
    ASSUME NEW t \in TopRec, IsFiniteSet(t.pinned)
    PROVE  /\ Served(t, Promoted(t))
           /\ Promoted(t).queue = << >> \/ ~SlotFree(Promoted(t))
<1> DEFINE n == Len(t.queue)
           G == [k \in 0..n |->
                    {u \in TopRec : /\ Served(t, u)
                                    /\ u.queue = SubSeq(t.queue, k + 1, n) \/ ~SlotFree(u)}]
<1>1. t.queue \in Seq(Product) /\ n \in Nat
  BY DEF TopRec
<1>2. t \in G[0]
  <2>1. SubSeq(t.queue, 0 + 1, n) = t.queue /\ 0 \in 0..n
    BY <1>1, SubSeqFull
  <2> QED BY <2>1, ServedNobody
<1>3. ASSUME NEW k \in 0 .. n - 1, NEW u \in G[k]
      PROVE  PromoteOne(u, t.queue[k + 1]) \in G[k + 1]
  <2>1. k \in 0..n /\ k + 1 \in 0..n /\ k + 1 \in 1..n /\ n \in k + 1 .. n
    BY <1>1
  <2>2. u \in TopRec /\ Served(t, u) /\ (u.queue = SubSeq(t.queue, k + 1, n) \/ ~SlotFree(u))
    BY <2>1
  <2>3. CASE ~SlotFree(u)
    <3>1. PromoteOne(u, t.queue[k + 1]) = u
      BY <2>3 DEF PromoteOne
    <3> QED BY <2>1, <2>2, <2>3, <3>1
  <2>4. CASE SlotFree(u)
    <3>1. u.queue = SubSeq(t.queue, k + 1, n)
      BY <2>2, <2>4
    <3>2. Head(u.queue) = t.queue[k + 1] /\ Tail(u.queue) = SubSeq(t.queue, (k + 1) + 1, n)
      BY <1>1, <2>1, <3>1, HeadTailOfSubSeq
    <3>3. u.queue # << >>
      <4>1. Rest(u.queue, t.queue)
        BY <2>1, <3>1 DEF Rest
      <4>2. \A i \in k + 1 .. n : t.queue[i] \in Product
        <5> TAKE i \in k + 1 .. n
        <5>1. i \in 1 .. Len(t.queue)
          BY <1>1, <2>1
        <5> QED BY <1>1, <5>1, ElementOfSeq
      <4>3. Len(u.queue) = IF k + 1 <= n THEN n - (k + 1) + 1 ELSE 0
        <5>1. k + 1 \in Int /\ n \in Int
          BY <1>1, <2>1
        <5> QED BY <3>1, <4>2, <5>1, SubSeqProperties
      <4>4. Len(u.queue) # 0
        BY <1>1, <2>1, <4>3
      <4> QED BY <4>4, EmptySeq
    <3>4. LET v == PromoteOne(u, Head(u.queue)) IN Served(u, v) /\ v.queue = Tail(u.queue)
      <4>1. IsFiniteSet(u.pinned)
        BY <2>2 DEF Served
      <4> QED BY <2>2, <2>4, <3>3, <4>1, RoundServes
    <3>5. Served(t, PromoteOne(u, t.queue[k + 1]))
      BY <2>2, <3>2, <3>4, ServedTrans
    <3>6. PromoteOne(u, t.queue[k + 1]) \in TopRec
      BY <3>5 DEF Served
    <3> QED BY <2>1, <3>2, <3>4, <3>5, <3>6
  <2> QED BY <2>3, <2>4
<1>4. Promoted(t) \in G[n]
  <2> HIDE DEF G
  <2> QED BY <1>2, <1>3, LoopRule
<1>5. SubSeq(t.queue, n + 1, n) = << >> /\ n \in 0..n
  <2>1. n + 1 \in Int /\ n \in Int /\ n < n + 1
    BY <1>1
  <2> QED BY <1>1, <2>1, SubSeqEmpty
<1> QED BY <1>4, <1>5

\* Without a free slot it does nothing.
LEMMA PromotedIdle ==
    ASSUME NEW t \in TopRec, ~SlotFree(t)
    PROVE  Promoted(t) = t
<1> DEFINE G == [k \in 0 .. Len(t.queue) |-> {t}]
<1>1. Len(t.queue) \in Nat
  BY DEF TopRec
<1>2. t \in G[0]
  BY <1>1
<1>3. ASSUME NEW k \in 0 .. Len(t.queue) - 1, NEW u \in G[k]
      PROVE  PromoteOne(u, t.queue[k + 1]) \in G[k + 1]
  <2>1. k \in 0 .. Len(t.queue) /\ k + 1 \in 0 .. Len(t.queue)
    BY <1>1
  <2>2. u = t
    BY <2>1
  <2> QED BY <2>1, <2>2 DEF PromoteOne
<1>4. Promoted(t) \in G[Len(t.queue)]
  <2> HIDE DEF G
  <2> QED BY <1>2, <1>3, LoopRule
<1> QED BY <1>1, <1>4

\* expire_stale_top_pins: nobody on TOP is taken off, then the queue is served.
LEMMA ExpiredServes ==
    ASSUME NEW t \in TopRec, IsFiniteSet(t.pinned)
    PROVE  /\ Served(t, Expired(t))
           /\ Expired(t).queue = << >> \/ ~SlotFree(Expired(t))
<1> DEFINE out == {p \in t.pinned : t.weeks[p] = 0}
           b == Unpinned(t, out)
           e == [b EXCEPT !.active = @ \ out]
<1>1. out \in SUBSET Product
  BY DEF TopRec
<1>2. /\ b \in TopRec
      /\ b.status = t.status /\ b.pinned = t.pinned \ out
      /\ b.weeks = [p \in Product |-> IF p \in out THEN 0 ELSE t.weeks[p]]
      /\ b.queue = t.queue /\ b.active = t.active
  BY <1>1, UnpinnedFields
<1>3. Expired(t) = Promoted(e)
  BY DEF Expired
<1> HIDE DEF b
<1>4. /\ e \in TopRec
      /\ e.status = t.status /\ e.pinned = t.pinned \ out
      /\ e.weeks = [p \in Product |-> IF p \in out THEN 0 ELSE t.weeks[p]]
      /\ e.queue = t.queue
  BY <1>1, <1>2 DEF TopRec
<1> HIDE DEF e
<1>5. InTop(e) = InTop(t)
  <2>1. \A p \in Product : p \in out \/ e.weeks[p] = t.weeks[p]
    BY <1>4
  <2>2. \A p \in out : t.weeks[p] = 0
    OBVIOUS
  <2>3. t.pinned \subseteq Product
    BY DEF TopRec
  <2> QED BY <1>4, <2>1, <2>2, <2>3 DEF InTop
<1>6. IsFiniteSet(e.pinned)
  <2>1. e.pinned \subseteq t.pinned
    BY <1>4
  <2> QED BY <2>1, FS_Subset
<1>7. Served(t, e)
  <2>1. t.queue \in Seq(Product)
    BY DEF TopRec
  <2> QED BY <1>4, <1>5, <1>6, <2>1, RestAll DEF Served, Queued
<1>8. Served(e, Promoted(e)) /\ (Promoted(e).queue = << >> \/ ~SlotFree(Promoted(e)))
  BY <1>4, <1>6, PromotedServes
<1> QED BY <1>3, <1>7, <1>8, ServedTrans

(***************************************************************************)
(* Listings: the inductive invariant                                       *)
(***************************************************************************)

\* A TOP payment for p has settled.
PaidFor(p, pay) == \E y \in TopPayment : pay[y].status = "paid" /\ pay[y].product = p

PinsListed(t) == \A p \in t.pinned : t.status[p] \in {"published", "archived"}

QueuedOnce(t) ==
    \A i, j \in 1 .. Len(t.queue) : t.queue[i] = t.queue[j] => i = j

\* Whoever waits has paid; what is published was approved as it is or has paid.
Vouched(t, ok, pay) ==
    /\ \A p \in Queued(t) : PaidFor(p, pay)
    /\ \A p \in Product : t.status[p] = "published" => p \in ok \/ PaidFor(p, pay)

TopOk(t, ok, pay) ==
    t \in TopRec /\ IsFiniteSet(t.pinned) /\ PinsListed(t) /\ QueuedOnce(t) /\ Vouched(t, ok, pay)

TopPay == [status : {"absent", "pending", "paid"}, product : Product \cup {NoProduct},
           mode : {"boost", "extend"}]

PayTypes ==
    /\ topPay \in [TopPayment -> TopPay]
    /\ \A y \in TopPayment : topPay[y].status # "absent" => topPay[y].product \in Product

SellerTypes ==
    approved \subseteq Product /\ strikes \in 0..(StrikeLimit - 1) /\ restricted \in BOOLEAN

ListingInv == TopOk(top, approved, topPay) /\ PayTypes /\ SellerTypes

\* Serving the queue keeps it: only paid products are published.
LEMMA ServedOk ==
    ASSUME NEW t, NEW u, NEW ok, NEW pay, TopOk(t, ok, pay), Served(t, u)
    PROVE  TopOk(u, ok, pay)
<1>1. t \in TopRec /\ u \in TopRec /\ IsFiniteSet(u.pinned)
  BY DEF TopOk, Served
<1>2. PinsListed(u)
  <2> SUFFICES ASSUME NEW p \in u.pinned PROVE u.status[p] \in {"published", "archived"}
    BY DEF PinsListed
  <2>1. p \in Product
    BY <1>1 DEF TopRec
  <2>2. CASE u.status[p] # t.status[p]
    BY <2>1, <2>2 DEF Served
  <2>3. CASE u.status[p] = t.status[p]
    BY <2>3 DEF Served, TopOk, PinsListed
  <2> QED BY <2>2, <2>3
<1>3. QueuedOnce(u)
  <2>1. Rest(u.queue, t.queue)
    BY DEF Served
  <2>2. PICK j \in 0 .. Len(t.queue) :
           /\ Len(u.queue) = Len(t.queue) - j
           /\ \A i \in 1 .. Len(u.queue) : u.queue[i] = t.queue[i + j]
    BY <1>1, <2>1, RestShifts
  <2>3. Len(t.queue) \in Nat /\ Len(u.queue) \in Nat
    BY <1>1, <2>1, RestShifts
  <2>4. \A i \in 1 .. Len(u.queue) : i + j \in 1 .. Len(t.queue)
    <3>1. Len(u.queue) = Len(t.queue) - j
      BY <2>2
    <3> QED BY <2>3, <3>1
  <2> SUFFICES ASSUME NEW i \in 1 .. Len(u.queue), NEW k \in 1 .. Len(u.queue),
                      u.queue[i] = u.queue[k]
               PROVE  i = k
    BY DEF QueuedOnce
  <2>5. t.queue[i + j] = t.queue[k + j]
    BY <2>2
  <2>6. i + j = k + j
    BY <2>4, <2>5 DEF TopOk, QueuedOnce
  <2> QED BY <2>3, <2>6
<1>4. Vouched(u, ok, pay)
  <2>1. Queued(u) \subseteq Queued(t)
    BY <1>1, RestQueued DEF Served
  <2>2. \A p \in Queued(u) : PaidFor(p, pay)
    BY <2>1 DEF TopOk, Vouched
  <2>3. \A p \in Product : u.status[p] = "published" => p \in ok \/ PaidFor(p, pay)
    BY DEF TopOk, Vouched, Served
  <2> QED BY <2>2, <2>3 DEF Vouched
<1> QED BY <1>1, <1>2, <1>3, <1>4 DEF TopOk

LEMMA UnpinnedOk ==
    ASSUME NEW t, NEW ok, NEW pay, TopOk(t, ok, pay), NEW S \in SUBSET Product
    PROVE  TopOk(Unpinned(t, S), ok, pay)
<1> DEFINE u == Unpinned(t, S)
<1>1. t \in TopRec
  BY DEF TopOk
<1>2. /\ u \in TopRec /\ u.status = t.status /\ u.pinned = t.pinned \ S /\ u.queue = t.queue
  BY <1>1, UnpinnedFields
<1> HIDE DEF u
<1>3. IsFiniteSet(u.pinned)
  <2>1. u.pinned \subseteq t.pinned /\ IsFiniteSet(t.pinned)
    BY <1>2 DEF TopOk
  <2> QED BY <2>1, FS_Subset
<1>4. PinsListed(u) /\ QueuedOnce(u) /\ Vouched(u, ok, pay)
  BY <1>2 DEF TopOk, PinsListed, QueuedOnce, Vouched, Queued
<1> QED BY <1>2, <1>3, <1>4 DEF TopOk, u

\* A change of one status: what is pinned may be published or archived, and what
\* is published must be vouched for.
LEMMA StatusOk ==
    ASSUME NEW t, NEW ok, NEW pay, TopOk(t, ok, pay), NEW p \in Product,
           NEW st \in ListingStatus, NEW new,
           p \in t.pinned => st \in {"published", "archived"},
           st = "published" => p \in new \/ PaidFor(p, pay),
           ok \ {p} \subseteq new
    PROVE  LET u == [t EXCEPT !.status[p] = st] IN
           TopOk(u, new, pay) /\ u.pinned = t.pinned /\ u.queue = t.queue /\ u.weeks = t.weeks
<1> DEFINE u == [t EXCEPT !.status[p] = st]
<1>1. t \in TopRec /\ IsFiniteSet(t.pinned)
  BY DEF TopOk
<1>2. u \in TopRec /\ u.pinned = t.pinned /\ u.queue = t.queue /\ u.weeks = t.weeks
      /\ u.status = [t.status EXCEPT ![p] = st]
  BY <1>1 DEF TopRec
<1> HIDE DEF u
<1>3. \A q \in Product : u.status[q] = IF q = p THEN st ELSE t.status[q]
  BY <1>1, <1>2 DEF TopRec
<1>4. u.pinned \subseteq Product
  BY <1>2 DEF TopRec
<1>5. PinsListed(u)
  BY <1>2, <1>3, <1>4 DEF TopOk, PinsListed
<1>6. QueuedOnce(u)
  BY <1>2 DEF TopOk, QueuedOnce
<1>7. Vouched(u, new, pay)
  <2>1. \A q \in Queued(u) : PaidFor(q, pay)
    BY <1>2 DEF TopOk, Vouched, Queued
  <2>2. ASSUME NEW q \in Product, u.status[q] = "published"
        PROVE  q \in new \/ PaidFor(q, pay)
    <3>1. CASE q = p
      BY <1>3, <2>2, <3>1
    <3>2. CASE q # p
      <4>1. t.status[q] = "published"
        BY <1>3, <2>2, <3>2
      <4>2. q \in ok \/ PaidFor(q, pay)
        BY <4>1 DEF TopOk, Vouched
      <4> QED BY <3>2, <4>2
    <3> QED BY <3>1, <3>2
  <2> QED BY <2>1, <2>2 DEF Vouched
<1> QED BY <1>1, <1>2, <1>5, <1>6, <1>7 DEF TopOk, u

\* The order of taking off the pin and of setting the status does not matter.
LEMMA UnpinThenStatus ==
    ASSUME NEW t \in TopRec, NEW p \in Product, NEW st \in ListingStatus
    PROVE  /\ Unpinned([t EXCEPT !.status[p] = st], {p}) = [Unpinned(t, {p}) EXCEPT !.status[p] = st]
           /\ p \notin Unpinned(t, {p}).pinned
           /\ Unpinned(t, {p}).queue = t.queue
           /\ InTop(Unpinned(t, {p})) \subseteq InTop(t)
<1>1. [t EXCEPT !.status[p] = st] \in TopRec
  BY DEF TopRec
<1>2. Unpinned([t EXCEPT !.status[p] = st], {p}) = [Unpinned(t, {p}) EXCEPT !.status[p] = st]
  BY <1>1 DEF Unpinned, TopRec
<1>3. {p} \in SUBSET Product
  OBVIOUS
<1>4. /\ Unpinned(t, {p}).pinned = t.pinned \ {p}
      /\ Unpinned(t, {p}).weeks = [q \in Product |-> IF q \in {p} THEN 0 ELSE t.weeks[q]]
      /\ Unpinned(t, {p}).queue = t.queue
  BY <1>3, UnpinnedFields
<1>5. t.pinned \subseteq Product
  BY DEF TopRec
<1>6. \A q \in Unpinned(t, {p}).pinned : Unpinned(t, {p}).weeks[q] = t.weeks[q]
  BY <1>4, <1>5
<1>7. InTop(Unpinned(t, {p})) \subseteq InTop(t)
  BY <1>4, <1>6 DEF InTop
<1> QED BY <1>2, <1>4, <1>7

\* The same record with more settled payments, or more approvals.
LEMMA PaidMoreOk ==
    ASSUME NEW t, NEW ok, NEW pay, NEW new, TopOk(t, ok, pay),
           \A p \in Product : PaidFor(p, pay) => PaidFor(p, new)
    PROVE  TopOk(t, ok, new)
<1>1. t \in TopRec
  BY DEF TopOk
<1>2. Queued(t) \subseteq Product
  BY <1>1, QueuedMembers
<1> QED BY <1>2 DEF TopOk, Vouched

(***************************************************************************)
(* Listings: a payment for TOP settles                                     *)
(***************************************************************************)

\* What a settlement for p does to t: p has its week, nobody else loses theirs.
Delivered(t, u, p) ==
    /\ p \in InTop(u) \cup Queued(u)
    /\ InTop(t) \subseteq InTop(u)
    /\ Queued(t) \subseteq Queued(u) /\ Queued(u) \subseteq Queued(t) \cup {p}

\* p is on TOP for a paid week at least, published, and nothing else changes.
LEMMA OnTop ==
    ASSUME NEW t, NEW u, NEW ok, NEW pay, TopOk(t, ok, pay), NEW p \in Product, PaidFor(p, pay),
           u \in TopRec, u.status = [t.status EXCEPT ![p] = "published"],
           u.pinned = t.pinned \cup {p},
           \A q \in Product : q # p => u.weeks[q] = t.weeks[q],
           u.weeks[p] > 0, u.queue = t.queue
    PROVE  TopOk(u, ok, pay) /\ Delivered(t, u, p)
<1>1. t \in TopRec /\ IsFiniteSet(t.pinned)
  BY DEF TopOk
<1>2. \A q \in Product : u.status[q] = IF q = p THEN "published" ELSE t.status[q]
  BY <1>1 DEF TopRec
<1>3. IsFiniteSet(u.pinned)
  BY <1>1, FS_AddElement
<1>4. PinsListed(u)
  <2>1. u.pinned \subseteq Product
    BY DEF TopRec
  <2> QED BY <1>2, <2>1 DEF TopOk, PinsListed
<1>5. QueuedOnce(u)
  BY DEF TopOk, QueuedOnce
<1>6. Vouched(u, ok, pay)
  BY <1>2 DEF TopOk, Vouched, Queued
<1>7. Queued(u) = Queued(t)
  BY DEF Queued
<1>8. InTop(t) \subseteq InTop(u) /\ p \in InTop(u)
  <2>1. t.pinned \subseteq Product
    BY <1>1 DEF TopRec
  <2>2. p \in InTop(u)
    BY DEF InTop
  <2>3. ASSUME NEW q \in InTop(t) PROVE q \in InTop(u)
    <3>1. CASE q = p
      BY <2>2, <3>1
    <3>2. CASE q # p
      BY <2>1, <3>2 DEF InTop
    <3> QED BY <3>1, <3>2
  <2> QED BY <2>2, <2>3
<1> QED BY <1>3, <1>4, <1>5, <1>6, <1>7, <1>8 DEF TopOk, Delivered

LEMMA ExtendDelivers ==
    ASSUME NEW t, NEW ok, NEW pay, TopOk(t, ok, pay), NEW p \in Product, PaidFor(p, pay)
    PROVE  TopOk(Extend(t, p), ok, pay) /\ Delivered(t, Extend(t, p), p)
<1> DEFINE u == Extend(t, p)
           w == (IF p \in t.pinned THEN t.weeks[p] ELSE 0) + 1
<1>1. t \in TopRec
  BY DEF TopOk
<1>2. w \in Nat /\ w > 0
  <2>1. t.weeks[p] \in Nat
    BY <1>1 DEF TopRec
  <2> QED BY <2>1
<1>3. u = [t EXCEPT !.pinned = @ \cup {p}, !.weeks[p] = w, !.status[p] = "published",
                    !.active = @ \cup {p}]
  BY <1>1 DEF Extend, TopRec
<1> HIDE DEF u, w
<1>4. /\ u \in TopRec
      /\ u.status = [t.status EXCEPT ![p] = "published"]
      /\ u.pinned = t.pinned \cup {p} /\ u.weeks = [t.weeks EXCEPT ![p] = w]
      /\ u.queue = t.queue
  BY <1>1, <1>2, <1>3 DEF TopRec, ListingStatus
<1>5. u.weeks[p] > 0 /\ \A q \in Product : q # p => u.weeks[q] = t.weeks[q]
  BY <1>1, <1>2, <1>4 DEF TopRec
<1>6. TopOk(u, ok, pay) /\ Delivered(t, u, p)
  BY <1>4, <1>5, OnTop
<1> QED BY <1>6 DEF u

\* A sequence without its i-th element.
LEMMA RemovedAt ==
    ASSUME NEW S, NEW ps \in Seq(S), NEW i \in 1 .. Len(ps)
    PROVE  /\ RemoveAt(ps, i) \in Seq(S) /\ Len(RemoveAt(ps, i)) = Len(ps) - 1
           /\ \A j \in 1 .. Len(ps) - 1 :
                 RemoveAt(ps, i)[j] = IF j < i THEN ps[j] ELSE ps[j + 1]
<1> DEFINE a == SubSeq(ps, 1, i - 1)
           b == SubSeq(ps, i + 1, Len(ps))
<1>1. Len(ps) \in Nat /\ i \in Nat /\ 1 <= i /\ i <= Len(ps)
  OBVIOUS
<1>2. a \in Seq(S) /\ Len(a) = i - 1 /\ \A j \in 1 .. i - 1 : a[j] = ps[j]
  <2>1. \A j \in 1 .. i - 1 : j \in 1 .. Len(ps)
    BY <1>1
  <2> QED BY <1>1, <2>1
<1>3. b \in Seq(S) /\ Len(b) = Len(ps) - i /\ \A j \in 1 .. Len(ps) - i : b[j] = ps[j + i]
  <2>1. \A j \in i + 1 .. Len(ps) : j \in 1 .. Len(ps)
    BY <1>1
  <2> QED BY <1>1, <2>1
<1>4. RemoveAt(ps, i) = a \o b
  BY DEF RemoveAt
<1> HIDE DEF a, b
<1>5. a \o b \in Seq(S) /\ Len(a \o b) = Len(ps) - 1
  <2>1. Len(a \o b) = Len(a) + Len(b) /\ a \o b \in Seq(S)
    BY <1>2, <1>3, ConcatProperties
  <2> QED BY <1>1, <1>2, <1>3, <2>1
<1>6. ASSUME NEW j \in 1 .. Len(ps) - 1
      PROVE  (a \o b)[j] = IF j < i THEN ps[j] ELSE ps[j + 1]
  <2>1. CASE j < i
    BY <1>1, <1>2, <1>3, <2>1
  <2>2. CASE ~(j < i)
    <3>1. (a \o b)[j] = b[j - (i - 1)] /\ j - (i - 1) \in 1 .. Len(ps) - i
      BY <1>1, <1>2, <1>3, <2>2
    <3> QED BY <1>1, <1>3, <2>2, <3>1
  <2> QED BY <2>1, <2>2
<1> QED BY <1>4, <1>5, <1>6

\* A record whose queue is another order of the same products, or has p too.
LEMMA RequeueOk ==
    ASSUME NEW t, NEW ok, NEW pay, TopOk(t, ok, pay), NEW p \in Product, PaidFor(p, pay),
           NEW s \in Seq(Product),
           \A i, j \in 1 .. Len(s) : s[i] = s[j] => i = j,
           {s[i] : i \in 1 .. Len(s)} = Queued(t) \cup {p}
    PROVE  LET u == [t EXCEPT !.queue = s] IN
           TopOk(u, ok, pay) /\ Delivered(t, u, p) /\ InTop(u) = InTop(t)
<1> DEFINE u == [t EXCEPT !.queue = s]
<1>1. t \in TopRec /\ IsFiniteSet(t.pinned)
  BY DEF TopOk
<1>2. /\ u \in TopRec /\ u.queue = s /\ u.status = t.status /\ u.pinned = t.pinned
      /\ u.weeks = t.weeks
  BY <1>1 DEF TopRec
<1> HIDE DEF u
<1>3. Queued(u) = Queued(t) \cup {p}
  <2>1. Queued(u) = {u.queue[i] : i \in 1 .. Len(u.queue)}
    BY <1>2, QueuedMembers
  <2> QED BY <1>2, <2>1
<1>4. InTop(u) = InTop(t)
  BY <1>2 DEF InTop
<1>5. PinsListed(u) /\ QueuedOnce(u)
  BY <1>2 DEF TopOk, PinsListed, QueuedOnce
<1>6. Vouched(u, ok, pay)
  BY <1>2, <1>3 DEF TopOk, Vouched
<1> QED BY <1>1, <1>2, <1>3, <1>4, <1>5, <1>6 DEF TopOk, Delivered, u

LEMMA EnteredDelivers ==
    ASSUME NEW t, NEW ok, NEW pay, TopOk(t, ok, pay), NEW p \in Product, PaidFor(p, pay),
           p \notin Queued(t)
    PROVE  TopOk(Entered(t, p), ok, pay) /\ Delivered(t, Entered(t, p), p)
<1>1. t \in TopRec
  BY DEF TopOk
<1>2. CASE SlotFree(t)
  <2> DEFINE u == Activate(t, p)
  <2>1. /\ u \in TopRec
        /\ u.status = [t.status EXCEPT ![p] = "published"]
        /\ u.pinned = t.pinned \cup {p} /\ u.weeks = [t.weeks EXCEPT ![p] = 1]
        /\ u.queue = t.queue
    BY <1>1, ActivateFields
  <2> HIDE DEF u
  <2>2. u.weeks[p] = 1 /\ \A q \in Product : q # p => u.weeks[q] = t.weeks[q]
    BY <1>1, <2>1 DEF TopRec
  <2>3. u.weeks[p] > 0
    BY <2>2
  <2>4. TopOk(u, ok, pay) /\ Delivered(t, u, p)
    BY <2>1, <2>2, <2>3, OnTop
  <2> QED BY <1>2, <2>4 DEF Entered, u
<1>3. CASE ~SlotFree(t)
  <2> DEFINE q == t.queue
             s == Append(q, p)
  <2>1. q \in Seq(Product) /\ Len(q) \in Nat
    BY <1>1 DEF TopRec
  <2>2. Queued(t) = {q[i] : i \in 1 .. Len(q)}
    BY <1>1, QueuedMembers
  <2>3. \A i, j \in 1 .. Len(q) : q[i] = q[j] => i = j
    BY DEF TopOk, QueuedOnce
  <2>4. Entered(t, p) = [t EXCEPT !.queue = s]
    BY <1>1, <1>3 DEF Entered, TopRec
  <2> HIDE DEF q
  <2>5. /\ s \in Seq(Product) /\ Len(s) = Len(q) + 1
        /\ \A i \in 1 .. Len(q) : s[i] = q[i]
        /\ s[Len(q) + 1] = p
    BY <2>1, AppendProperties
  <2> HIDE DEF s
  <2>6. \A i \in 1 .. Len(s) : i \in 1 .. Len(q) \/ i = Len(q) + 1
    BY <2>1, <2>5
  <2>7. \A i \in 1 .. Len(q) : i \in 1 .. Len(s) /\ q[i] \in Queued(t) /\ q[i] # p
    BY <2>1, <2>2, <2>5
  <2>8. Len(q) + 1 \in 1 .. Len(s)
    BY <2>1, <2>5
  <2>9. {s[i] : i \in 1 .. Len(s)} = Queued(t) \cup {p}
    BY <2>2, <2>5, <2>6, <2>7, <2>8
  <2>10. \A i, j \in 1 .. Len(s) : s[i] = s[j] => i = j
    BY <2>3, <2>5, <2>6, <2>7
  <2> QED BY <2>4, <2>5, <2>9, <2>10, RequeueOk
<1> QED BY <1>2, <1>3

LEMMA RequeuedDelivers ==
    ASSUME NEW t, NEW ok, NEW pay, TopOk(t, ok, pay), NEW p \in Product, PaidFor(p, pay),
           p \in Queued(t), ~SlotFree(t)
    PROVE  TopOk(Requeued(t, p), ok, pay) /\ Delivered(t, Requeued(t, p), p)
<1>1. t \in TopRec
  BY DEF TopOk
<1> DEFINE q == t.queue
           at == CHOOSE i \in DOMAIN q : q[i] = p
           r == RemoveAt(q, at)
           s == Append(r, p)
           u == [t EXCEPT !.queue = s]
<1>2. q \in Seq(Product) /\ Len(q) \in Nat /\ DOMAIN q = 1 .. Len(q)
  BY <1>1, LenProperties DEF TopRec
<1>3. Queued(t) = {q[i] : i \in 1 .. Len(q)}
  BY <1>1, QueuedMembers
<1>4. \A i, j \in 1 .. Len(q) : q[i] = q[j] => i = j
  BY DEF TopOk, QueuedOnce
<1>5. Requeued(t, p) = Promoted(u)
  <2>1. u = [t EXCEPT !.queue = Append(RemoveAt(@, at), p)]
    BY <1>1 DEF TopRec
  <2> QED BY <2>1 DEF Requeued
<1> HIDE DEF q
<1>6. at \in 1 .. Len(q) /\ q[at] = p
  BY <1>2, <1>3
<1> HIDE DEF at
<1>7. /\ r \in Seq(Product) /\ Len(r) = Len(q) - 1
      /\ \A j \in 1 .. Len(q) - 1 : r[j] = IF j < at THEN q[j] ELSE q[j + 1]
  BY <1>2, <1>6, RemovedAt
<1> HIDE DEF r
<1>8. /\ s \in Seq(Product) /\ Len(s) = Len(q)
      /\ \A j \in 1 .. Len(q) - 1 : s[j] = r[j]
      /\ s[Len(q)] = p
  <2>1. Len(r) \in Nat /\ Len(r) + 1 = Len(q)
    BY <1>2, <1>6, <1>7
  <2>2. s \in Seq(Product) /\ Len(s) = Len(r) + 1
        /\ (\A j \in 1 .. Len(r) : s[j] = r[j]) /\ s[Len(r) + 1] = p
    BY <1>7, AppendProperties
  <2> QED BY <1>7, <2>1, <2>2
<1> HIDE DEF s, u
<1> DEFINE n == Len(q)
           old(j) == IF j = n THEN at ELSE IF j < at THEN j ELSE j + 1
<1>9. /\ n \in Nat /\ at \in 1..n /\ 1 <= at /\ at <= n
      /\ Len(s) = n /\ s[n] = q[at]
      /\ \A j \in 1 .. n - 1 : s[j] = IF j < at THEN q[j] ELSE q[j + 1]
      /\ \A i, j \in 1..n : q[i] = q[j] => i = j
      /\ Queued(t) = {q[i] : i \in 1..n}
  BY <1>2, <1>3, <1>4, <1>6, <1>7, <1>8
<1> HIDE DEF n
<1>10. \A j \in 1..n : old(j) \in 1..n /\ s[j] = q[old(j)]
  <2> TAKE j \in 1..n
  <2>1. CASE j = n
    BY <1>9, <2>1
  <2>2. CASE j # n
    <3>1. j \in 1 .. n - 1 /\ j \in Nat
      BY <1>9, <2>2
    <3>2. s[j] = IF j < at THEN q[j] ELSE q[j + 1]
      BY <1>9, <3>1
    <3>3. j + 1 \in 1..n
      BY <1>9, <3>1
    <3> QED BY <2>2, <3>2, <3>3
  <2> QED BY <2>1, <2>2
<1>11. \A i, j \in 1 .. Len(s) : s[i] = s[j] => i = j
  <2> SUFFICES ASSUME NEW i \in 1..n, NEW j \in 1..n, s[i] = s[j] PROVE i = j
    BY <1>9
  <2>1. old(i) = old(j)
    <3> HIDE DEF old
    <3>1. old(i) \in 1..n /\ old(j) \in 1..n /\ q[old(i)] = q[old(j)]
      BY <1>10
    <3>2. \A k, m \in 1..n : q[k] = q[m] => k = m
      BY <1>9
    <3> QED BY <3>1, <3>2
  <2>2. i \in Nat /\ j \in Nat /\ at \in Nat /\ i <= n /\ j <= n
    BY <1>9
  <2>3. CASE i = n
    BY <1>9, <2>1, <2>2, <2>3
  <2>4. CASE j = n
    BY <1>9, <2>1, <2>2, <2>4
  <2>5. CASE i # n /\ j # n
    BY <1>9, <2>1, <2>2, <2>5
  <2> QED BY <2>3, <2>4, <2>5
<1>12. {s[i] : i \in 1 .. Len(s)} = Queued(t) \cup {p}
  <2>1. \A j \in 1..n : s[j] \in Queued(t)
    BY <1>9, <1>10
  <2>2. ASSUME NEW k \in 1..n PROVE \E j \in 1..n : s[j] = q[k]
    <3>1. CASE k = at
      <4>1. n \in 1..n
        BY <1>9
      <4> QED BY <1>9, <3>1, <4>1
    <3>2. CASE k < at
      <4>1. k \in 1 .. n - 1
        BY <1>9, <3>2
      <4> QED BY <1>9, <3>2, <4>1
    <3>3. CASE k > at
      <4>1. k - 1 \in 1 .. n - 1 /\ k - 1 \in 1..n /\ ~(k - 1 < at) /\ (k - 1) + 1 = k
        BY <1>9, <3>3
      <4>2. s[k - 1] = q[k]
        BY <1>9, <4>1
      <4> QED BY <4>1, <4>2
    <3>4. k \in Nat /\ at \in Nat
      BY <1>9
    <3> QED BY <3>1, <3>2, <3>3, <3>4
  <2>3. \A x \in Queued(t) : \E j \in 1..n : s[j] = x
    <3> TAKE x \in Queued(t)
    <3>1. PICK k \in 1..n : x = q[k]
      BY <1>9
    <3> QED BY <2>2, <3>1
  <2>4. p \in Queued(t) /\ Len(s) = n
    BY <1>9
  <2> HIDE DEF old
  <2> QED BY <2>1, <2>3, <2>4
<1>13. TopOk(u, ok, pay) /\ Delivered(t, u, p) /\ InTop(u) = InTop(t)
  BY <1>8, <1>11, <1>12, RequeueOk DEF u
<1>14. Promoted(u) = u
  <2>1. u \in TopRec /\ ~SlotFree(u)
    BY <1>13 DEF TopOk, SlotFree
  <2> QED BY <2>1, PromotedIdle
<1> QED BY <1>5, <1>13, <1>14

\* activate_product_top_from_payment after its expiry: nobody waits while a slot
\* is free, so that a product that waits goes on waiting, at the back.
LEMMA BoughtDelivers ==
    ASSUME NEW t, NEW ok, NEW pay, TopOk(t, ok, pay), NEW p \in Product, PaidFor(p, pay),
           t.queue = << >> \/ ~SlotFree(t), NEW mode
    PROVE  TopOk(Bought(t, p, mode), ok, pay) /\ Delivered(t, Bought(t, p, mode), p)
<1>1. CASE mode = "extend" \/ p \in InTop(t) \cup t.active
  BY <1>1, ExtendDelivers DEF Bought
<1>2. CASE ~(mode = "extend" \/ p \in InTop(t) \cup t.active) /\ p \in Queued(t)
  <2>1. ~SlotFree(t)
    <3>1. t.queue # << >>
      <4>1. t \in TopRec
        BY DEF TopOk
      <4>2. Len(<< >>) = 0
        BY EmptySeq
      <4>3. Len(t.queue) # 0
        BY <1>2, <4>1, QueuedMembers
      <4> QED BY <4>2, <4>3
    <3> QED BY <3>1
  <2> QED BY <1>2, <2>1, RequeuedDelivers DEF Bought
<1>3. CASE ~(mode = "extend" \/ p \in InTop(t) \cup t.active) /\ p \notin Queued(t)
  BY <1>3, EnteredDelivers DEF Bought
<1> QED BY <1>1, <1>2, <1>3

(***************************************************************************)
(* Listings: every step                                                    *)
(***************************************************************************)

Settles(y) == topPay[y].status = "pending" /\ topPay'[y].status = "paid"

\* The three ways a step treats the queue and the slots.  It leaves the queue
\* alone, and puts nothing on TOP but a pin by hand, on a free slot or on a product
\* that was pinned; or it serves the queue, a pin taken off before; or the queue is
\* served and a payment settles.
LeavesQueue ==
    /\ top'.queue = top.queue
    /\ \/ InTop(top') \subseteq InTop(top)
       \/ Cardinality(InTop(top')) <= TopSlots
       \/ \E p \in top.pinned : InTop(top') = InTop(top) \cup {p}

ServesQueue ==
    \E b \in TopRec :
        /\ b.queue = top.queue /\ b.status = top.status /\ InTop(b) \subseteq InTop(top)
        /\ Served(b, top')

SettlesOne ==
    \E y \in TopPayment, e \in TopRec :
        Settles(y) /\ Served(top, e) /\ Delivered(e, top', topPay[y].product)

NoSettlement == \A y \in TopPayment : ~Settles(y)

ListingStep == (NoSettlement /\ (LeavesQueue \/ ServesQueue)) \/ SettlesOne

\* What a step that settles nothing has to show.
LEMMA QuietPay ==
    ASSUME PayTypes, UNCHANGED topPay
    PROVE  PayTypes' /\ NoSettlement
BY DEF PayTypes, NoSettlement, Settles, TopPay

LEMMA StrikesLess ==
    ASSUME strikes \in 0..(StrikeLimit - 1)
    PROVE  /\ (IF strikes > 0 THEN strikes - 1 ELSE 0) \in 0..(StrikeLimit - 1)
           /\ (IF strikes + 1 >= StrikeLimit THEN 0 ELSE strikes + 1) \in 0..(StrikeLimit - 1)
BY ListingAssumption DEF ListingAssumption

LEMMA CreateStep ==
    ASSUME ListingInv, NEW p \in Product, NEW st \in {"draft", "pending"}, CreateListing(p, st)
    PROVE  ListingInv' /\ ListingStep
<1>1. TopOk(top, approved, topPay) /\ st \in ListingStatus /\ top \in TopRec
  BY DEF ListingInv, ListingStatus, TopOk
<1>2. p \notin top.pinned
  BY <1>1 DEF TopOk, PinsListed, CreateListing
<1>3. /\ TopOk(top', approved, topPay)
      /\ top'.pinned = top.pinned /\ top'.queue = top.queue /\ top'.weeks = top.weeks
  <2> DEFINE u == [top EXCEPT !.status[p] = st]
  <2>1. TopOk(u, approved, topPay) /\ u.pinned = top.pinned /\ u.queue = top.queue
        /\ u.weeks = top.weeks
    BY <1>1, <1>2, StatusOk
  <2> QED BY <2>1 DEF CreateListing
<1>4. LeavesQueue
  BY <1>3 DEF LeavesQueue, InTop
<1> QED BY <1>3, <1>4, QuietPay DEF ListingInv, ListingStep, SellerTypes, CreateListing

\* A change of status that takes the pin off: edits that go to moderation,
\* rejections, and the archive of the admin.
LEMMA UnpinStatusOk ==
    ASSUME NEW ok, NEW new, NEW pay, TopOk(top, ok, pay), NEW p \in Product,
           NEW st \in ListingStatus \ {"published"}, ok \ {p} \subseteq new,
           top' = Unpinned([top EXCEPT !.status[p] = st], {p})
    PROVE  TopOk(top', new, pay) /\ LeavesQueue
<1> DEFINE b == Unpinned(top, {p})
           u == [b EXCEPT !.status[p] = st]
<1>1. top \in TopRec /\ {p} \in SUBSET Product
  BY DEF TopOk
<1>2. top' = u /\ p \notin b.pinned /\ b.queue = top.queue /\ InTop(b) \subseteq InTop(top)
  <2>1. st \in ListingStatus
    OBVIOUS
  <2>2. /\ Unpinned([top EXCEPT !.status[p] = st], {p}) = [Unpinned(top, {p}) EXCEPT !.status[p] = st]
        /\ p \notin Unpinned(top, {p}).pinned
        /\ Unpinned(top, {p}).queue = top.queue
        /\ InTop(Unpinned(top, {p})) \subseteq InTop(top)
    BY <1>1, <2>1, UnpinThenStatus
  <2> QED BY <2>2
<1>3. TopOk(b, ok, pay)
  BY <1>1, UnpinnedOk
<1> HIDE DEF b
<1>4. TopOk(u, new, pay) /\ u.pinned = b.pinned /\ u.queue = b.queue /\ u.weeks = b.weeks
  BY <1>2, <1>3, StatusOk
<1>5. InTop(u) = InTop(b)
  BY <1>4 DEF InTop
<1> QED BY <1>2, <1>4, <1>5 DEF LeavesQueue

LEMMA EditStep ==
    ASSUME ListingInv, NEW p \in Product, NEW content \in BOOLEAN,
           NEW asked \in {"same", "draft", "pending", "archived"},
           EditListing(p, content, asked)
    PROVE  ListingInv' /\ ListingStep
<1> DEFINE st == NewStatus(p, content, asked)
           set == asked # "same" \/ st # top.status[p]
           new == IF content THEN approved \ {p} ELSE approved
<1>1. TopOk(top, approved, topPay) /\ top \in TopRec /\ top.status[p] \in ListingStatus
  BY DEF ListingInv, TopOk, TopRec
<1>2. st \in ListingStatus
  BY <1>1 DEF NewStatus, ListingStatus
<1>3. st = "published" => ~content /\ top.status[p] = "published" /\ ~set
  BY DEF NewStatus
<1>4. ~set => st = top.status[p]
  OBVIOUS
<1>5. set => st \in {"pending", "draft", "archived"}
  BY DEF NewStatus
<1>6. /\ top' = IF set /\ st \in {"pending", "draft"}
                THEN Unpinned([top EXCEPT !.status[p] = st], {p})
                ELSE [top EXCEPT !.status[p] = st]
      /\ approved' = new /\ UNCHANGED <<strikes, restricted, topPay>>
  BY DEF EditListing
<1>7. approved \ {p} \subseteq new /\ new \subseteq approved
  OBVIOUS
<1> HIDE DEF st, set, new
<1>8. TopOk(top', new, topPay) /\ LeavesQueue
  <2>1. CASE set /\ st \in {"pending", "draft"}
    <3>1. st \in ListingStatus \ {"published"}
      BY <1>2, <2>1
    <3> QED BY <1>1, <1>6, <1>7, <2>1, <3>1, UnpinStatusOk
  <2>2. CASE ~(set /\ st \in {"pending", "draft"})
    <3> DEFINE u == [top EXCEPT !.status[p] = st]
    <3>1. p \in top.pinned => st \in {"published", "archived"}
      BY <1>1, <1>4, <1>5, <2>2 DEF TopOk, PinsListed
    <3>2. st = "published" => p \in new \/ PaidFor(p, topPay)
      <4> SUFFICES ASSUME st = "published" PROVE p \in new \/ PaidFor(p, topPay)
        OBVIOUS
      <4>1. p \in approved \/ PaidFor(p, topPay)
        BY <1>1, <1>3 DEF TopOk, Vouched
      <4>2. new = approved
        BY <1>3 DEF new
      <4> QED BY <4>1, <4>2
    <3>3. TopOk(u, new, topPay) /\ u.pinned = top.pinned /\ u.queue = top.queue
          /\ u.weeks = top.weeks
      BY <1>1, <1>2, <1>7, <3>1, <3>2, StatusOk
    <3>4. top' = u
      BY <1>6, <2>2
    <3> QED BY <3>3, <3>4 DEF LeavesQueue, InTop
  <2> QED BY <2>1, <2>2
<1>9. PayTypes' /\ NoSettlement
  BY <1>6, QuietPay DEF ListingInv
<1>10. SellerTypes'
  BY <1>6, <1>7 DEF ListingInv, SellerTypes
<1>11. TopOk(top', approved', topPay')
  BY <1>6, <1>8
<1> QED BY <1>8, <1>9, <1>10, <1>11 DEF ListingInv, ListingStep

LEMMA SellerArchiveStep ==
    ASSUME ListingInv, NEW p \in Product, SellerArchive(p)
    PROVE  ListingInv' /\ ListingStep
<1> DEFINE u == [top EXCEPT !.status[p] = "archived"]
<1>1. TopOk(top, approved, topPay) /\ "archived" \in ListingStatus
  BY DEF ListingInv, ListingStatus
<1>2. TopOk(u, approved, topPay) /\ u.pinned = top.pinned /\ u.queue = top.queue
      /\ u.weeks = top.weeks
  BY <1>1, StatusOk
<1>3. TopOk(top', approved', topPay') /\ LeavesQueue
  BY <1>2 DEF SellerArchive, LeavesQueue, InTop
<1> QED BY <1>3, QuietPay DEF ListingInv, ListingStep, SellerTypes, SellerArchive

LEMMA ApproveStep ==
    ASSUME ListingInv, NEW p \in Product, Approve(p)
    PROVE  ListingInv' /\ ListingStep
<1> DEFINE u == [top EXCEPT !.status[p] = "published"]
           new == approved \cup {p}
<1>1. TopOk(top, approved, topPay) /\ "published" \in ListingStatus
  BY DEF ListingInv, ListingStatus
<1>2. p \in new /\ approved \ {p} \subseteq new
  OBVIOUS
<1> HIDE DEF new
<1>3. TopOk(u, new, topPay) /\ u.pinned = top.pinned /\ u.queue = top.queue
      /\ u.weeks = top.weeks
  BY <1>1, <1>2, StatusOk
<1>4. TopOk(top', approved', topPay') /\ LeavesQueue
  BY <1>3 DEF Approve, LeavesQueue, InTop, new
<1>5. SellerTypes'
  BY StrikesLess DEF ListingInv, SellerTypes, Approve
<1> QED BY <1>4, <1>5, QuietPay DEF ListingInv, ListingStep, Approve

LEMMA RejectStep ==
    ASSUME ListingInv, NEW p \in Product, Reject(p)
    PROVE  ListingInv' /\ ListingStep
<1>1. TopOk(top, approved, topPay) /\ "rejected" \in ListingStatus \ {"published"}
      /\ approved \ {p} \subseteq approved
  BY DEF ListingInv, ListingStatus
<1>2. TopOk(top', approved, topPay) /\ LeavesQueue
  BY <1>1, UnpinStatusOk DEF Reject
<1>3. SellerTypes'
  BY StrikesLess DEF ListingInv, SellerTypes, Reject
<1>4. TopOk(top', approved', topPay')
  BY <1>2 DEF Reject
<1> QED BY <1>2, <1>3, <1>4, QuietPay DEF ListingInv, ListingStep, Reject

LEMMA AdminArchiveStep ==
    ASSUME ListingInv, NEW p \in Product, AdminArchive(p)
    PROVE  ListingInv' /\ ListingStep
<1>1. TopOk(top, approved, topPay) /\ "archived" \in ListingStatus \ {"published"}
      /\ approved \ {p} \subseteq approved
  BY DEF ListingInv, ListingStatus
<1>2. TopOk(top', approved, topPay) /\ LeavesQueue
  BY <1>1, UnpinStatusOk DEF AdminArchive
<1>3. TopOk(top', approved', topPay')
  BY <1>2 DEF AdminArchive
<1> QED BY <1>2, <1>3, QuietPay DEF ListingInv, ListingStep, SellerTypes, AdminArchive

LEMMA AdminPinStep ==
    ASSUME ListingInv, NEW p \in Product, AdminPin(p)
    PROVE  ListingInv' /\ ListingStep
<1> DEFINE u == [top EXCEPT !.pinned = @ \cup {p}, !.weeks[p] = 1]
<1>1. TopOk(top, approved, topPay) /\ top \in TopRec /\ IsFiniteSet(top.pinned)
      /\ top.status[p] = "published"
  BY DEF ListingInv, TopOk, AdminPin
<1>2. /\ u \in TopRec /\ u.status = top.status /\ u.queue = top.queue
      /\ u.pinned = top.pinned \cup {p} /\ u.weeks = [top.weeks EXCEPT ![p] = 1]
  BY <1>1 DEF TopRec
<1>3. top' = u
  BY DEF AdminPin
<1> HIDE DEF u
<1>4. IsFiniteSet(u.pinned)
  BY <1>1, <1>2, FS_AddElement
<1>5. PinsListed(u) /\ QueuedOnce(u) /\ Vouched(u, approved, topPay)
  BY <1>1, <1>2 DEF TopOk, PinsListed, QueuedOnce, Vouched, Queued
<1>6. InTop(u) = InTop(top) \cup {p}
  <2>1. \A q \in Product : u.weeks[q] = IF q = p THEN 1 ELSE top.weeks[q]
    BY <1>1, <1>2 DEF TopRec
  <2>2. top.pinned \subseteq Product /\ 1 > 0
    BY <1>1 DEF TopRec
  <2> QED BY <1>2, <2>1, <2>2 DEF InTop
<1>7. LeavesQueue
  <2>1. CASE p \in top.pinned
    BY <1>2, <1>3, <1>6, <2>1 DEF LeavesQueue
  <2>2. CASE SlotFree(top)
    <3>1. IsFiniteSet(InTop(top)) /\ Cardinality(InTop(top)) \in Nat
          /\ Cardinality(InTop(top)) < TopSlots
      BY <1>1, <2>2, InTopFinite DEF SlotFree
    <3>2. Cardinality(InTop(top) \cup {p}) = IF p \in InTop(top) THEN Cardinality(InTop(top))
                                             ELSE Cardinality(InTop(top)) + 1
      BY <3>1, FS_AddElement
    <3>3. Cardinality(InTop(u)) <= TopSlots
      BY <1>6, <3>1, <3>2, ListingAssumption DEF ListingAssumption
    <3> QED BY <1>2, <1>3, <3>3 DEF LeavesQueue
  <2> QED BY <2>1, <2>2 DEF AdminPin
<1>8. TopOk(top', approved', topPay')
  BY <1>2, <1>3, <1>4, <1>5 DEF TopOk, AdminPin
<1> QED BY <1>7, <1>8, QuietPay DEF ListingInv, ListingStep, SellerTypes, AdminPin

LEMMA AdminUnpinStep ==
    ASSUME ListingInv, NEW p \in Product, AdminUnpin(p)
    PROVE  ListingInv' /\ ListingStep
<1> DEFINE b == Unpinned(top, {p})
<1>1. TopOk(top, approved, topPay) /\ top \in TopRec /\ {p} \in SUBSET Product
  BY DEF ListingInv, TopOk
<1>2. TopOk(b, approved, topPay)
  BY <1>1, UnpinnedOk
<1>3. b.queue = top.queue /\ b.status = top.status /\ InTop(b) \subseteq InTop(top)
  <2>1. "draft" \in ListingStatus
    BY DEF ListingStatus
  <2> QED BY <1>1, <2>1, UnpinnedFields, UnpinThenStatus
<1>4. top' = Promoted(b)
  BY DEF AdminUnpin
<1> HIDE DEF b
<1>5. b \in TopRec /\ Served(b, top')
  BY <1>2, <1>4, PromotedServes DEF TopOk
<1>6. TopOk(top', approved', topPay')
  BY <1>2, <1>5, ServedOk DEF AdminUnpin
<1>7. ServesQueue
  BY <1>3, <1>5 DEF ServesQueue
<1> QED BY <1>6, <1>7, QuietPay DEF ListingInv, ListingStep, SellerTypes, AdminUnpin

LEMMA ExpiryOk ==
    ASSUME ListingInv
    PROVE  /\ Expired(top) \in TopRec /\ Served(top, Expired(top))
           /\ TopOk(Expired(top), approved, topPay)
           /\ Expired(top).queue = << >> \/ ~SlotFree(Expired(top))
<1>1. TopOk(top, approved, topPay) /\ top \in TopRec /\ IsFiniteSet(top.pinned)
  BY DEF ListingInv, TopOk
<1>2. Served(top, Expired(top))
      /\ (Expired(top).queue = << >> \/ ~SlotFree(Expired(top)))
  BY <1>1, ExpiredServes
<1>3. TopOk(Expired(top), approved, topPay)
  BY <1>1, <1>2, ServedOk
<1> QED BY <1>2, <1>3 DEF TopOk

LEMMA ExpireJobStep ==
    ASSUME ListingInv, ExpireJob
    PROVE  ListingInv' /\ ListingStep
<1>1. TopOk(top', approved', topPay') /\ Served(top, top') /\ top \in TopRec
  BY ExpiryOk DEF ExpireJob, ListingInv, TopOk
<1>2. ServesQueue
  BY <1>1 DEF ServesQueue
<1> QED BY <1>1, <1>2, QuietPay DEF ListingInv, ListingStep, SellerTypes, ExpireJob

LEMMA PrepareStep ==
    ASSUME ListingInv, NEW y \in TopPayment, NEW p \in Product, PrepareTop(y, p)
    PROVE  ListingInv' /\ ListingStep
<1>1. top' = Expired(top) /\ topPay[y].status = "absent" /\ UNCHANGED <<approved, strikes, restricted>>
  BY DEF PrepareTop
<1>2. PICK mode \in {"boost", "extend"} :
         topPay' = [topPay EXCEPT ![y] = [status |-> "pending", product |-> p, mode |-> mode]]
  <2>1. (IF p \in InTop(Expired(top)) \cup Expired(top).active THEN "extend" ELSE "boost")
           \in {"boost", "extend"}
    OBVIOUS
  <2> QED BY <2>1 DEF PrepareTop
<1>3. topPay \in [TopPayment -> TopPay] /\ PayTypes
  BY DEF ListingInv, PayTypes
<1>4. PayTypes'
  <2>1. [status |-> "pending", product |-> p, mode |-> mode] \in TopPay
    BY DEF TopPay
  <2>2. topPay' \in [TopPayment -> TopPay]
    BY <1>2, <1>3, <2>1
  <2>3. \A z \in TopPayment : topPay'[z].status # "absent" => topPay'[z].product \in Product
    BY <1>2, <1>3 DEF PayTypes
  <2> QED BY <2>2, <2>3 DEF PayTypes
<1>5. NoSettlement
  BY <1>2, <1>3 DEF NoSettlement, Settles
<1>6. \A q \in Product : PaidFor(q, topPay) => PaidFor(q, topPay')
  BY <1>1, <1>2, <1>3 DEF PaidFor
<1>7. TopOk(top', approved, topPay) /\ Served(top, top') /\ top \in TopRec
  BY <1>1, ExpiryOk DEF ListingInv, TopOk
<1>8. TopOk(top', approved', topPay')
  BY <1>1, <1>6, <1>7, PaidMoreOk
<1>9. ServesQueue
  BY <1>7 DEF ServesQueue
<1>10. SellerTypes'
  BY <1>1 DEF ListingInv, SellerTypes
<1> QED BY <1>4, <1>5, <1>8, <1>9, <1>10 DEF ListingInv, ListingStep

LEMMA SettleStep ==
    ASSUME ListingInv, NEW y \in TopPayment, SettleTop(y)
    PROVE  ListingInv' /\ ListingStep
<1> DEFINE p == topPay[y].product
           e == Expired(top)
<1>1. /\ topPay[y].status = "pending" /\ topPay' = [topPay EXCEPT ![y].status = "paid"]
      /\ top' = Bought(e, p, topPay[y].mode) /\ UNCHANGED <<approved, strikes, restricted>>
  BY DEF SettleTop
<1>2. topPay \in [TopPayment -> TopPay] /\ p \in Product
  BY <1>1 DEF ListingInv, PayTypes
<1>3. topPay[y] \in TopPay
  BY <1>2
<1>4. topPay' = [topPay EXCEPT ![y] = [topPay[y] EXCEPT !.status = "paid"]]
      /\ [topPay[y] EXCEPT !.status = "paid"] \in TopPay
      /\ [topPay[y] EXCEPT !.status = "paid"].status = "paid"
      /\ [topPay[y] EXCEPT !.status = "paid"].product = p
  BY <1>1, <1>2, <1>3 DEF TopPay
<1>5. PayTypes'
  <2>1. topPay' \in [TopPayment -> TopPay]
    BY <1>2, <1>4
  <2>2. \A z \in TopPayment : topPay'[z].status # "absent" => topPay'[z].product \in Product
    BY <1>2, <1>4 DEF ListingInv, PayTypes
  <2> QED BY <2>1, <2>2 DEF PayTypes
<1>6. Settles(y) /\ PaidFor(p, topPay')
  BY <1>1, <1>2, <1>4 DEF Settles, PaidFor
<1>7. \A q \in Product : PaidFor(q, topPay) => PaidFor(q, topPay')
  BY <1>1, <1>2, <1>4 DEF PaidFor
<1>8. /\ e \in TopRec /\ Served(top, e) /\ TopOk(e, approved, topPay)
      /\ e.queue = << >> \/ ~SlotFree(e)
  BY ExpiryOk
<1> HIDE DEF e, p
<1>9. TopOk(e, approved, topPay')
  BY <1>7, <1>8, PaidMoreOk
<1>10. TopOk(top', approved, topPay') /\ Delivered(e, top', p)
  BY <1>1, <1>2, <1>6, <1>8, <1>9, BoughtDelivers
<1>11. SettlesOne
  BY <1>6, <1>8, <1>10 DEF SettlesOne, p
<1>12. SellerTypes'
  BY <1>1 DEF ListingInv, SellerTypes
<1> QED BY <1>1, <1>5, <1>10, <1>11, <1>12 DEF ListingInv, ListingStep

\* What a settlement delivers, for the theorem about it.
LEMMA SettleDelivers ==
    ASSUME ListingInv, NEW y \in TopPayment, SettleTop(y), topPay[y].product \in Product
    PROVE  topPay[y].product \in InTop(top') \cup Queued(top')
<1> DEFINE p == topPay[y].product
           e == Expired(top)
           all == [topPay EXCEPT ![y].status = "paid"]
<1>1. top' = Bought(e, p, topPay[y].mode)
  BY DEF SettleTop
<1>2. topPay \in [TopPayment -> TopPay]
  BY DEF ListingInv, PayTypes
<1>3. PaidFor(p, all) /\ \A q \in Product : PaidFor(q, topPay) => PaidFor(q, all)
  <2>1. \A z \in TopPayment : all[z].product = topPay[z].product
          /\ (all[z].status = IF z = y THEN "paid" ELSE topPay[z].status)
    BY <1>2 DEF TopPay
  <2> HIDE DEF all
  <2> QED BY <2>1 DEF PaidFor
<1>4. TopOk(e, approved, topPay) /\ (e.queue = << >> \/ ~SlotFree(e))
  BY ExpiryOk
<1> HIDE DEF e, all
<1>5. TopOk(e, approved, all)
  BY <1>3, <1>4, PaidMoreOk
<1>6. Delivered(e, top', p)
  BY <1>1, <1>3, <1>4, <1>5, BoughtDelivers
<1> QED BY <1>6 DEF Delivered

LEMMA WeekStep ==
    ASSUME ListingInv, Week
    PROVE  ListingInv' /\ ListingStep
<1> DEFINE w == [p \in Product |-> IF top.weeks[p] > 0 THEN top.weeks[p] - 1 ELSE 0]
           u == [top EXCEPT !.weeks = w]
<1>1. TopOk(top, approved, topPay) /\ top \in TopRec /\ top.weeks \in [Product -> Nat]
  BY DEF ListingInv, TopOk, TopRec
<1>2. top' = u
  BY DEF Week
<1>3. w \in [Product -> Nat] /\ \A p \in Product : w[p] > 0 => top.weeks[p] > 0
  BY <1>1
<1> HIDE DEF w
<1>4. /\ u \in TopRec /\ u.status = top.status /\ u.pinned = top.pinned
      /\ u.queue = top.queue /\ u.weeks = w
  BY <1>1, <1>3 DEF TopRec
<1> HIDE DEF u
<1>5. InTop(u) \subseteq InTop(top)
  <2>1. u.pinned \subseteq Product
    BY <1>4 DEF TopRec
  <2> QED BY <1>3, <1>4, <2>1 DEF InTop
<1>6. TopOk(u, approved, topPay)
  BY <1>1, <1>4 DEF TopOk, PinsListed, QueuedOnce, Vouched, Queued
<1>7. TopOk(top', approved', topPay') /\ LeavesQueue
  BY <1>2, <1>4, <1>5, <1>6 DEF Week, LeavesQueue
<1> QED BY <1>7, QuietPay DEF ListingInv, ListingStep, SellerTypes, Week

LEMMA RestrictionStep ==
    ASSUME ListingInv, RestrictionEnds
    PROVE  ListingInv' /\ ListingStep
<1>1. TopOk(top', approved', topPay') /\ LeavesQueue
  BY DEF ListingInv, RestrictionEnds, LeavesQueue
<1> QED BY <1>1, QuietPay DEF ListingInv, ListingStep, SellerTypes, RestrictionEnds

LEMMA ListingInvInit == ListingInit => ListingInv
<1> SUFFICES ASSUME ListingInit PROVE ListingInv
  OBVIOUS
<1>1. top \in TopRec /\ top.queue = << >> /\ top.pinned = {}
      /\ \A p \in Product : top.status[p] = "absent"
  <2>1. << >> \in Seq(Product)
    BY EmptySeq
  <2> QED BY <2>1 DEF ListingInit, TopRec, ListingStatus
<1>2. Len(top.queue) = 0
  BY <1>1, EmptySeq
<1>3. Queued(top) = {}
  BY <1>1, <1>2, QueuedMembers
<1>4. TopOk(top, approved, topPay)
  <2>1. IsFiniteSet(top.pinned) /\ PinsListed(top)
    BY <1>1, FS_EmptySet DEF PinsListed
  <2>2. QueuedOnce(top)
    BY <1>2 DEF QueuedOnce
  <2>3. Vouched(top, approved, topPay)
    BY <1>1, <1>3 DEF Vouched
  <2> QED BY <1>1, <2>1, <2>2, <2>3 DEF TopOk
<1>5. PayTypes
  BY DEF ListingInit, PayTypes, TopPay
<1>6. SellerTypes
  <2>1. 0 \in 0..(StrikeLimit - 1)
    BY ListingAssumption DEF ListingAssumption
  <2> QED BY <2>1 DEF ListingInit, SellerTypes
<1> QED BY <1>4, <1>5, <1>6 DEF ListingInv

LEMMA ListingInvStep ==
    ListingInv /\ [ListingNext]_listingVars
        => ListingInv' /\ (ListingStep \/ UNCHANGED listingVars)
<1> SUFFICES ASSUME ListingInv, [ListingNext]_listingVars
             PROVE  ListingInv' /\ (ListingStep \/ UNCHANGED listingVars)
  OBVIOUS
<1>1. CASE UNCHANGED listingVars
  BY <1>1 DEF listingVars, ListingInv, PayTypes, SellerTypes
<1>2. CASE \E p \in Product, st \in {"draft", "pending"} : CreateListing(p, st)
  BY <1>2, CreateStep
<1>3. CASE \E p \in Product, content \in BOOLEAN,
              asked \in {"same", "draft", "pending", "archived"} : EditListing(p, content, asked)
  BY <1>3, EditStep
<1>4. CASE \E p \in Product : SellerArchive(p)
  BY <1>4, SellerArchiveStep
<1>5. CASE \E p \in Product : Approve(p)
  BY <1>5, ApproveStep
<1>6. CASE \E p \in Product : Reject(p)
  BY <1>6, RejectStep
<1>7. CASE RestrictionEnds
  BY <1>7, RestrictionStep
<1>8. CASE \E p \in Product : AdminArchive(p)
  BY <1>8, AdminArchiveStep
<1>9. CASE \E p \in Product : AdminPin(p)
  BY <1>9, AdminPinStep
<1>10. CASE \E p \in Product : AdminUnpin(p)
  BY <1>10, AdminUnpinStep
<1>11. CASE \E y \in TopPayment, p \in Product : PrepareTop(y, p)
  BY <1>11, PrepareStep
<1>12. CASE \E y \in TopPayment : SettleTop(y)
  BY <1>12, SettleStep
<1>13. CASE ExpireJob
  BY <1>13, ExpireJobStep
<1>14. CASE Week
  BY <1>14, WeekStep
<1> QED BY <1>1, <1>2, <1>3, <1>4, <1>5, <1>6, <1>7, <1>8, <1>9, <1>10, <1>11, <1>12,
           <1>13, <1>14 DEF ListingNext

(***************************************************************************)
(* Listings: the theorems                                                  *)
(***************************************************************************)

LEMMA ListingInvAlways == ListingSpec => []ListingInv
<1>1. ListingInv /\ [ListingNext]_listingVars => ListingInv'
  BY ListingInvStep
<1> QED BY <1>1, ListingInvInit, PTL DEF ListingSpec

\* The tables of the marketplace keep their types, and the seller is never at the
\* limit of strikes without the count being taken back (services/products.py).
THEOREM ListingsTyped == ListingSpec => []ListingTypeOK
<1>1. ListingInv => ListingTypeOK
  BY DEF ListingInv, TopOk, TopRec, PayTypes, TopPay, SellerTypes, ListingTypeOK
<1> QED BY <1>1, ListingInvAlways, PTL

\* What waits for moderation, was rejected or is a draft holds no TOP slot, for any
\* number of products, payments and slots: every path out of "published" but the
\* archive takes the pin off, and every path into TOP publishes (products.py).
THEOREM PinnedStaysListed == ListingSpec => []PinnedIsListed
<1>1. ListingInv => PinnedIsListed
  BY DEF ListingInv, TopOk, PinsListed, PinnedIsListed
<1> QED BY <1>1, ListingInvAlways, PTL

\* Nothing is published that neither an admin has approved as it is nor a settled
\* TOP payment has published: the paid slot is the only way around moderation.  Nor
\* does anything wait for a slot that was not paid for.
PublishedIsVouched ==
    \A p \in Product : top.status[p] = "published" \/ p \in Queued(top) =>
        \/ p \in approved /\ p \notin Queued(top)
        \/ \E y \in TopPayment : topPay[y].status = "paid" /\ topPay[y].product = p

\* Every published listing was approved or paid for, and whoever waits in the queue
\* has paid (product_moderation.py, activate_product_top_from_payment).
THEOREM PublishedStaysVouched == ListingSpec => []PublishedIsVouched
<1>1. ListingInv => PublishedIsVouched
  BY DEF ListingInv, TopOk, Vouched, PaidFor, PublishedIsVouched
<1> QED BY <1>1, ListingInvAlways, PTL

\* A paid week is on TOP or in the queue when its payment settles, for any number
\* of payments that settle in any order (activate_product_top_from_payment).
THEOREM PaidTopIsDelivered == ListingSpec => PaidTopDelivered
<1>1. ListingInv /\ [ListingNext]_listingVars =>
        \A y \in TopPayment : topPay[y].status = "pending" /\ topPay'[y].status = "paid"
                 => topPay[y].product \in InTop(top') \cup Queued(top')
  <2> SUFFICES ASSUME ListingInv, [ListingNext]_listingVars, NEW y \in TopPayment,
                      topPay[y].status = "pending", topPay'[y].status = "paid"
               PROVE  topPay[y].product \in InTop(top') \cup Queued(top')
    OBVIOUS
  <2>1. PICK z \in TopPayment : SettleTop(z)
    <3>1. topPay' # topPay
      OBVIOUS
    <3>2. ASSUME NEW z \in TopPayment, NEW p \in Product, PrepareTop(z, p) PROVE FALSE
      <4>1. topPay[z].status = "absent" /\ topPay \in [TopPayment -> TopPay]
        BY <3>2 DEF PrepareTop, ListingInv, PayTypes
      <4>2. PICK mode : topPay' = [topPay EXCEPT ![z] =
                                     [status |-> "pending", product |-> p, mode |-> mode]]
        BY <3>2 DEF PrepareTop
      <4> QED BY <4>1, <4>2
    <3> QED BY <3>1, <3>2 DEF ListingNext, CreateListing, EditListing, SellerArchive, Approve,
           Reject, RestrictionEnds, AdminArchive, AdminPin, AdminUnpin, ExpireJob, Week, Edit,
           listingVars
  <2>2. topPay \in [TopPayment -> TopPay]
    BY DEF ListingInv, PayTypes
  <2>3. z = y
    BY <2>1, <2>2 DEF SettleTop
  <2>4. topPay[y].product \in Product
    BY DEF ListingInv, PayTypes
  <2> QED BY <2>1, <2>3, <2>4, SettleDelivers
<1>2. ListingInv /\ [ListingNext]_listingVars =>
        [\A y \in TopPayment : topPay[y].status = "pending" /\ topPay'[y].status = "paid"
                 => topPay[y].product \in InTop(top') \cup Queued(top')]_listingVars
  BY <1>1
<1> QED BY <1>2, ListingInvAlways, PTL DEF ListingSpec, PaidTopDelivered

\* A product leaves the queue to be on TOP, or because it was archived: a paid week
\* that waits is not lost by whatever its seller, an admin or the clock does.
QueueKept ==
    [][\A p \in Queued(top) \ Queued(top') :
          p \in InTop(top') \/ top.status[p] = "archived"]_listingVars

\* Whoever leaves the queue has the week that was paid (promote_top_queue).
THEOREM QueueIsKept == ListingSpec => QueueKept
<1>1. ListingInv /\ [ListingNext]_listingVars =>
        [\A p \in Queued(top) \ Queued(top') :
            p \in InTop(top') \/ top.status[p] = "archived"]_listingVars
  <2> SUFFICES ASSUME ListingInv, ListingStep, NEW p \in Queued(top) \ Queued(top')
               PROVE  p \in InTop(top') \/ top.status[p] = "archived"
    BY ListingInvStep
  <2>1. CASE LeavesQueue
    BY <2>1 DEF LeavesQueue, Queued
  <2>2. CASE ServesQueue
    BY <2>2 DEF ServesQueue, Served, Queued
  <2>3. CASE SettlesOne
    <3>1. PICK y \in TopPayment, e \in TopRec :
             Served(top, e) /\ Delivered(e, top', topPay[y].product)
      BY <2>3 DEF SettlesOne
    <3>2. p \notin Queued(e)
      BY <3>1 DEF Delivered
    <3> QED BY <3>1, <3>2 DEF Served, Delivered
  <2> QED BY <2>1, <2>2, <2>3 DEF ListingStep
<1> QED BY <1>1, ListingInvAlways, PTL DEF ListingSpec, QueueKept

\* Nobody overtakes: while a product that waits goes on waiting, so does everyone
\* behind it, unless it was archived and a payment of its own settles anew.
NobodyOvertakes ==
    [][\A i, j \in 1 .. Len(top.queue) :
          i < j /\ top.queue[i] \in Queued(top') =>
              \/ top.queue[j] \in Queued(top')
              \/ \E y \in TopPayment : Settles(y) /\ topPay[y].product = top.queue[i]]_listingVars

\* What is left of a queue is its end.
LEMMA ServedInOrder ==
    ASSUME NEW t \in TopRec, NEW u \in TopRec, Rest(u.queue, t.queue), QueuedOnce(t),
           NEW i \in 1 .. Len(t.queue), NEW j \in 1 .. Len(t.queue), i < j,
           t.queue[i] \in Queued(u)
    PROVE  t.queue[j] \in Queued(u)
<1>1. Len(t.queue) \in Nat /\ Len(u.queue) \in Nat
  BY RestShifts
<1>2. PICK d \in 0 .. Len(t.queue) :
         /\ Len(u.queue) = Len(t.queue) - d
         /\ \A k \in 1 .. Len(u.queue) : u.queue[k] = t.queue[k + d]
  BY RestShifts
<1>3. PICK k \in 1 .. Len(u.queue) : u.queue[k] = t.queue[i]
  BY QueuedMembers
<1> DEFINE n == Len(t.queue)
           m == Len(u.queue)
<1>4. n \in Nat /\ m = n - d /\ d \in 0..n /\ i \in 1..n /\ j \in 1..n /\ k \in 1..m
  BY <1>1, <1>2, <1>3
<1> HIDE DEF n, m
<1>5. k + d \in 1..n
  BY <1>4
<1>6. t.queue[k + d] = t.queue[i]
  BY <1>2, <1>3
<1>7. k + d = i
  BY <1>4, <1>5, <1>6 DEF QueuedOnce, n
<1>8. j - d \in 1..m /\ (j - d) + d = j
  BY <1>4, <1>7
<1>9. u.queue[j - d] = t.queue[j]
  BY <1>2, <1>8 DEF m
<1> QED BY <1>8, <1>9, QueuedMembers DEF m

\* The queue is served in the order of payment (promote_top_queue).
THEOREM QueueInOrder == ListingSpec => NobodyOvertakes
<1>1. ListingInv /\ [ListingNext]_listingVars =>
        [\A i, j \in 1 .. Len(top.queue) :
          i < j /\ top.queue[i] \in Queued(top') =>
              \/ top.queue[j] \in Queued(top')
              \/ \E y \in TopPayment : Settles(y) /\ topPay[y].product = top.queue[i]]_listingVars
  <2> SUFFICES ASSUME ListingInv, ListingStep,
                      NEW i \in 1 .. Len(top.queue), NEW j \in 1 .. Len(top.queue),
                      i < j, top.queue[i] \in Queued(top'),
                      ~ \E y \in TopPayment : Settles(y) /\ topPay[y].product = top.queue[i]
               PROVE  top.queue[j] \in Queued(top')
    BY ListingInvStep
  <2>0. top \in TopRec /\ QueuedOnce(top)
    BY DEF ListingInv, TopOk
  <2>1. CASE LeavesQueue
    <3>1. Queued(top') = Queued(top)
      BY <2>1 DEF LeavesQueue, Queued
    <3> QED BY <2>0, <3>1, QueuedMembers
  <2>2. CASE ServesQueue
    <3>1. PICK b \in TopRec : b.queue = top.queue /\ Served(b, top')
      BY <2>2 DEF ServesQueue
    <3>2. top' \in TopRec /\ Rest(top'.queue, b.queue) /\ QueuedOnce(b)
      BY <2>0, <3>1 DEF Served, QueuedOnce
    <3> QED BY <3>1, <3>2, ServedInOrder
  <2>3. CASE SettlesOne
    <3>1. PICK y \in TopPayment, e \in TopRec :
             Settles(y) /\ Served(top, e) /\ Delivered(e, top', topPay[y].product)
      BY <2>3 DEF SettlesOne
    <3>2. top.queue[i] # topPay[y].product
      BY <3>1
    <3>3. top.queue[i] \in Queued(e)
      BY <3>1, <3>2 DEF Delivered
    <3>4. top.queue[j] \in Queued(e)
      BY <2>0, <3>1, <3>3, ServedInOrder DEF Served
    <3> QED BY <3>1, <3>4 DEF Delivered
  <2> QED BY <2>1, <2>2, <2>3 DEF ListingStep
<1> QED BY <1>1, ListingInvAlways, PTL DEF ListingSpec, NobodyOvertakes

\* Beyond the limit TOP grows by a settlement alone, which extends what was there,
\* or by a pin by hand of a product whose pin has run out and not been taken off.
SlotsKept ==
    [][\/ Cardinality(InTop(top')) <= TopSlots
       \/ InTop(top') \subseteq InTop(top)
       \/ \E y \in TopPayment : Settles(y)
       \/ \E p \in top.pinned : InTop(top') = InTop(top) \cup {p}]_listingVars

\* Serving the queue fills free slots only, whatever ran out or was taken off
\* (count_active_top_slots, promote_top_queue, expire_stale_top_pins).
THEOREM SlotsAreKept == ListingSpec => SlotsKept
<1>1. ListingInv /\ [ListingNext]_listingVars =>
        [\/ Cardinality(InTop(top')) <= TopSlots
         \/ InTop(top') \subseteq InTop(top)
         \/ \E y \in TopPayment : Settles(y)
         \/ \E p \in top.pinned : InTop(top') = InTop(top) \cup {p}]_listingVars
  <2> SUFFICES ASSUME ListingStep
               PROVE  \/ Cardinality(InTop(top')) <= TopSlots
                      \/ InTop(top') \subseteq InTop(top)
                      \/ \E y \in TopPayment : Settles(y)
                      \/ \E p \in top.pinned : InTop(top') = InTop(top) \cup {p}
    BY ListingInvStep
  <2>1. CASE LeavesQueue
    BY <2>1 DEF LeavesQueue
  <2>2. CASE ServesQueue
    BY <2>2 DEF ServesQueue, Served
  <2>3. CASE SettlesOne
    BY <2>3 DEF SettlesOne
  <2> QED BY <2>1, <2>2, <2>3 DEF ListingStep
<1> QED BY <1>1, ListingInvAlways, PTL DEF ListingSpec, SlotsKept

(***************************************************************************)
(* Connection: the inductive invariant                                     *)
(***************************************************************************)

\* Who is signed in is never left without a socket and without somebody to open it:
\* an attempt under way, a timer, or the probe that finds the network again.
NeverStranded ==
    /\ acct # NoAcct => ~closed
    /\ acct # NoAcct /\ chan = NoConn /\ trying = NoAcct /\ ~timer => ~online

\* What a client holds open the backend serves, for an account: its pings count.
HeldIsServed ==
    /\ \A k \in Held : stage[k] # "none"
    /\ \A k \in Conn : stage[k] # "none" => user[k] \in Account

ConnInv == ConnectionTypeOK /\ NeverStranded /\ HeldIsServed

LEMMA HeldInConn ==
    ASSUME ConnectionTypeOK
    PROVE  Held \subseteq Conn
BY DEF ConnectionTypeOK, Held

LEMMA ConnInvInit == ConnectionInit => ConnInv
  BY ConnectionAssumption
  DEF ConnectionInit, ConnInv, ConnectionTypeOK, NeverStranded, HeldIsServed, Held,
      ConnectionAssumption

\* Steps of the app that open and close nothing at the backend: what is held can only
\* become less.
LEMMA PhoneStep ==
    ASSUME ConnInv, UNCHANGED backend, UNCHANGED other, chan' \in {chan, NoConn},
           net' \in BOOLEAN, online' \in BOOLEAN, tokenOk' \in BOOLEAN,
           timer' \in BOOLEAN, closed' \in BOOLEAN,
           acct' \in Account \cup {NoAcct}, trying' \in Account \cup {NoAcct},
           NeverStranded'
    PROVE  ConnInv'
<1>1. ConnectionTypeOK'
  BY DEF ConnInv, ConnectionTypeOK, backend
<1>2. HeldIsServed'
  BY DEF ConnInv, HeldIsServed, Held, backend
<1> QED BY <1>1, <1>2 DEF ConnInv

LEMMA SignInStep == ASSUME ConnInv, NEW a \in Account, SignIn(a) PROVE ConnInv'
<1>1. NeverStranded'
  BY ConnectionAssumption DEF ConnInv, NeverStranded, SignIn, OpenSocket, ConnectionAssumption
<1> QED BY <1>1, PhoneStep DEF ConnInv, ConnectionTypeOK, SignIn, OpenSocket

LEMMA SwitchStep == ASSUME ConnInv, NEW a \in Account, SwitchAccount(a) PROVE ConnInv'
<1>1. NeverStranded'
  BY ConnectionAssumption
  DEF ConnInv, NeverStranded, SwitchAccount, OpenSocket, ConnectionAssumption
<1> QED BY <1>1, PhoneStep DEF ConnInv, ConnectionTypeOK, SwitchAccount, OpenSocket

LEMMA SignOutStep == ASSUME ConnInv, SignOut \/ SessionCleared PROVE ConnInv'
<1>1. NeverStranded'
  BY DEF NeverStranded, SignOut, SessionCleared
<1> QED BY <1>1, PhoneStep DEF ConnInv, ConnectionTypeOK, SignOut, SessionCleared

LEMMA TokenStep == ASSUME ConnInv, TokenExpires \/ ApiCallRefreshes PROVE ConnInv'
<1>1. NeverStranded'
  BY DEF ConnInv, NeverStranded, TokenExpires, ApiCallRefreshes
<1> QED BY <1>1, PhoneStep DEF ConnInv, ConnectionTypeOK, TokenExpires, ApiCallRefreshes

LEMMA OpenFailsStep == ASSUME ConnInv, OpenFails PROVE ConnInv'
<1>1. NeverStranded'
  BY DEF ConnInv, NeverStranded, OpenFails, Retry
<1> QED BY <1>1, PhoneStep DEF ConnInv, ConnectionTypeOK, OpenFails, Retry

LEMMA TimerStep == ASSUME ConnInv, TimerFires \/ Resumed PROVE ConnInv'
<1>1. NeverStranded'
  BY DEF ConnInv, NeverStranded, TimerFires, Resumed, OpenSocket
<1>2. trying' \in Account \cup {NoAcct} /\ timer' \in BOOLEAN
  BY DEF ConnInv, ConnectionTypeOK, TimerFires, Resumed, OpenSocket
<1> QED BY <1>1, <1>2, PhoneStep DEF ConnInv, ConnectionTypeOK, TimerFires, Resumed

LEMMA DropStep == ASSUME ConnInv, Drop PROVE ConnInv'
<1>1. NeverStranded'
  BY DEF ConnInv, NeverStranded, Drop, Retry
<1> QED BY <1>1, PhoneStep DEF ConnInv, ConnectionTypeOK, Drop, Retry

LEMMA NetStep == ASSUME ConnInv, NetChanges \/ ProbeFails PROVE ConnInv'
<1>1. NeverStranded'
  BY DEF ConnInv, NeverStranded, NetChanges, ProbeFails, phone
<1> QED BY <1>1, PhoneStep DEF ConnInv, ConnectionTypeOK, NetChanges, ProbeFails, phone

LEMMA ProbeStep == ASSUME ConnInv, ProbeSucceeds PROVE ConnInv'
<1>1. NeverStranded'
  BY DEF ConnInv, NeverStranded, ProbeSucceeds, OpenSocket
<1>2. trying' \in Account \cup {NoAcct} /\ timer' \in BOOLEAN /\ closed' \in BOOLEAN
  BY DEF ConnInv, ConnectionTypeOK, ProbeSucceeds, OpenSocket
<1> QED BY <1>1, <1>2, PhoneStep DEF ConnInv, ConnectionTypeOK, ProbeSucceeds

\* A connection is accepted: the app's own, or another device's.
LEMMA OpenSucceedsStep == ASSUME ConnInv, NEW k \in Conn, OpenSucceeds(k) PROVE ConnInv'
<1>1. trying \in Account
  BY DEF ConnInv, ConnectionTypeOK, OpenSucceeds
<1>2. ConnectionTypeOK'
  BY <1>1 DEF ConnInv, ConnectionTypeOK, OpenSucceeds
<1>3. NeverStranded'
  BY ConnectionAssumption DEF ConnInv, NeverStranded, OpenSucceeds, ConnectionAssumption
<1>4. HeldIsServed'
  BY <1>1 DEF ConnInv, ConnectionTypeOK, HeldIsServed, Held, OpenSucceeds
<1> QED BY <1>2, <1>3, <1>4 DEF ConnInv

LEMMA OtherConnectsStep ==
    ASSUME ConnInv, NEW a \in Account, NEW k \in Conn, OtherConnects(a, k)
    PROVE  ConnInv'
<1>1. ConnectionTypeOK' /\ NeverStranded'
  BY DEF ConnInv, ConnectionTypeOK, NeverStranded, OtherConnects, phone
<1>2. HeldIsServed'
  BY DEF ConnInv, ConnectionTypeOK, HeldIsServed, Held, OtherConnects, phone
<1> QED BY <1>1, <1>2 DEF ConnInv

LEMMA OtherLeavesStep == ASSUME ConnInv, NEW k \in Conn, OtherLeaves(k) PROVE ConnInv'
<1>1. ConnectionTypeOK' /\ NeverStranded'
  BY DEF ConnInv, ConnectionTypeOK, NeverStranded, OtherLeaves, phone, backend
<1>2. HeldIsServed'
  BY DEF ConnInv, HeldIsServed, Held, OtherLeaves, phone, backend
<1> QED BY <1>1, <1>2 DEF ConnInv

\* The backend: presence follows the connections it serves.
LEMMA ServeStep ==
    ASSUME ConnInv, NEW k \in Conn, SetOnline(k) \/ Ping(k) \/ SetOffline(k)
    PROVE  ConnInv'
<1>1. NeverStranded'
  BY DEF ConnInv, NeverStranded, SetOnline, Ping, SetOffline, phone
<1>2. user[k] \in Account
  BY DEF ConnInv, HeldIsServed, SetOnline, Ping, SetOffline
<1>3. ConnectionTypeOK'
  BY <1>2 DEF ConnInv, ConnectionTypeOK, SetOnline, Ping, SetOffline, phone
<1>4. HeldIsServed'
  BY DEF ConnInv, ConnectionTypeOK, HeldIsServed, Held, SetOnline, Ping, SetOffline, phone
<1> QED BY <1>1, <1>3, <1>4 DEF ConnInv

LEMMA KeyExpiresStep == ASSUME ConnInv, NEW a \in Account, KeyExpires(a) PROVE ConnInv'
BY DEF ConnInv, ConnectionTypeOK, NeverStranded, HeldIsServed, Held, KeyExpires, phone

LEMMA RestartStep == ASSUME ConnInv, Restart PROVE ConnInv'
<1>1. ConnectionTypeOK'
  BY DEF ConnInv, ConnectionTypeOK, Restart, Retry
<1>2. NeverStranded'
  BY DEF ConnInv, NeverStranded, Restart, Retry
<1>3. HeldIsServed'
  BY DEF ConnInv, HeldIsServed, Held, Restart
<1> QED BY <1>1, <1>2, <1>3 DEF ConnInv

LEMMA ConnInvStep == ConnInv /\ [ConnectionNext]_connVars => ConnInv'
<1> SUFFICES ASSUME ConnInv, [ConnectionNext]_connVars PROVE ConnInv'
  OBVIOUS
<1>1. CASE UNCHANGED connVars
  BY <1>1 DEF connVars, ConnInv, ConnectionTypeOK, NeverStranded, HeldIsServed, Held
<1>2. CASE \E a \in Account : SignIn(a) \/ SwitchAccount(a)
  BY <1>2, SignInStep, SwitchStep
<1>3. CASE SignOut \/ SessionCleared \/ TokenExpires \/ ApiCallRefreshes
  BY <1>3, SignOutStep, TokenStep
<1>4. CASE \E k \in Conn : OpenSucceeds(k)
  BY <1>4, OpenSucceedsStep
<1>5. CASE OpenFails \/ TimerFires \/ Resumed \/ Drop
  BY <1>5, OpenFailsStep, TimerStep, DropStep
<1>6. CASE NetChanges \/ ProbeFails \/ ProbeSucceeds
  BY <1>6, NetStep, ProbeStep
<1>7. CASE \E a \in Account, k \in Conn : OtherConnects(a, k)
  BY <1>7, OtherConnectsStep
<1>8. CASE \E k \in Conn : OtherLeaves(k)
  BY <1>8, OtherLeavesStep
<1>9. CASE \E k \in Conn : SetOnline(k) \/ Ping(k) \/ SetOffline(k)
  BY <1>9, ServeStep
<1>10. CASE Restart
  BY <1>10, RestartStep
<1>11. CASE \E a \in Account : KeyExpires(a)
  BY <1>11, KeyExpiresStep
<1> QED BY <1>1, <1>2, <1>3, <1>4, <1>5, <1>6, <1>7, <1>8, <1>9, <1>10, <1>11 DEF ConnectionNext

(***************************************************************************)
(* Connection: the theorems                                                *)
(***************************************************************************)

LEMMA ConnInvAlways == ConnectionSpec => []ConnInv
  BY ConnInvInit, ConnInvStep, PTL DEF ConnectionSpec

\* The connection and the presence keys keep their types (socket_service.dart,
\* ws/hub.py).
THEOREM ConnectionTyped == ConnectionSpec => []ConnectionTypeOK
  BY ConnInvAlways, PTL DEF ConnInv

\* Signed in without a socket, the app has an attempt under way, a timer, or a device
\* thought offline whose next probe opens one: whatever dropped, failed or was switched
\* meanwhile (socket_service.dart).  Reconnects adds to it the fairness of those.
THEOREM SocketNeverStranded == ConnectionSpec => []NeverStranded
  BY ConnInvAlways, PTL DEF ConnInv

\* Every connection a client holds is one the backend serves for an account, over
\* restarts and late closes: the part of PresenceFollows that is a safety property.
THEOREM HeldStaysServed == ConnectionSpec => []HeldIsServed
  BY ConnInvAlways, PTL DEF ConnInv
================================================================================
