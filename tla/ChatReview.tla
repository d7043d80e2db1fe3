------------------------------- MODULE ChatReview -------------------------------
(***************************************************************************)
(* How staff read a chat (services/chat_review.py): through a case of it,  *)
(* made by a report, by a search, or by the opening itself.  Opening puts  *)
(* an access of fifteen minutes into Redis, under the admin and the chat,  *)
(* before the database commits; every reading and export looks it up and   *)
(* leaves an audit entry in its own transaction.  Cases are loaded,        *)
(* changed and written without a lock; an admin waits for each answer.     *)
(***************************************************************************)
EXTENDS Naturals, FiniteSets

CONSTANTS Moderator, ReviewChat, Case, NoCase,
          AccessTtl,     \* ACCESS_TTL_SEC, in ticks
          MaxStaffCalls  \* bound: calls

ASSUME ChatReviewAssumption ==
    Case \subseteq Nat /\ NoCase \notin Case \cup ReviewChat /\ AccessTtl \in Nat \ {0}

VARIABLES
    cases,     \* chat_review_cases: chat, status, is a decision set
    access,    \* Redis: admin:chat_access:<admin>:<chat>, the case it names and its time left
    sCall,     \* the open call of each admin
    used,      \* case ids taken from the sequence
    lost,      \* history: those of transactions that were rolled back
    reads,     \* history: what was read: by whom, which chat, naming which case
    openings,  \* history: what was opened: by whom, which chat, for which case
    crossed,   \* history: cases that two overlapping calls changed
    staffCalls \* counter for the bound

chatReviewVars == <<cases, access, sCall, used, lost, reads, openings, crossed, staffCalls>>

NoCaseRow == [chat |-> NoCase, status |-> "none", decided |-> FALSE]
NoAccess == [case |-> NoCase, left |-> 0]
NoStaffCall == [op |-> "none", chat |-> NoCase, case |-> NoCase, was |-> "none", granted |-> FALSE]

ChatReviewInit ==
    /\ cases = [k \in Case |-> NoCaseRow]
    /\ access = [key \in Moderator \X (ReviewChat \cup {NoCase}) |-> NoAccess]
    /\ sCall = [s \in Moderator |-> NoStaffCall]
    /\ used = {} /\ lost = {} /\ reads = {} /\ openings = {} /\ crossed = {}
    /\ staffCalls = 0

\* Mutated form: an access is good for every chat.
KeyOfAdmin(s, ch) == <<s, NoCase>>

\* _access_key
AccessKey(s, ch) == <<s, ch>>

StaffCall(s, call) ==
    /\ sCall[s].op = "none" /\ staffCalls < MaxStaffCalls
    /\ sCall' = [sCall EXCEPT ![s] = call]
    /\ staffCalls' = staffCalls + 1

\* create_case, and opening without one: the next id.
FreshCase == {k \in Case \ used : \A j \in Case \ used : k <= j}

CreateCase(s, ch, k) ==
    /\ k \in FreshCase
    /\ StaffCall(s, [NoStaffCall EXCEPT !.op = "create", !.chat = ch, !.case = k])
    /\ used' = used \cup {k}
    /\ UNCHANGED <<cases, access, lost, reads, openings, crossed>>

\* open_chat_access with a case: it must be of this chat.
OpenCase(s, k) ==
    /\ cases[k].status # "none"
    /\ StaffCall(s, [NoStaffCall EXCEPT !.op = "open", !.chat = cases[k].chat, !.case = k,
                                        !.was = cases[k].status])
    /\ UNCHANGED <<cases, access, used, lost, reads, openings, crossed>>

\* Without one it makes its own, which stays under review.
OpenSearch(s, ch, k) ==
    /\ k \in FreshCase
    /\ StaffCall(s, [NoStaffCall EXCEPT !.op = "open", !.chat = ch, !.case = k])
    /\ used' = used \cup {k}
    /\ UNCHANGED <<cases, access, lost, reads, openings, crossed>>

\* grant_access writes to Redis; the transaction is still open.
Grant(s) ==
    LET c == sCall[s] IN
    /\ c.op = "open" /\ ~c.granted
    /\ access' = [access EXCEPT ![AccessKey(s, c.chat)] = [case |-> c.case, left |-> AccessTtl]]
    /\ openings' = openings \cup {<<s, c.chat, c.case>>}
    /\ sCall' = [sCall EXCEPT ![s].granted = TRUE]
    /\ UNCHANGED <<cases, used, lost, reads, crossed, staffCalls>>

\* decide_case, whatever the status.
DecideCase(s, k) ==
    /\ cases[k].status # "none"
    /\ StaffCall(s, [NoStaffCall EXCEPT !.op = "decide", !.chat = cases[k].chat, !.case = k,
                                        !.was = cases[k].status])
    /\ UNCHANGED <<cases, access, used, lost, reads, openings, crossed>>

\* require_access of list_messages_gated and export_chat_watermarked.
Read(s, ch) ==
    /\ access[AccessKey(s, ch)].left > 0
    /\ StaffCall(s, [NoStaffCall EXCEPT !.op = "read", !.chat = ch,
                                        !.case = access[AccessKey(s, ch)].case])
    /\ UNCHANGED <<cases, access, used, lost, reads, openings, crossed>>

CloseAccess(s, ch) ==
    /\ access[AccessKey(s, ch)].left > 0
    /\ StaffCall(s, [NoStaffCall EXCEPT !.op = "close", !.chat = ch])
    /\ access' = [access EXCEPT ![AccessKey(s, ch)] = NoAccess]
    /\ UNCHANGED <<cases, used, lost, reads, openings, crossed>>

\* The status a call writes: an opening moves only an open case on.
StatusTo(c) == IF c.op = "decide" THEN "decided"
               ELSE IF c.op = "create" THEN "open"
               ELSE IF c.was \in {"none", "open"} THEN "reviewing" ELSE c.was

StaffCommit(s) ==
    LET c == sCall[s] IN
    /\ c.op # "none" /\ (c.op = "open" => c.granted)
    /\ cases' = IF c.op \in {"read", "close"} THEN cases
                ELSE [cases EXCEPT ![c.case] =
                        [chat |-> c.chat,
                         status |-> IF c.was = StatusTo(c) THEN @.status ELSE StatusTo(c),
                         decided |-> @.decided \/ c.op = "decide"]]
    /\ reads' = IF c.op = "read" THEN reads \cup {<<s, c.chat, c.case>>} ELSE reads
    /\ crossed' = IF \E t \in Moderator \ {s} : sCall[t].op \in {"open", "decide"} /\ sCall[t].case = c.case
                  THEN crossed \cup {c.case} ELSE crossed
    /\ sCall' = [sCall EXCEPT ![s] = NoStaffCall]
    /\ UNCHANGED <<access, used, lost, openings, staffCalls>>

\* An error answer: the database is rolled back, Redis is not.
StaffFails(s) ==
    LET c == sCall[s] IN
    /\ c.op # "none"
    /\ lost' = IF c.op \in {"create", "open"} /\ cases[c.case].status = "none"
               THEN lost \cup {c.case} ELSE lost
    /\ sCall' = [sCall EXCEPT ![s] = NoStaffCall]
    /\ UNCHANGED <<cases, access, used, reads, openings, crossed, staffCalls>>

AccessTick ==
    /\ \E key \in DOMAIN access : access[key].left > 0
    /\ access' = [key \in DOMAIN access |->
                     IF access[key].left > 1 THEN [access[key] EXCEPT !.left = @ - 1] ELSE NoAccess]
    /\ UNCHANGED <<cases, sCall, used, lost, reads, openings, crossed, staffCalls>>

ChatReviewNext ==
    \/ \E s \in Moderator, ch \in ReviewChat, k \in Case : CreateCase(s, ch, k)
    \/ \E s \in Moderator, k \in Case : OpenCase(s, k)
    \/ \E s \in Moderator, ch \in ReviewChat, k \in Case : OpenSearch(s, ch, k)
    \/ \E s \in Moderator : Grant(s)
    \/ \E s \in Moderator, k \in Case : DecideCase(s, k)
    \/ \E s \in Moderator, ch \in ReviewChat : Read(s, ch)
    \/ \E s \in Moderator, ch \in ReviewChat : CloseAccess(s, ch)
    \/ \E s \in Moderator : StaffCommit(s)
    \/ \E s \in Moderator : StaffFails(s)
    \/ AccessTick

ChatReviewSpec == ChatReviewInit /\ [][ChatReviewNext]_chatReviewVars

(***************************************************************************)
(* Properties                                                              *)
(***************************************************************************)

\* Nobody reads a chat but for a case: a chat was read only by an admin who
\* opened that chat for the case the audit entry names, and that case is one of
\* the chat, unless the opening that made it was rolled back after Redis had its
\* access.  A case that no two calls changed at the same time says it is decided
\* exactly when a decision is set.
ReadForACase ==
    /\ reads \subseteq openings
    /\ \A r \in reads : r[3] \in lost \/ cases[r[3]].chat = r[2]
    /\ \A k \in Case \ crossed : cases[k].decided <=> cases[k].status = "decided"
================================================================================
