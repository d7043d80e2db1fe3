--------------------------------- MODULE Reviews ---------------------------------
(***************************************************************************)
(* The reviews of one business (services/business_reviews.py): an author   *)
(* writes or rewrites the one review they may have, moderators approve,    *)
(* reject, hide or bring back one or several, the business replies, and    *)
(* its rating and count are computed anew by the calls that may change     *)
(* what is shown.  Nothing is locked: a call loads its rows (and, with     *)
(* them, the business's two columns), flushes the columns that differ,     *)
(* computes over what is committed and its own changes, and commits.       *)
(***************************************************************************)
EXTENDS Naturals, FiniteSets, Functions

CONSTANTS Author, ReviewCall, Stars,
          MaxText,      \* bound: texts an author writes
          MaxModerated  \* bound: calls of moderators and replies

ASSUME ReviewsAssumption == Stars \subseteq 1..5 /\ Stars # {} /\ Author # {}

VARIABLES
    review,      \* per author: stars, text (its number, 0: no review), status, hidden, reply
    profile,       \* business_profiles.rating (times 100) and reviews_count
    rvCall,      \* open calls
    moderated,   \* counter for the bound
    passed,      \* history: the text a moderator last approved
    healed,      \* history: a call that overlapped no other computed the rating last
    sound        \* history: no overlapping call has written the review since it was last
                 \* written anew or rejected

reviewVars == <<review, profile, rvCall, moderated, passed, healed, sound>>

NoReview == [text |-> 0, stars |-> 0, status |-> "none", hidden |-> FALSE, reply |-> 0]
NoRvCall == [op |-> "none", on |-> {}, rows |-> [a \in Author |-> NoReview],
             biz |-> [rating |-> 0, count |-> 0], to |-> [rating |-> 0, count |-> 0],
             stars |-> 0, flushed |-> FALSE, alone |-> TRUE]

ReviewsInit ==
    /\ review = [a \in Author |-> NoReview]
    /\ profile = [rating |-> 0, count |-> 0]
    /\ rvCall = [c \in ReviewCall |-> NoRvCall]
    /\ moderated = 0
    /\ passed = [a \in Author |-> 0]
    /\ healed = TRUE
    /\ sound = [a \in Author |-> TRUE]

Visible(rows) == {a \in Author : rows[a].status = "approved" /\ ~rows[a].hidden}

\* The mean of some stars, times 100 and rounded; of none 0.
Mean(stars) ==
    LET n == Cardinality(DOMAIN stars) IN
    IF n = 0 THEN 0 ELSE (200 * FoldFunction(+, 0, stars) + n) \div (2 * n)

\* The two columns computed from the reviews that are shown; none: 0 and NULL.
RatingOf(rows) ==
    [rating |-> Mean([a \in Visible(rows) |-> rows[a].stars]),
     count |-> Cardinality(Visible(rows))]

\* A call that opens while others are open: none of them is alone.
RvLoad(c, op, on, stars) ==
    /\ rvCall[c].op = "none"
    /\ LET others == {d \in ReviewCall : rvCall[d].op # "none"} IN
       rvCall' = [d \in ReviewCall |->
          IF d = c
          THEN [op |-> op, on |-> on, stars |-> stars, flushed |-> FALSE, alone |-> others = {},
                rows |-> [a \in Author |-> IF a \in on THEN review[a] ELSE NoReview],
                biz |-> profile, to |-> profile]
          ELSE [rvCall[d] EXCEPT !.alone = FALSE]]
    /\ UNCHANGED <<review, profile, passed, healed, sound>>

\* upsert_review: the author's one review, whatever its status.  An author waits
\* for the answer (the form of the app) before writing again.
WriteReviewLoad(c, a, stars) ==
    /\ review[a].text < MaxText
    /\ \A d \in ReviewCall : ~(rvCall[d].op = "write" /\ a \in rvCall[d].on)
    /\ RvLoad(c, "write", {a}, stars)
    /\ UNCHANGED moderated

\* moderate_review, hide_review, and bulk_moderate of several.
ModerateLoad(c, op, on) ==
    /\ moderated < MaxModerated
    /\ on # {} /\ \A a \in on : review[a].text # 0
    /\ RvLoad(c, op, on, 0)
    /\ moderated' = moderated + 1

\* company_reply_to_review: to what is approved and not hidden.
CompanyReplyLoad(c, a) ==
    /\ moderated < MaxModerated
    /\ a \in Visible(review)
    /\ RvLoad(c, "reply", {a}, 0)
    /\ moderated' = moderated + 1

\* What each call sets on a row it loaded.
SetByCall(call, row) ==
    CASE call.op = "write"   -> [text |-> row.text + 1, stars |-> call.stars, status |-> "pending",
                                 hidden |-> FALSE, reply |-> 0]
      [] call.op = "approve" -> [row EXCEPT !.status = "approved", !.hidden = FALSE]
      [] call.op = "reject"  -> [row EXCEPT !.status = "rejected", !.reply = 0]
      [] call.op = "hide"    -> [row EXCEPT !.hidden = TRUE]
      [] call.op = "unhide"  -> [row EXCEPT !.hidden = FALSE]
      [] call.op = "reply"   -> [row EXCEPT !.reply = row.text]

\* The UPDATE holds the columns that differ from what was loaded; hidden_at is a
\* time, and a new time always differs.
RowWritten(row, was, to) ==
    [k \in DOMAIN row |-> IF was[k] = to[k] /\ ~(k = "hidden" /\ to[k]) THEN row[k] ELSE to[k]]
RowsWritten(call) ==
    [a \in Author |-> IF a \in call.on
                      THEN RowWritten(review[a], call.rows[a], SetByCall(call, call.rows[a]))
                      ELSE review[a]]

\* Mutated form: hiding a review leaves the rating.
RefreshesUnhidden(call) ==
    \/ call.op \in {"approve", "reject", "unhide"}
    \/ call.op = "write" /\ \E a \in call.on : call.rows[a].status = "approved"

\* refresh_business_rating: after every moderation, and when an approved review
\* is written anew.
Refreshes(call) ==
    \/ call.op \in {"approve", "reject", "hide", "unhide"}
    \/ call.op = "write" /\ \E a \in call.on : call.rows[a].status = "approved"

\* The rows are flushed (and locked till the commit), the rating computed.
RvFlush(c) ==
    LET call == rvCall[c] IN
    /\ call.op # "none" /\ ~call.flushed
    /\ \A d \in ReviewCall \ {c} : ~(rvCall[d].flushed /\ rvCall[d].on \cap call.on # {})
    /\ rvCall' = [rvCall EXCEPT ![c].flushed = TRUE,
                                ![c].to = IF Refreshes(call) THEN RatingOf(RowsWritten(call))
                                          ELSE call.biz]
    /\ UNCHANGED <<review, profile, moderated, passed, healed, sound>>

RvCommit(c) ==
    LET call == rvCall[c] IN
    /\ call.flushed
    /\ review' = RowsWritten(call)
    /\ profile' = RowWritten(profile, call.biz, call.to)
    /\ passed' = [a \in Author |-> IF a \in call.on /\ call.op = "approve"
                                   THEN call.rows[a].text ELSE passed[a]]
    /\ healed' = (call.alone /\ (healed \/ Refreshes(call)))
    /\ sound' = [a \in Author |-> IF a \notin call.on THEN sound[a]
                                  ELSE call.alone /\ (sound[a] \/ call.op \in {"write", "reject"})]
    /\ rvCall' = [rvCall EXCEPT ![c] = NoRvCall]
    /\ UNCHANGED moderated

\* An error answer: rolled back.  One of two calls in a deadlock ends this way.
RvFails(c) ==
    /\ rvCall[c].op # "none"
    /\ rvCall' = [rvCall EXCEPT ![c] = NoRvCall]
    /\ UNCHANGED <<review, profile, moderated, passed, healed, sound>>

ReviewsNext ==
    \/ \E c \in ReviewCall, a \in Author, s \in Stars : WriteReviewLoad(c, a, s)
    \/ \E c \in ReviewCall, on \in SUBSET Author,
          op \in {"approve", "reject", "hide", "unhide"} : ModerateLoad(c, op, on)
    \/ \E c \in ReviewCall, a \in Author : CompanyReplyLoad(c, a)
    \/ \E c \in ReviewCall : RvFlush(c)
    \/ \E c \in ReviewCall : RvCommit(c)
    \/ \E c \in ReviewCall : RvFails(c)

ReviewsSpec == ReviewsInit /\ [][ReviewsNext]_reviewVars

(***************************************************************************)
(* Properties                                                              *)
(***************************************************************************)

\* The rating and the count of the profile are those of the reviews a visitor
\* sees, and a review seen is in the words a moderator approved, with a reply
\* only to those words.  Overlapping calls may break the rating (each computes
\* without the other's changes); the next moderation that overlaps no other
\* repairs it, and nothing but an overlap breaks it.
ReviewsStand ==
    /\ healed => profile = RatingOf(review)
    /\ \A a \in Author : sound[a] =>
          /\ a \in Visible(review) => passed[a] = review[a].text
          /\ review[a].reply # 0 => review[a].reply = review[a].text /\ review[a].status = "approved"
================================================================================
