------------------------------ MODULE Verification ------------------------------
(***************************************************************************)
(* The verified badge of one business (services/verification.py): the      *)
(* documents it uploads, the request it submits, and the admins who decide *)
(* on all of it or document by document.  A call loads the request with    *)
(* its documents, checks, and writes the columns that differ; nothing is   *)
(* locked, and writing to a document deleted meanwhile raises.  The        *)
(* business waits for one answer before its next call (the form of the     *)
(* app); admins do not wait for each other, or for it.                     *)
(***************************************************************************)
EXTENDS Naturals, FiniteSets

CONSTANTS DocType, RequiredDoc,   \* ALL_DOC_TYPES, REQUIRED_DOC_TYPES
          Doc,                    \* uploads, in their order
          Reviewer,               \* calls of admins open at the same time
          MaxReviews,             \* bound: calls of admins
          Owner, NoDocType

ASSUME VerificationAssumption ==
    Doc \subseteq Nat /\ RequiredDoc \subseteq DocType /\ Owner \notin Reviewer /\ NoDocType \notin DocType

VARIABLES
    vStatus,   \* status of the request, or none
    docs,      \* its documents: type and review_status
    badge,     \* users.verified_badge
    verified,  \* business.documents_verified
    byHand,    \* the badge was set in the user table by an admin
    vCall,     \* open calls: of the business, and of each admin
    oneAdmin,  \* do the admins take turns
    reviews    \* counter for the bound

verificationVars == <<vStatus, docs, badge, verified, byHand, vCall, oneAdmin, reviews>>

Review == {"pending", "approved", "rejected", "resubmit"}
NoDoc == [type |-> NoDocType, review |-> "pending", there |-> FALSE]
NoCall == [op |-> "none", docs |-> [d \in Doc |-> NoDoc], was |-> "none", type |-> NoDocType,
           to |-> [d \in Doc |-> "pending"]]

VerificationInit ==
    /\ vStatus = "none"
    /\ docs = [d \in Doc |-> NoDoc]
    /\ badge = FALSE /\ verified = FALSE /\ byHand = FALSE
    /\ vCall = [c \in Reviewer \cup {Owner} |-> NoCall]
    /\ oneAdmin \in BOOLEAN
    /\ reviews = 0

There(ds) == {d \in Doc : ds[d].there}
Unapproved(ds) == {d \in There(ds) : ds[d].review # "approved"}

CallLoad(c, op, t, to) ==
    /\ vCall[c].op = "none"
    /\ vCall' = [vCall EXCEPT ![c] = [op |-> op, docs |-> docs, was |-> vStatus,
                                      type |-> t, to |-> to]]

OpenForOwner == ~verified /\ vStatus \in {"none", "draft", "rejected", "needs_resubmit"}

\* upload_verification_document: not while pending, approved or verified.
UploadLoad(t) ==
    /\ OpenForOwner /\ ~badge
    /\ CallLoad(Owner, "upload", t, NoCall.to)
    /\ UNCHANGED <<vStatus, docs, badge, verified, byHand, oneAdmin, reviews>>

\* delete_verification_document of the documents of type t.
DeleteDocLoad(t) ==
    /\ OpenForOwner
    /\ \E d \in There(docs) : docs[d].type = t
    /\ CallLoad(Owner, "drop", t, NoCall.to)
    /\ UNCHANGED <<vStatus, docs, badge, verified, byHand, oneAdmin, reviews>>

\* Mutated form: missing documents are not looked for.
SubmitLoadIncomplete ==
    /\ OpenForOwner /\ ~badge
    /\ CallLoad(Owner, "submit", NoDocType, NoCall.to)
    /\ UNCHANGED <<vStatus, docs, badge, verified, byHand, oneAdmin, reviews>>

\* submit_verification: every required type is there.
SubmitLoad ==
    /\ OpenForOwner /\ ~badge
    /\ \A t \in RequiredDoc : \E d \in There(docs) : docs[d].type = t
    /\ CallLoad(Owner, "submit", NoDocType, NoCall.to)
    /\ UNCHANGED <<vStatus, docs, badge, verified, byHand, oneAdmin, reviews>>

\* An admin loads what is pending, and will give every document a review:
\* decide_verification_request the same to all, partial_decide to each its own.
ReviewLoad(c, to) ==
    /\ vStatus = "pending"
    /\ oneAdmin => \A r \in Reviewer : vCall[r].op = "none"
    /\ reviews < MaxReviews
    /\ CallLoad(c, "review", NoDocType, to)
    /\ reviews' = reviews + 1
    /\ UNCHANGED <<vStatus, docs, badge, verified, byHand, oneAdmin>>

CallEnds(c) == vCall' = [vCall EXCEPT ![c] = NoCall]

\* An error answer: rolled back.
CallFails(c) ==
    /\ vCall[c].op # "none"
    /\ CallEnds(c)
    /\ UNCHANGED <<vStatus, docs, badge, verified, byHand, oneAdmin, reviews>>

\* The status `to`, written if it is not what was loaded.
StatusWritten(was, to) == IF was = to THEN vStatus ELSE to

\* The new file replaces the ones of its type that were loaded; a decided
\* request becomes a draft again.
Upload(d) ==
    LET c == vCall[Owner] IN
    /\ c.op = "upload"
    /\ docs[d].type = NoDocType /\ \A e \in Doc : e < d => docs[e].type # NoDocType
    /\ docs' = [e \in Doc |->
          IF e = d THEN [type |-> c.type, review |-> "pending", there |-> TRUE]
          ELSE IF c.docs[e].there /\ c.docs[e].type = c.type THEN [docs[e] EXCEPT !.there = FALSE]
          ELSE docs[e]]
    /\ vStatus' = StatusWritten(c.was, "draft")
    /\ CallEnds(Owner)
    /\ UNCHANGED <<badge, verified, byHand, oneAdmin, reviews>>

DeleteDoc ==
    LET c == vCall[Owner] IN
    /\ c.op = "drop"
    /\ docs' = [e \in Doc |-> IF c.docs[e].there /\ c.docs[e].type = c.type
                              THEN [docs[e] EXCEPT !.there = FALSE] ELSE docs[e]]
    /\ CallEnds(Owner)
    /\ UNCHANGED <<vStatus, badge, verified, byHand, oneAdmin, reviews>>

\* The reviews written: of the loaded documents whose review changes.
ReviewsWritten(c, to) ==
    [e \in Doc |-> IF c.docs[e].there /\ c.docs[e].review # to[e]
                   THEN [docs[e] EXCEPT !.review = to[e]] ELSE docs[e]]
NoneGone(c, to) ==
    \A e \in Doc : c.docs[e].there /\ c.docs[e].review # to[e] => docs[e].there

\* Submitted: pending, and so is every document that is not approved yet.
Submit ==
    LET c == vCall[Owner]
        to == [e \in Doc |-> IF c.docs[e].review = "approved" THEN "approved" ELSE "pending"] IN
    /\ c.op = "submit"
    /\ docs' = ReviewsWritten(c, to)
    /\ vStatus' = StatusWritten(c.was, "pending")
    /\ CallEnds(Owner)
    /\ UNCHANGED <<badge, verified, byHand, oneAdmin, reviews>>

\* All approved: the badge.  All rejected: rejected.  Mixed: needs_resubmit.
Decide(c) ==
    LET r == vCall[c]
        given == {r.to[e] : e \in There(r.docs)} IN
    /\ r.op = "review"
    /\ NoneGone(r, r.to)
    /\ docs' = ReviewsWritten(r, r.to)
    /\ vStatus' = IF given = {"approved"} THEN "approved"
                  ELSE IF given = {"rejected"} THEN "rejected" ELSE "needs_resubmit"
    /\ verified' = (verified \/ given = {"approved"})
    /\ badge' = (badge \/ given = {"approved"})
    /\ CallEnds(c)
    /\ UNCHANGED <<byHand, oneAdmin, reviews>>

\* admin_patch_user sets the badge, and with it documents_verified; taking the
\* badge away leaves documents_verified.
PatchBadge(on) ==
    /\ reviews < MaxReviews
    /\ badge # on
    /\ badge' = on
    /\ verified' = (verified \/ on)
    /\ byHand' = TRUE
    /\ reviews' = reviews + 1
    /\ UNCHANGED <<vStatus, docs, vCall, oneAdmin>>

VerificationNext ==
    \/ \E t \in DocType : UploadLoad(t)
    \/ \E t \in DocType : DeleteDocLoad(t)
    \/ SubmitLoad
    \/ \E c \in Reviewer, to \in [Doc -> {"approved", "rejected", "resubmit"}] : ReviewLoad(c, to)
    \/ \E c \in Reviewer \cup {Owner} : CallFails(c)
    \/ \E d \in Doc : Upload(d)
    \/ DeleteDoc
    \/ Submit
    \/ \E c \in Reviewer : Decide(c)
    \/ \E on \in BOOLEAN : PatchBadge(on)

VerificationSpec == VerificationInit /\ [][VerificationNext]_verificationVars

(***************************************************************************)
(* Properties                                                              *)
(***************************************************************************)

VerificationTypeOK ==
    /\ vStatus \in {"none", "draft", "pending", "approved", "rejected", "needs_resubmit"}
    /\ docs \in [Doc -> [type : DocType \cup {NoDocType}, review : Review, there : BOOLEAN]]
    /\ badge \in BOOLEAN /\ verified \in BOOLEAN /\ byHand \in BOOLEAN
    /\ \A c \in DOMAIN vCall : vCall[c].op \in {"none", "upload", "drop", "submit", "review"}

\* While the admins take turns, a badge that was not set by hand stands on an
\* approved request with every required document, each of them approved: no
\* upload, deletion, resubmission or partial decision on the way leaves one
\* missing or unreviewed.
BadgeIsReviewed ==
    oneAdmin /\ badge /\ ~byHand =>
        /\ vStatus = "approved"
        /\ Unapproved(docs) = {}
        /\ \A t \in RequiredDoc : \E d \in There(docs) : docs[d].type = t
================================================================================
