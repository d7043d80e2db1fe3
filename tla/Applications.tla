------------------------------ MODULE Applications ------------------------------
(***************************************************************************)
(* Partner applications (services/partner_applications.py): a visitor      *)
(* submits one for an e-mail that has neither an account nor an open       *)
(* application (read, then inserted, unlocked), and moderators stage and   *)
(* decide it with its row locked.  An approval makes the account, its      *)
(* number and business, and publishes the products in one transaction; the *)
(* translation jobs and the welcome mail follow the commit.                *)
(***************************************************************************)
EXTENDS Naturals, FiniteSets

CONSTANTS Email, App, AppCall, NoApp

ASSUME ApplicationsAssumption == NoApp \notin App \cup Email /\ "signup" \notin App

VARIABLES
    apps,      \* per application: status, e-mail
    account,   \* per e-mail: the application its account was made from, signup, or none
    catalog,   \* applications whose products are published
    after,     \* applications whose jobs were queued and mail sent (or tried)
    aCall      \* open calls

appVars == <<apps, account, catalog, after, aCall>>

NoAppCall == [op |-> "none", email |-> NoApp, app |-> NoApp]

ApplicationsInit ==
    /\ apps = [a \in App |-> [status |-> "absent", email |-> NoApp]]
    /\ account = [e \in Email |-> NoApp]
    /\ catalog = {} /\ after = {}
    /\ aCall = [c \in AppCall |-> NoAppCall]

OpenApp == {a \in App : apps[a].status \in {"pending", "review"}}
OpenFor(e) == {a \in OpenApp : apps[a].email = e}

\* check_email_available: scalar_one_or_none raises if there are two.
EmailAvailable(e) == account[e] = NoApp /\ OpenFor(e) = {}

ACallOpens(c, op, e, a) ==
    /\ aCall[c].op = "none"
    /\ aCall' = [aCall EXCEPT ![c] = [op |-> op, email |-> e, app |-> a]]
    /\ UNCHANGED <<apps, account, catalog, after>>
ACallEnds(c) == aCall' = [aCall EXCEPT ![c] = NoAppCall]

SubmitCheck(c, e) == EmailAvailable(e) /\ ACallOpens(c, "submit", e, NoApp)

SubmitInsert(c, a) ==
    /\ aCall[c].op = "submit"
    /\ apps[a].status = "absent"
    /\ apps' = [apps EXCEPT ![a] = [status |-> "pending", email |-> aCall[c].email]]
    /\ ACallEnds(c)
    /\ UNCHANGED <<account, catalog, after>>

Decisions == {"pending", "review", "approve", "reject"}
AppLocked(a) == \E c \in AppCall : aCall[c].op \in Decisions /\ aCall[c].app = a

\* Mutated form: the row is read without FOR UPDATE.
DecideLoadUnlocked(c, a, op) == a \in OpenApp /\ ACallOpens(c, op, apps[a].email, a)

\* set_application_stage and decide_application: the row is locked, and is open.
DecideLoad(c, a, op) ==
    /\ ~AppLocked(a) /\ a \in OpenApp
    /\ ACallOpens(c, op, apps[a].email, a)

StageCommit(c) ==
    LET a == aCall[c].app IN
    /\ aCall[c].op \in {"pending", "review"}
    /\ apps' = [apps EXCEPT ![a].status = aCall[c].op]
    /\ ACallEnds(c)
    /\ UNCHANGED <<account, catalog, after>>

RejectCommit(c) ==
    LET a == aCall[c].app IN
    /\ aCall[c].op = "reject"
    /\ apps' = [apps EXCEPT ![a].status = "rejected"]
    /\ ACallEnds(c)
    /\ UNCHANGED <<account, catalog, after>>

\* users.email is unique: with an account there, the approval is refused or raises.
ApproveCommit(c) ==
    LET a == aCall[c].app IN
    /\ aCall[c].op = "approve"
    /\ account[aCall[c].email] = NoApp
    /\ account' = [account EXCEPT ![aCall[c].email] = a]
    /\ catalog' = catalog \cup {a}
    /\ apps' = [apps EXCEPT ![a].status = "approved"]
    /\ aCall' = [aCall EXCEPT ![c].op = "after"]
    /\ UNCHANGED after

\* The jobs are queued and the mail tried, unless the server stops first.
AfterApproval(c) ==
    /\ aCall[c].op = "after"
    /\ after' = after \cup {aCall[c].app}
    /\ ACallEnds(c)
    /\ UNCHANGED <<apps, account, catalog>>

\* An error answer, or the server stops: what is not committed is rolled back.
ACallFails(c) ==
    /\ aCall[c].op # "none"
    /\ ACallEnds(c)
    /\ UNCHANGED <<apps, account, catalog, after>>

\* The owner of the e-mail signs up by themselves.
SignsUp(e) ==
    /\ account[e] = NoApp
    /\ account' = [account EXCEPT ![e] = "signup"]
    /\ UNCHANGED <<apps, catalog, after, aCall>>

ApplicationsNext ==
    \/ \E c \in AppCall, e \in Email : SubmitCheck(c, e)
    \/ \E c \in AppCall, a \in App : SubmitInsert(c, a)
    \/ \E c \in AppCall, a \in App, op \in Decisions : DecideLoad(c, a, op)
    \/ \E c \in AppCall : StageCommit(c)
    \/ \E c \in AppCall : RejectCommit(c)
    \/ \E c \in AppCall : ApproveCommit(c)
    \/ \E c \in AppCall : AfterApproval(c)
    \/ \E c \in AppCall : ACallFails(c)
    \/ \E e \in Email : SignsUp(e)

ApplicationsSpec == ApplicationsInit /\ [][ApplicationsNext]_appVars

(***************************************************************************)
(* Properties                                                              *)
(***************************************************************************)

\* What an applicant is told is what there is: an approved application has its
\* account and its products in the market, and no other has either, whatever
\* moderators stage, reject and approve at the same time and however many
\* applications overlapping submissions leave for one e-mail.
ApprovedIsOpened ==
    \A a \in App :
        /\ apps[a].status = "approved" <=> a \in catalog
        /\ apps[a].status = "approved" <=> apps[a].email # NoApp /\ account[apps[a].email] = a
        /\ a \in after => apps[a].status = "approved"
================================================================================
