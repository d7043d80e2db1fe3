------------------------------ MODULE OfficeProofs ------------------------------
(***************************************************************************)
(* Theorems about partners and what moderators do, for any number of them: *)
(* deciding applications (Applications), reading private chats for a case  *)
(* (ChatReview), and the reviews of a business (Reviews); and the form a   *)
(* partner fills in (PartnerForm).                                         *)
(***************************************************************************)
EXTENDS Applications, PartnerForm, ChatReview, Reviews, FiniteSetTheorems, SequenceTheorems,
        TLAPS

(***************************************************************************)
(* Applications: the inductive invariant                                   *)
(***************************************************************************)

Application == [status : {"absent", "pending", "review", "approved", "rejected"},
                email : Email \cup {NoApp}]

AppCalls == [op : {"none", "submit", "after"} \cup Decisions,
             email : Email \cup {NoApp}, app : App \cup {NoApp}]

AppTypes ==
    /\ apps \in [App -> Application]
    /\ account \in [Email -> App \cup {"signup", NoApp}]
    /\ catalog \subseteq App /\ after \subseteq App
    /\ aCall \in [AppCall -> AppCalls]

\* What a call holds: a submission an address, a decision the lock of an open
\* application and its address, and a call past its approval an approved one.
CallsHold ==
    \A c \in AppCall :
        /\ aCall[c].op = "submit" => aCall[c].email \in Email
        /\ aCall[c].op \in Decisions =>
              aCall[c].app \in OpenApp /\ aCall[c].email = apps[aCall[c].app].email
        /\ aCall[c].op = "after" => aCall[c].app \in App /\ apps[aCall[c].app].status = "approved"

\* Two decisions are never on one application.
LocksExclude ==
    \A c, d \in AppCall :
        aCall[c].op \in Decisions /\ aCall[d].op \in Decisions /\ aCall[c].app = aCall[d].app
            => c = d

\* An application that was submitted has an address, and an account that was made
\* from one belongs to it.
Addressed ==
    /\ \A a \in App : apps[a].status # "absent" => apps[a].email \in Email
    /\ \A e \in Email : account[e] \in App =>
          apps[account[e]].status = "approved" /\ apps[account[e]].email = e

AppInv == AppTypes /\ CallsHold /\ LocksExclude /\ Addressed /\ ApprovedIsOpened


LEMMA AppInvInit == ApplicationsInit => AppInv
  BY ApplicationsAssumption
  DEF ApplicationsInit, AppInv, AppTypes, CallsHold, LocksExclude, Addressed,
      ApprovedIsOpened, Application, AppCalls, NoAppCall, Decisions

\* Every step keeps the invariant: what a call holds can only be changed by the
\* call itself, since it holds the lock of its application.
LEMMA AppInvStep == AppInv /\ [ApplicationsNext]_appVars => AppInv'
<1> SUFFICES ASSUME AppInv, [ApplicationsNext]_appVars PROVE AppInv'
  OBVIOUS
<1> USE ApplicationsAssumption
<1>1. ASSUME NEW c \in AppCall, NEW e \in Email, SubmitCheck(c, e) PROVE AppInv'
  <2>1. AppTypes'
    BY <1>1 DEF AppInv, AppTypes, AppCalls, SubmitCheck, ACallOpens
  <2>2. CallsHold'
    BY <1>1 DEF AppInv, CallsHold, OpenApp, Decisions, SubmitCheck, ACallOpens
  <2>3. LocksExclude'
    BY <1>1 DEF AppInv, CallsHold, LocksExclude, OpenApp, SubmitCheck, ACallOpens
  <2>4. Addressed'
    BY <1>1 DEF AppInv, Addressed, SubmitCheck, ACallOpens
  <2>5. ApprovedIsOpened'
    BY <1>1 DEF AppInv, ApprovedIsOpened, SubmitCheck, ACallOpens
  <2> QED BY <2>1, <2>2, <2>3, <2>4, <2>5 DEF AppInv
<1>2. ASSUME NEW c \in AppCall, NEW a \in App, SubmitInsert(c, a) PROVE AppInv'
  <2>1. AppTypes'
    BY <1>2 DEF AppInv, AppTypes, Application, AppCalls, NoAppCall, SubmitInsert, ACallEnds
  <2>2. CallsHold'
    BY <1>2 DEF AppInv, CallsHold, OpenApp, NoAppCall, Decisions, SubmitInsert, ACallEnds
  <2>3. LocksExclude'
    BY <1>2 DEF AppInv, LocksExclude, NoAppCall, Decisions, SubmitInsert, ACallEnds
  <2>4. Addressed'
    BY <1>2 DEF AppInv, CallsHold, Addressed, SubmitInsert
  <2>5. ApprovedIsOpened'
    BY <1>2 DEF AppInv, CallsHold, Addressed, ApprovedIsOpened, SubmitInsert
  <2> QED BY <2>1, <2>2, <2>3, <2>4, <2>5 DEF AppInv
<1>3. ASSUME NEW c \in AppCall, NEW a \in App, NEW op \in Decisions, DecideLoad(c, a, op) PROVE AppInv'
  <2>1. AppTypes'
    BY <1>3 DEF AppInv, AppTypes, Application, AppCalls, DecideLoad, ACallOpens
  <2>2. CallsHold'
    BY <1>3 DEF AppInv, CallsHold, OpenApp, Decisions, DecideLoad, ACallOpens
  <2>3. LocksExclude'
    BY <1>3 DEF AppInv, LocksExclude, DecideLoad, AppLocked, ACallOpens
  <2>4. Addressed'
    BY <1>3 DEF AppInv, Addressed, DecideLoad, ACallOpens
  <2>5. ApprovedIsOpened'
    BY <1>3 DEF AppInv, ApprovedIsOpened, DecideLoad, ACallOpens
  <2> QED BY <2>1, <2>2, <2>3, <2>4, <2>5 DEF AppInv
<1>4. ASSUME NEW c \in AppCall, StageCommit(c) PROVE AppInv'
  <2>1. AppTypes'
    BY <1>4 DEF AppInv, AppTypes, CallsHold, OpenApp, Application, AppCalls, NoAppCall,
                StageCommit, ACallEnds
  <2>2. CallsHold'
    BY <1>4 DEF AppInv, CallsHold, OpenApp, NoAppCall, Decisions, StageCommit, ACallEnds
  <2>3. LocksExclude'
    BY <1>4 DEF AppInv, LocksExclude, NoAppCall, Decisions, StageCommit, ACallEnds
  <2>4. Addressed'
    BY <1>4 DEF AppInv, AppTypes, CallsHold, Addressed, OpenApp, AppCalls, StageCommit
  <2>5. ApprovedIsOpened'
    BY <1>4 DEF AppInv, AppTypes, CallsHold, ApprovedIsOpened, OpenApp, AppCalls, StageCommit
  <2> QED BY <2>1, <2>2, <2>3, <2>4, <2>5 DEF AppInv
<1>5. ASSUME NEW c \in AppCall, RejectCommit(c) PROVE AppInv'
  <2>1. AppTypes'
    BY <1>5 DEF AppInv, AppTypes, CallsHold, OpenApp, Application, AppCalls, NoAppCall,
                RejectCommit, ACallEnds
  <2>2. CallsHold'
    BY <1>5 DEF AppInv, AppTypes, CallsHold, LocksExclude, OpenApp, NoAppCall, Decisions,
                RejectCommit, ACallEnds
  <2>3. LocksExclude'
    BY <1>5 DEF AppInv, LocksExclude, NoAppCall, Decisions, RejectCommit, ACallEnds
  <2>4. Addressed'
    BY <1>5 DEF AppInv, AppTypes, CallsHold, Addressed, OpenApp, AppCalls, RejectCommit
  <2>5. ApprovedIsOpened'
    BY <1>5 DEF AppInv, AppTypes, CallsHold, ApprovedIsOpened, OpenApp, AppCalls, RejectCommit
  <2> QED BY <2>1, <2>2, <2>3, <2>4, <2>5 DEF AppInv
<1>6. ASSUME NEW c \in AppCall, ApproveCommit(c) PROVE AppInv'
  <2>1. AppTypes'
    BY <1>6 DEF AppInv, AppTypes, CallsHold, Addressed, OpenApp, Application, AppCalls,
                ApproveCommit
  <2>2. CallsHold'
    BY <1>6 DEF AppInv, AppTypes, CallsHold, LocksExclude, OpenApp, Decisions, ApproveCommit
  <2>3. LocksExclude'
    BY <1>6 DEF AppInv, LocksExclude, Decisions, ApproveCommit
  <2>4. Addressed'
    BY <1>6 DEF AppInv, AppTypes, CallsHold, Addressed, OpenApp, AppCalls, ApproveCommit
  <2>5. ApprovedIsOpened'
    BY <1>6 DEF AppInv, AppTypes, CallsHold, Addressed, ApprovedIsOpened, OpenApp, AppCalls,
                ApproveCommit
  <2> QED BY <2>1, <2>2, <2>3, <2>4, <2>5 DEF AppInv
<1>7. ASSUME NEW c \in AppCall, AfterApproval(c) PROVE AppInv'
  <2>1. AppTypes'
    BY <1>7 DEF AppInv, AppTypes, CallsHold, AppCalls, NoAppCall, AfterApproval, ACallEnds
  <2>2. CallsHold'
    BY <1>7 DEF AppInv, CallsHold, OpenApp, NoAppCall, Decisions, AfterApproval, ACallEnds
  <2>3. LocksExclude'
    BY <1>7 DEF AppInv, LocksExclude, NoAppCall, Decisions, AfterApproval, ACallEnds
  <2>4. Addressed'
    BY <1>7 DEF AppInv, Addressed, AfterApproval
  <2>5. ApprovedIsOpened'
    BY <1>7 DEF AppInv, CallsHold, ApprovedIsOpened, AfterApproval
  <2> QED BY <2>1, <2>2, <2>3, <2>4, <2>5 DEF AppInv
<1>8. ASSUME NEW c \in AppCall, ACallFails(c) PROVE AppInv'
  <2>1. AppTypes'
    BY <1>8 DEF AppInv, AppTypes, AppCalls, NoAppCall, ACallFails, ACallEnds
  <2>2. CallsHold'
    BY <1>8 DEF AppInv, CallsHold, OpenApp, NoAppCall, Decisions, ACallFails, ACallEnds
  <2>3. LocksExclude'
    BY <1>8 DEF AppInv, LocksExclude, NoAppCall, Decisions, ACallFails, ACallEnds
  <2>4. Addressed'
    BY <1>8 DEF AppInv, Addressed, ACallFails
  <2>5. ApprovedIsOpened'
    BY <1>8 DEF AppInv, ApprovedIsOpened, ACallFails
  <2> QED BY <2>1, <2>2, <2>3, <2>4, <2>5 DEF AppInv
<1>9. ASSUME NEW e \in Email, SignsUp(e) PROVE AppInv'
  <2>1. AppTypes'
    BY <1>9 DEF AppInv, AppTypes, SignsUp
  <2>2. CallsHold'
    BY <1>9 DEF AppInv, CallsHold, OpenApp, SignsUp
  <2>3. LocksExclude'
    BY <1>9 DEF AppInv, LocksExclude, SignsUp
  <2>4. Addressed'
    BY <1>9 DEF AppInv, Addressed, SignsUp
  <2>5. ApprovedIsOpened'
    BY <1>9 DEF AppInv, ApprovedIsOpened, SignsUp
  <2> QED BY <2>1, <2>2, <2>3, <2>4, <2>5 DEF AppInv
<1>10. CASE UNCHANGED appVars
  BY <1>10 DEF appVars, AppInv, AppTypes, CallsHold, LocksExclude, Addressed,
               ApprovedIsOpened, OpenApp
<1> QED
  BY <1>1, <1>2, <1>3, <1>4, <1>5, <1>6, <1>7, <1>8, <1>9, <1>10 DEF ApplicationsNext

\* The invariant holds in every state.
THEOREM ApplicationsInvariant == ApplicationsSpec => []AppInv
  BY AppInvInit, AppInvStep, PTL DEF ApplicationsSpec

\* What an applicant is told is what there is, for any number of applications,
\* addresses and overlapping calls: ApprovedIsOpened of every specified behaviour.
THEOREM ApplicationsOpened == ApplicationsSpec => []ApprovedIsOpened
<1>1. AppInv => ApprovedIsOpened
  BY DEF AppInv
<1> QED
  BY <1>1, ApplicationsInvariant, PTL

(***************************************************************************)
(* ChatReview: the inductive invariant                                     *)
(***************************************************************************)

\* Calls that write a case.
CaseOps == {"create", "open", "decide"}

CaseRow == [chat : ReviewChat \cup {NoCase}, status : {"none", "open", "reviewing", "decided"},
            decided : BOOLEAN]

StaffCalls == [op : {"none", "read", "close"} \cup CaseOps, chat : ReviewChat \cup {NoCase},
               case : Case \cup {NoCase}, was : {"none", "open", "reviewing", "decided"},
               granted : BOOLEAN]

ChatReviewTypes ==
    /\ cases \in [Case -> CaseRow]
    /\ access \in [Moderator \X (ReviewChat \cup {NoCase}) ->
                     [case : Case \cup {NoCase}, left : Nat]]
    /\ sCall \in [Moderator -> StaffCalls]
    /\ used \subseteq Case
    /\ reads \subseteq openings
    /\ openings \subseteq Moderator \X ReviewChat \X Case

\* A call that writes a case names one whose id was taken, and its chat; a case
\* that is not there yet is the call's own.
CallsNameCases ==
    \A s \in Moderator : sCall[s].op \in CaseOps =>
        LET k == sCall[s].case IN
        /\ k \in used /\ sCall[s].chat \in ReviewChat
        /\ cases[k].status # "none" => cases[k].chat = sCall[s].chat
        /\ sCall[s].op = "decide" \/ sCall[s].was # "none" => cases[k].status # "none"
        /\ sCall[s].op = "create" => cases[k].status = "none" /\ sCall[s].was = "none"
        /\ cases[k].status = "none" =>
              \A t \in Moderator : sCall[t].op \in CaseOps /\ sCall[t].case = k => t = s

\* What a call loaded still stands, unless the case was crossed.
LoadedStands ==
    \A s \in Moderator : sCall[s].op \in CaseOps /\ sCall[s].case \notin crossed =>
        cases[sCall[s].case].status = sCall[s].was

\* A case that is there has its id; one that is not is blank.
CaseRows ==
    \A k \in Case : /\ cases[k].status # "none" => k \in used /\ cases[k].chat \in ReviewChat
                    /\ cases[k].status = "none" => cases[k] = NoCaseRow

\* An access that has not run out, and a reading under way, come from an opening.
AccessOpened ==
    /\ \A s \in Moderator, ch \in ReviewChat :
          access[<<s, ch>>].left > 0 => <<s, ch, access[<<s, ch>>].case>> \in openings
    /\ \A s \in Moderator :
          sCall[s].op = "read" => <<s, sCall[s].chat, sCall[s].case>> \in openings

\* An opening names a case of its chat, or was rolled back, or is under way.
OpeningsNameCases ==
    \A s \in Moderator, ch \in ReviewChat, k \in Case : <<s, ch, k>> \in openings =>
        \/ k \in lost
        \/ cases[k].chat = ch
        \/ sCall[s].op = "open" /\ sCall[s].chat = ch /\ sCall[s].case = k

CRInv == /\ ChatReviewTypes /\ CallsNameCases /\ LoadedStands /\ CaseRows /\ AccessOpened
         /\ OpeningsNameCases /\ ReadForACase

LEMMA CRInvInit == ChatReviewInit => CRInv
  BY ChatReviewAssumption
  DEF ChatReviewInit, CRInv, ChatReviewTypes, CallsNameCases, LoadedStands, CaseRows,
      AccessOpened, OpeningsNameCases, ReadForACase, CaseRow, StaffCalls, CaseOps,
      NoStaffCall, NoCaseRow, NoAccess

\* Every step keeps it: no two calls write a case that is not there yet, and a call
\* that finds its case changed under it marks it crossed.
LEMMA CRInvStep == CRInv /\ [ChatReviewNext]_chatReviewVars => CRInv'
<1> SUFFICES ASSUME CRInv, [ChatReviewNext]_chatReviewVars PROVE CRInv'
  OBVIOUS
<1> USE ChatReviewAssumption
<1>1. ASSUME NEW s \in Moderator, NEW ch \in ReviewChat, NEW k \in Case, CreateCase(s, ch, k) PROVE CRInv'
  <2>1. ChatReviewTypes'
    BY <1>1 DEF CRInv, ChatReviewTypes, StaffCalls, CaseOps, NoStaffCall, CreateCase, StaffCall
  <2>2. CallsNameCases'
    BY <1>1 DEF CRInv, CallsNameCases, CaseRows, NoStaffCall, CreateCase, StaffCall, FreshCase
  <2>3. LoadedStands'
    BY <1>1 DEF CRInv, LoadedStands, CaseRows, NoStaffCall, CreateCase, StaffCall, FreshCase
  <2>4. CaseRows'
    BY <1>1 DEF CRInv, CaseRows, CreateCase
  <2>5. AccessOpened'
    BY <1>1 DEF CRInv, AccessOpened, CreateCase, StaffCall
  <2>6. OpeningsNameCases'
    BY <1>1 DEF CRInv, OpeningsNameCases, CreateCase, StaffCall
  <2>7. ReadForACase'
    BY <1>1 DEF CRInv, ReadForACase, CreateCase
  <2> QED BY <2>1, <2>2, <2>3, <2>4, <2>5, <2>6, <2>7 DEF CRInv
<1>2. ASSUME NEW s \in Moderator, NEW k \in Case, OpenCase(s, k) PROVE CRInv'
  <2>1. ChatReviewTypes'
    BY <1>2 DEF CRInv, ChatReviewTypes, CaseRow, StaffCalls, CaseOps, NoStaffCall, OpenCase,
                StaffCall
  <2>2. CallsNameCases'
    BY <1>2 DEF CRInv, CallsNameCases, CaseRows, OpenCase, StaffCall
  <2>3. LoadedStands'
    BY <1>2 DEF CRInv, LoadedStands, OpenCase, StaffCall
  <2>4. CaseRows'
    BY <1>2 DEF CRInv, CaseRows, OpenCase
  <2>5. AccessOpened'
    BY <1>2 DEF CRInv, AccessOpened, OpenCase, StaffCall
  <2>6. OpeningsNameCases'
    BY <1>2 DEF CRInv, OpeningsNameCases, OpenCase, StaffCall
  <2>7. ReadForACase'
    BY <1>2 DEF CRInv, ReadForACase, OpenCase
  <2> QED BY <2>1, <2>2, <2>3, <2>4, <2>5, <2>6, <2>7 DEF CRInv
<1>3. ASSUME NEW s \in Moderator, NEW ch \in ReviewChat, NEW k \in Case, OpenSearch(s, ch, k) PROVE CRInv'
  <2>1. ChatReviewTypes'
    BY <1>3 DEF CRInv, ChatReviewTypes, StaffCalls, CaseOps, NoStaffCall, OpenSearch, StaffCall
  <2>2. CallsNameCases'
    BY <1>3 DEF CRInv, CallsNameCases, CaseRows, NoStaffCall, OpenSearch, StaffCall, FreshCase
  <2>3. LoadedStands'
    BY <1>3 DEF CRInv, LoadedStands, CaseRows, NoStaffCall, OpenSearch, StaffCall, FreshCase
  <2>4. CaseRows'
    BY <1>3 DEF CRInv, CaseRows, OpenSearch
  <2>5. AccessOpened'
    BY <1>3 DEF CRInv, AccessOpened, OpenSearch, StaffCall
  <2>6. OpeningsNameCases'
    BY <1>3 DEF CRInv, AccessOpened, OpeningsNameCases, OpenSearch, StaffCall
  <2>7. ReadForACase'
    BY <1>3 DEF CRInv, ReadForACase, OpenSearch
  <2> QED BY <2>1, <2>2, <2>3, <2>4, <2>5, <2>6, <2>7 DEF CRInv
<1>4. ASSUME NEW s \in Moderator, Grant(s) PROVE CRInv'
  <2>1. ChatReviewTypes'
    <3>1. (cases \in [Case -> CaseRow])'
      BY <1>4 DEF CRInv, ChatReviewTypes, Grant
    <3>2. (access \in [Moderator \X (ReviewChat \cup {NoCase}) -> [case : Case \cup {NoCase}, left : Nat]])'
      BY <1>4 DEF CRInv, ChatReviewTypes, StaffCalls, Grant
    <3>3. (sCall \in [Moderator -> StaffCalls])'
      BY <1>4 DEF CRInv, ChatReviewTypes, StaffCalls, Grant, CaseOps, AccessKey, CallsNameCases
    <3>4. (used \subseteq Case /\ reads \subseteq openings)'
      BY <1>4 DEF CRInv, ChatReviewTypes, Grant
    <3>5. (openings \subseteq Moderator \X ReviewChat \X Case)'
      BY <1>4 DEF CRInv, ChatReviewTypes, Grant, CaseOps, CallsNameCases
    <3> QED BY <3>1, <3>2, <3>3, <3>4, <3>5 DEF ChatReviewTypes
  <2>2. CallsNameCases'
    BY <1>4 DEF CRInv, CallsNameCases, CaseRows, Grant
  <2>3. LoadedStands'
    BY <1>4 DEF CRInv, ChatReviewTypes, LoadedStands, Grant
  <2>4. CaseRows'
    BY <1>4 DEF CRInv, CaseRows, Grant
  <2>5. AccessOpened'
    BY <1>4 DEF CRInv, AccessOpened, Grant, AccessKey
  <2>6. OpeningsNameCases'
    BY <1>4 DEF CRInv, OpeningsNameCases, Grant
  <2>7. ReadForACase'
    BY <1>4 DEF CRInv, ReadForACase, Grant
  <2> QED BY <2>1, <2>2, <2>3, <2>4, <2>5, <2>6, <2>7 DEF CRInv
<1>5. ASSUME NEW s \in Moderator, NEW k \in Case, DecideCase(s, k) PROVE CRInv'
  <2>1. ChatReviewTypes'
    BY <1>5 DEF CRInv, ChatReviewTypes, CaseRow, StaffCalls, CaseOps, NoStaffCall, DecideCase,
                StaffCall
  <2>2. CallsNameCases'
    BY <1>5 DEF CRInv, CallsNameCases, CaseRows, DecideCase, StaffCall
  <2>3. LoadedStands'
    BY <1>5 DEF CRInv, LoadedStands, DecideCase, StaffCall
  <2>4. CaseRows'
    BY <1>5 DEF CRInv, CaseRows, DecideCase
  <2>5. AccessOpened'
    BY <1>5 DEF CRInv, AccessOpened, DecideCase, StaffCall
  <2>6. OpeningsNameCases'
    BY <1>5 DEF CRInv, OpeningsNameCases, DecideCase, StaffCall
  <2>7. ReadForACase'
    BY <1>5 DEF CRInv, ReadForACase, DecideCase
  <2> QED BY <2>1, <2>2, <2>3, <2>4, <2>5, <2>6, <2>7 DEF CRInv
<1>6. ASSUME NEW s \in Moderator, NEW ch \in ReviewChat, Read(s, ch) PROVE CRInv'
  <2>1. ChatReviewTypes'
    <3>1. (cases \in [Case -> CaseRow])'
      BY <1>6 DEF CRInv, ChatReviewTypes, Read
    <3>2. (access \in [Moderator \X (ReviewChat \cup {NoCase}) -> [case : Case \cup {NoCase}, left : Nat]])'
      BY <1>6 DEF CRInv, ChatReviewTypes, Read
    <3>3. (sCall \in [Moderator -> StaffCalls])'
      BY <1>6 DEF CRInv, ChatReviewTypes, StaffCalls, NoStaffCall, Read, StaffCall, AccessKey
    <3>4. (used \subseteq Case /\ reads \subseteq openings)'
      BY <1>6 DEF CRInv, ChatReviewTypes, Read
    <3>5. (openings \subseteq Moderator \X ReviewChat \X Case)'
      BY <1>6 DEF CRInv, ChatReviewTypes, Read
    <3> QED BY <3>1, <3>2, <3>3, <3>4, <3>5 DEF ChatReviewTypes
  <2>2. CallsNameCases'
    BY <1>6 DEF CRInv, CallsNameCases, CaseOps, Read, StaffCall
  <2>3. LoadedStands'
    BY <1>6 DEF CRInv, LoadedStands, CaseOps, Read, StaffCall
  <2>4. CaseRows'
    BY <1>6 DEF CRInv, CaseRows, Read
  <2>5. AccessOpened'
    BY <1>6 DEF CRInv, AccessOpened, Read, StaffCall, AccessKey
  <2>6. OpeningsNameCases'
    BY <1>6 DEF CRInv, OpeningsNameCases, Read, StaffCall
  <2>7. ReadForACase'
    BY <1>6 DEF CRInv, ReadForACase, Read
  <2> QED BY <2>1, <2>2, <2>3, <2>4, <2>5, <2>6, <2>7 DEF CRInv
<1>7. ASSUME NEW s \in Moderator, NEW ch \in ReviewChat, CloseAccess(s, ch) PROVE CRInv'
  <2>1. ChatReviewTypes'
    BY <1>7 DEF CRInv, ChatReviewTypes, StaffCalls, NoStaffCall, NoAccess, CloseAccess,
                StaffCall
  <2>2. CallsNameCases'
    BY <1>7 DEF CRInv, CallsNameCases, CaseOps, CloseAccess, StaffCall
  <2>3. LoadedStands'
    BY <1>7 DEF CRInv, LoadedStands, CaseOps, CloseAccess, StaffCall
  <2>4. CaseRows'
    BY <1>7 DEF CRInv, CaseRows, CloseAccess
  <2>5. AccessOpened'
    BY <1>7 DEF CRInv, AccessOpened, NoAccess, CloseAccess, StaffCall
  <2>6. OpeningsNameCases'
    BY <1>7 DEF CRInv, OpeningsNameCases, CloseAccess, StaffCall
  <2>7. ReadForACase'
    BY <1>7 DEF CRInv, ReadForACase, CloseAccess
  <2> QED BY <2>1, <2>2, <2>3, <2>4, <2>5, <2>6, <2>7 DEF CRInv
<1>8. ASSUME NEW s \in Moderator, StaffCommit(s) PROVE CRInv'
  <2>1. ChatReviewTypes'
    <3>1. (cases \in [Case -> CaseRow])'
      BY <1>8 DEF CRInv, ChatReviewTypes, CaseRow, StaffCalls, StaffCommit, StatusTo
    <3>2. (access \in [Moderator \X (ReviewChat \cup {NoCase}) -> [case : Case \cup {NoCase}, left : Nat]])'
      BY <1>8 DEF CRInv, ChatReviewTypes, StaffCommit
    <3>3. (sCall \in [Moderator -> StaffCalls])'
      BY <1>8 DEF CRInv, ChatReviewTypes, StaffCalls, NoStaffCall, StaffCommit
    <3>4. (used \subseteq Case /\ reads \subseteq openings)'
      BY <1>8 DEF CRInv, AccessOpened, ChatReviewTypes, StaffCommit
    <3>5. (openings \subseteq Moderator \X ReviewChat \X Case)'
      BY <1>8 DEF CRInv, ChatReviewTypes, StaffCommit
    <3> QED BY <3>1, <3>2, <3>3, <3>4, <3>5 DEF ChatReviewTypes
  <2>2. CallsNameCases'
    BY <1>8 DEF CRInv, ChatReviewTypes, CallsNameCases, LoadedStands, CaseRows, AccessOpened,
                OpeningsNameCases, ReadForACase, CaseRow, StaffCalls, CaseOps, NoStaffCall,
                NoCaseRow, StaffCommit, StatusTo
  <2>3. LoadedStands'
    BY <1>8 DEF CRInv, ChatReviewTypes, CallsNameCases, LoadedStands, StaffCalls, CaseOps,
                NoStaffCall, StaffCommit
  <2>4. CaseRows'
    <3>1. sCall[s] \in StaffCalls /\ cases \in [Case -> CaseRow]
      BY DEF CRInv, ChatReviewTypes
    <3>0. crossed \subseteq crossed'
      BY <1>8, Zenon DEF StaffCommit
    <3>2. CASE sCall[s].op \in {"read", "close"}
      <4>1. cases' = cases /\ used' = used /\ lost' = lost /\ openings' = openings
        BY <1>8, <3>2 DEF StaffCommit
      <4>2. ASSUME NEW r \in reads' PROVE r \in openings /\ (r[3] \in lost \/ cases[r[3]].chat = r[2])
        <5>1. CASE r \in reads
          BY <5>1 DEF CRInv, ReadForACase
        <5>2. CASE r \notin reads
          <6>1. sCall[s].op = "read" /\ r = <<s, sCall[s].chat, sCall[s].case>>
            BY <1>8, <4>2, <5>2 DEF StaffCommit
          <6>2. r \in openings /\ sCall[s].chat \in ReviewChat /\ sCall[s].case \in Case
            BY <6>1 DEF CRInv, AccessOpened, ChatReviewTypes
          <6> QED BY <6>1, <6>2 DEF CRInv, OpeningsNameCases
        <5> QED BY <5>1, <5>2
      <4> QED BY <3>0, <4>1, <4>2 DEF CRInv, CaseRows, ReadForACase
    <3>3. CASE sCall[s].op \in CaseOps
      <4>1. /\ sCall[s].case \in used /\ sCall[s].case \in Case /\ sCall[s].chat \in ReviewChat
            /\ cases[sCall[s].case].status # "none" => cases[sCall[s].case].chat = sCall[s].chat
        BY <3>3 DEF CRInv, CallsNameCases, ChatReviewTypes
      <4>2. cases' = [cases EXCEPT ![sCall[s].case] =
                        [chat |-> sCall[s].chat,
                         status |-> IF sCall[s].was = StatusTo(sCall[s]) THEN @.status
                                    ELSE StatusTo(sCall[s]),
                         decided |-> @.decided \/ sCall[s].op = "decide"]]
        BY <1>8, <3>3 DEF StaffCommit, CaseOps
      <4>3. /\ sCall[s].case \notin crossed => cases[sCall[s].case].status = sCall[s].was
            /\ StatusTo(sCall[s]) # "none"
        BY <3>1, <3>3 DEF CRInv, LoadedStands, StatusTo
      <4>4. sCall[s].op # "read"
        BY <3>3 DEF CaseOps
      <4>5. used' = used /\ lost' = lost /\ reads' = reads /\ openings' = openings
        BY <1>8, <4>4, Zenon DEF StaffCommit
      <4>6. \A k \in Case \ {sCall[s].case} : cases'[k] = cases[k]
        BY <3>1, <4>2
      <4>7. /\ cases'[sCall[s].case].chat = sCall[s].chat
            /\ cases'[sCall[s].case].status =
                 IF sCall[s].was = StatusTo(sCall[s]) THEN cases[sCall[s].case].status
                 ELSE StatusTo(sCall[s])
            /\ cases'[sCall[s].case].decided =
                 (cases[sCall[s].case].decided \/ sCall[s].op = "decide")
        BY <3>1, <4>1, <4>2
      <4>8. sCall[s].was # "none" => cases[sCall[s].case].status # "none"
        BY <3>3 DEF CRInv, CallsNameCases
      <4>9. cases'[sCall[s].case].status # "none"
        BY <4>3, <4>7, <4>8
      <4> QED BY <4>1, <4>5, <4>6, <4>7, <4>9 DEF CRInv, CaseRows
    <3> QED BY <1>8, <3>1, <3>2, <3>3 DEF StaffCommit, StaffCalls, CaseOps
  <2>5. AccessOpened'
    BY <1>8 DEF CRInv, AccessOpened, NoStaffCall, StaffCommit
  <2>6. OpeningsNameCases'
    BY <1>8 DEF CRInv, ChatReviewTypes, CallsNameCases, CaseRows, OpeningsNameCases,
                StaffCalls, NoCaseRow, StaffCommit
  <2>7. ReadForACase'
    <3>1. sCall[s] \in StaffCalls /\ cases \in [Case -> CaseRow]
      BY DEF CRInv, ChatReviewTypes
    <3>0. crossed \subseteq crossed'
      BY <1>8, Zenon DEF StaffCommit
    <3>2. CASE sCall[s].op \in {"read", "close"}
      <4>1. cases' = cases /\ used' = used /\ lost' = lost /\ openings' = openings
        BY <1>8, <3>2 DEF StaffCommit
      <4>2. ASSUME NEW r \in reads' PROVE r \in openings /\ (r[3] \in lost \/ cases[r[3]].chat = r[2])
        <5>1. CASE r \in reads
          BY <5>1 DEF CRInv, ReadForACase
        <5>2. CASE r \notin reads
          <6>1. sCall[s].op = "read" /\ r = <<s, sCall[s].chat, sCall[s].case>>
            BY <1>8, <4>2, <5>2 DEF StaffCommit
          <6>2. r \in openings /\ sCall[s].chat \in ReviewChat /\ sCall[s].case \in Case
            BY <6>1 DEF CRInv, AccessOpened, ChatReviewTypes
          <6> QED BY <6>1, <6>2 DEF CRInv, OpeningsNameCases
        <5> QED BY <5>1, <5>2
      <4> QED BY <3>0, <4>1, <4>2 DEF CRInv, CaseRows, ReadForACase
    <3>3. CASE sCall[s].op \in CaseOps
      <4>1. /\ sCall[s].case \in used /\ sCall[s].case \in Case /\ sCall[s].chat \in ReviewChat
            /\ cases[sCall[s].case].status # "none" => cases[sCall[s].case].chat = sCall[s].chat
        BY <3>3 DEF CRInv, CallsNameCases, ChatReviewTypes
      <4>2. cases' = [cases EXCEPT ![sCall[s].case] =
                        [chat |-> sCall[s].chat,
                         status |-> IF sCall[s].was = StatusTo(sCall[s]) THEN @.status
                                    ELSE StatusTo(sCall[s]),
                         decided |-> @.decided \/ sCall[s].op = "decide"]]
        BY <1>8, <3>3 DEF StaffCommit, CaseOps
      <4>3. /\ sCall[s].case \notin crossed => cases[sCall[s].case].status = sCall[s].was
            /\ StatusTo(sCall[s]) # "none"
        BY <3>1, <3>3 DEF CRInv, LoadedStands, StatusTo
      <4>4. sCall[s].op # "read"
        BY <3>3 DEF CaseOps
      <4>5. used' = used /\ lost' = lost /\ reads' = reads /\ openings' = openings
        BY <1>8, <4>4, Zenon DEF StaffCommit
      <4>6. \A k \in Case \ {sCall[s].case} : cases'[k] = cases[k]
        BY <3>1, <4>2
      <4>7. /\ cases'[sCall[s].case].chat = sCall[s].chat
            /\ cases'[sCall[s].case].status =
                 IF sCall[s].was = StatusTo(sCall[s]) THEN cases[sCall[s].case].status
                 ELSE StatusTo(sCall[s])
            /\ cases'[sCall[s].case].decided =
                 (cases[sCall[s].case].decided \/ sCall[s].op = "decide")
        BY <3>1, <4>1, <4>2
      <4>8. ASSUME NEW k \in Case \ crossed' PROVE cases'[k].decided <=> cases'[k].status = "decided"
        <5>1. k \notin crossed
          BY <3>0
        <5>2. cases[k].decided <=> cases[k].status = "decided"
          BY <5>1 DEF CRInv, ReadForACase
        <5>3. CASE k # sCall[s].case
          BY <5>2, <5>3, <4>6
        <5>4. CASE k = sCall[s].case
          <6>1. cases[k].status = sCall[s].was
            BY <5>1, <5>4, <4>3
          <6>2. CASE sCall[s].op = "decide"
            BY <5>2, <5>4, <6>1, <6>2, <4>7 DEF StatusTo
          <6>3. CASE sCall[s].op # "decide"
            BY <5>2, <5>4, <6>1, <6>3, <4>7, <3>3 DEF StatusTo, CaseOps, CRInv, CallsNameCases
          <6> QED BY <6>2, <6>3
        <5> QED BY <5>3, <5>4
      <4>9. ASSUME NEW r \in reads PROVE r[3] \in lost \/ cases'[r[3]].chat = r[2]
        <5>1. r[3] \in lost \/ cases[r[3]].chat = r[2]
          BY DEF CRInv, ReadForACase
        <5>2. r[3] \in Case /\ r[2] \in ReviewChat
          BY DEF CRInv, ChatReviewTypes
        <5>3. cases[r[3]].chat = r[2] => cases[r[3]].status # "none"
          <6>1. cases[r[3]].status = "none" => cases[r[3]] = NoCaseRow
            BY <5>2, Zenon DEF CRInv, CaseRows
          <6>2. NoCaseRow.chat = NoCase
            BY DEF NoCaseRow
          <6>3. NoCase \notin ReviewChat
            BY ChatReviewAssumption
          <6> QED BY <5>2, <6>1, <6>2, <6>3
        <5> QED BY <5>1, <5>2, <5>3, <4>1, <4>6, <4>7
      <4> QED BY <4>5, <4>8, <4>9 DEF CRInv, ReadForACase
    <3> QED BY <1>8, <3>1, <3>2, <3>3 DEF StaffCommit, StaffCalls, CaseOps
  <2> QED BY <2>1, <2>2, <2>3, <2>4, <2>5, <2>6, <2>7 DEF CRInv
<1>9. ASSUME NEW s \in Moderator, StaffFails(s) PROVE CRInv'
  <2>1. ChatReviewTypes'
    BY <1>9 DEF CRInv, ChatReviewTypes, StaffCalls, NoStaffCall, StaffFails
  <2>2. CallsNameCases'
    BY <1>9 DEF CRInv, CallsNameCases, CaseOps, NoStaffCall, StaffFails
  <2>3. LoadedStands'
    BY <1>9 DEF CRInv, LoadedStands, CaseOps, NoStaffCall, StaffFails
  <2>4. CaseRows'
    BY <1>9 DEF CRInv, CaseRows, StaffFails
  <2>5. AccessOpened'
    BY <1>9 DEF CRInv, AccessOpened, NoStaffCall, StaffFails
  <2>6. OpeningsNameCases'
    BY <1>9 DEF CRInv, ChatReviewTypes, CallsNameCases, AccessOpened, OpeningsNameCases,
                StaffCalls, StaffFails
  <2>7. ReadForACase'
    BY <1>9 DEF CRInv, ReadForACase, StaffFails
  <2> QED BY <2>1, <2>2, <2>3, <2>4, <2>5, <2>6, <2>7 DEF CRInv
<1>10. ASSUME AccessTick PROVE CRInv'
  <2>1. ChatReviewTypes'
    BY <1>10 DEF CRInv, ChatReviewTypes, NoAccess, AccessTick
  <2>2. CallsNameCases'
    BY <1>10 DEF CRInv, CallsNameCases, AccessTick
  <2>3. LoadedStands'
    BY <1>10 DEF CRInv, LoadedStands, AccessTick
  <2>4. CaseRows'
    BY <1>10 DEF CRInv, CaseRows, AccessTick
  <2>5. AccessOpened'
    <3>1. ASSUME NEW key \in Moderator \X (ReviewChat \cup {NoCase}), access'[key].left > 0
          PROVE  access[key].left > 0 /\ access'[key].case = access[key].case
      <4>1. access[key] \in [case : Case \cup {NoCase}, left : Nat]
        BY DEF CRInv, ChatReviewTypes
      <4>2. access'[key] = IF access[key].left > 1 THEN [access[key] EXCEPT !.left = @ - 1] ELSE NoAccess
        BY <1>10 DEF AccessTick, CRInv, ChatReviewTypes
      <4>3. access[key].left > 1
        BY <3>1, <4>2 DEF NoAccess
      <4> QED BY <4>1, <4>2, <4>3
    <3>2. sCall' = sCall /\ openings' = openings
      BY <1>10 DEF AccessTick
    <3> QED BY <3>1, <3>2 DEF CRInv, AccessOpened
  <2>6. OpeningsNameCases'
    BY <1>10 DEF CRInv, OpeningsNameCases, AccessTick
  <2>7. ReadForACase'
    BY <1>10 DEF CRInv, ReadForACase, AccessTick
  <2> QED BY <2>1, <2>2, <2>3, <2>4, <2>5, <2>6, <2>7 DEF CRInv
<1>11. CASE UNCHANGED chatReviewVars
  BY <1>11 DEF chatReviewVars, CRInv, ChatReviewTypes, CallsNameCases, LoadedStands, CaseRows,
               AccessOpened, OpeningsNameCases, ReadForACase, StaffCalls
<1> QED
  BY <1>1, <1>2, <1>3, <1>4, <1>5, <1>6, <1>7, <1>8, <1>9, <1>10, <1>11 DEF ChatReviewNext

\* The invariant holds in every state.
THEOREM ChatReviewInvariant == ChatReviewSpec => []CRInv
  BY CRInvInit, CRInvStep, PTL DEF ChatReviewSpec

\* Chats are read only for a case of theirs, for any number of staff, chats and
\* cases: ReadForACase of every specified behaviour.
THEOREM ChatsReadForACase == ChatReviewSpec => []ReadForACase
<1>1. CRInv => ReadForACase
  BY DEF CRInv
<1> QED
  BY <1>1, ChatReviewInvariant, PTL

(***************************************************************************)
(* Reviews: the inductive invariant                                        *)
(***************************************************************************)

RvOps == {"write", "approve", "reject", "hide", "unhide", "reply"}

ReviewRow == [text : Nat, stars : Nat, status : {"none", "pending", "approved", "rejected"},
              hidden : BOOLEAN, reply : Nat]

\* The columns of the profile: whatever can be computed from some reviews.
Columns == [rating : {RatingOf(rows).rating : rows \in [Author -> ReviewRow]} \cup {0},
            count : {RatingOf(rows).count : rows \in [Author -> ReviewRow]} \cup {0}]

RvCalls == [op : RvOps \cup {"none"}, on : SUBSET Author, rows : [Author -> ReviewRow],
            biz : Columns, to : Columns, stars : Nat, flushed : BOOLEAN, alone : BOOLEAN]

ReviewTypes ==
    /\ review \in [Author -> ReviewRow] /\ profile \in Columns
    /\ rvCall \in [ReviewCall -> RvCalls]
    /\ passed \in [Author -> Nat] /\ healed \in BOOLEAN /\ sound \in [Author -> BOOLEAN]

RvOpen(c) == rvCall[c].op # "none"

\* Only an open call has flushed, and a reply was let through for an approved review.
CallsInOrder ==
    \A c \in ReviewCall :
        /\ rvCall[c].flushed => RvOpen(c)
        /\ rvCall[c].op = "reply" => \A a \in rvCall[c].on : rvCall[c].rows[a].status = "approved"

\* The reviews as a call will leave them.
LeftBy(c) == RowsWritten(rvCall[c])

\* What a call that overlaps no other loaded still stands, and the rating it computed
\* is that of the reviews as it leaves them.
AloneStands ==
    \A c \in ReviewCall : RvOpen(c) /\ rvCall[c].alone =>
        /\ \A d \in ReviewCall \ {c} : ~RvOpen(d)
        /\ \A a \in rvCall[c].on : rvCall[c].rows[a] = review[a]
        /\ rvCall[c].biz = profile
        /\ rvCall[c].flushed =>
              rvCall[c].to = IF Refreshes(rvCall[c]) THEN RatingOf(LeftBy(c)) ELSE profile

\* ReviewsStand for one review, with the approval kept while it is hidden.
SoundReview(a) ==
    /\ review[a].status = "approved" => passed[a] = review[a].text
    /\ review[a].reply # 0 => review[a].reply = review[a].text /\ review[a].status = "approved"

RvInv == /\ ReviewTypes /\ CallsInOrder /\ AloneStands
         /\ \A a \in Author : sound[a] => SoundReview(a)
         /\ healed => profile = RatingOf(review)

LEMMA RatingInColumns ==
    ASSUME NEW rows \in [Author -> ReviewRow]
    PROVE  RatingOf(rows) \in Columns
<1>1. RatingOf(rows) = [rating |-> RatingOf(rows).rating, count |-> RatingOf(rows).count]
  BY DEF RatingOf
<1> QED BY <1>1 DEF Columns

\* The rating depends on the stars of the reviews that are shown only.
LEMMA SameShown ==
    ASSUME NEW was \in [Author -> ReviewRow], NEW rows \in [Author -> ReviewRow],
           \A a \in Author : was[a] # rows[a] =>
              \/ a \notin Visible(was) \cup Visible(rows)
              \/ /\ rows[a].stars = was[a].stars
                 /\ rows[a].status = was[a].status /\ rows[a].hidden = was[a].hidden
    PROVE  RatingOf(rows) = RatingOf(was)
<1>1. Visible(rows) = Visible(was)
  BY DEF Visible
<1>2. \A a \in Visible(was) : a \in Author /\ rows[a].stars = was[a].stars
  BY <1>1 DEF Visible
<1>3. [a \in Visible(rows) |-> rows[a].stars] = [a \in Visible(was) |-> was[a].stars]
  BY <1>1, <1>2
<1> QED BY <1>1, <1>3 DEF RatingOf

LEMMA SetKeeps ==
    ASSUME NEW call \in RvCalls, call.op # "none", NEW r \in ReviewRow
    PROVE  SetByCall(call, r) \in ReviewRow
<1>1. CASE call.op = "write"
  BY <1>1 DEF SetByCall, RvCalls, ReviewRow
<1>2. CASE call.op = "approve"
  BY <1>2 DEF SetByCall, ReviewRow
<1>3. CASE call.op = "reject"
  BY <1>3 DEF SetByCall, ReviewRow
<1>4. CASE call.op = "hide"
  BY <1>4 DEF SetByCall, ReviewRow
<1>5. CASE call.op = "unhide"
  BY <1>5 DEF SetByCall, ReviewRow
<1>6. CASE call.op = "reply"
  BY <1>6 DEF SetByCall, ReviewRow
<1> QED BY <1>1, <1>2, <1>3, <1>4, <1>5, <1>6 DEF RvCalls, RvOps

\* An UPDATE leaves each column as it is or sets it.
LEMMA WrittenKeeps ==
    ASSUME NEW r \in ReviewRow, NEW was \in ReviewRow, NEW to \in ReviewRow
    PROVE  RowWritten(r, was, to) \in ReviewRow /\ RowWritten(r, r, to) = to
<1> DEFINE w == RowWritten(r, was, to)
           v == RowWritten(r, r, to)
           F == {"text", "stars", "status", "hidden", "reply"}
<1>1. DOMAIN r = F /\ DOMAIN to = F
  BY DEF ReviewRow
<1>2. /\ w = [k \in F |-> w[k]] /\ v = [k \in F |-> v[k]] /\ to = [k \in F |-> to[k]]
      /\ \A k \in F : w[k] \in {r[k], to[k]} /\ v[k] = to[k]
  BY <1>1 DEF RowWritten, ReviewRow
<1>3. v = to
  BY <1>2
<1>4. w = [text |-> w.text, stars |-> w.stars, status |-> w.status, hidden |-> w.hidden,
           reply |-> w.reply]
  BY <1>2
<1>5. w \in ReviewRow
  <2>1. /\ w.text \in {r.text, to.text} /\ w.stars \in {r.stars, to.stars}
        /\ w.status \in {r.status, to.status} /\ w.hidden \in {r.hidden, to.hidden}
        /\ w.reply \in {r.reply, to.reply}
    BY <1>2
  <2> HIDE DEF w
  <2> QED BY <1>4, <2>1 DEF ReviewRow
<1> QED BY <1>3, <1>5

LEMMA ColumnsKeep ==
    ASSUME NEW r \in Columns, NEW was \in Columns, NEW to \in Columns
    PROVE  RowWritten(r, was, to) \in Columns /\ RowWritten(r, r, to) = to
<1> DEFINE w == RowWritten(r, was, to)
           v == RowWritten(r, r, to)
           F == {"rating", "count"}
<1>1. DOMAIN r = F /\ DOMAIN to = F
  BY DEF Columns
<1>2. /\ w = [k \in F |-> w[k]] /\ v = [k \in F |-> v[k]] /\ to = [k \in F |-> to[k]]
      /\ \A k \in F : w[k] \in {r[k], to[k]} /\ v[k] = to[k]
  BY <1>1 DEF RowWritten, Columns
<1>3. v = to
  BY <1>2
<1>4. w = [rating |-> w.rating, count |-> w.count]
  BY <1>2
<1>5. w.rating \in {r.rating, to.rating} /\ w.count \in {r.count, to.count}
  BY <1>2
<1> HIDE DEF w
<1>6. w \in Columns
  BY <1>4, <1>5 DEF Columns
<1> QED BY <1>3, <1>6 DEF w

LEMMA RowsKeep ==
    ASSUME ReviewTypes, NEW call \in RvCalls, call.op # "none"
    PROVE  RowsWritten(call) \in [Author -> ReviewRow]
<1>1. \A a \in call.on : /\ a \in Author /\ call.rows[a] \in ReviewRow
                         /\ RowWritten(review[a], call.rows[a], SetByCall(call, call.rows[a])) \in ReviewRow
  BY SetKeeps, WrittenKeeps DEF RvCalls, ReviewTypes
<1> QED BY <1>1 DEF RowsWritten, ReviewTypes

LEMMA RvInvInit == ReviewsInit => RvInv
<1> SUFFICES ASSUME ReviewsInit PROVE RvInv
  OBVIOUS
<1>1. NoReview \in ReviewRow /\ [rating |-> 0, count |-> 0] \in Columns
  BY DEF NoReview, ReviewRow, Columns
<1>2. NoRvCall \in RvCalls /\ NoRvCall.op = "none" /\ ~NoRvCall.flushed
  BY <1>1 DEF NoRvCall, RvCalls, RvOps
<1>3. ReviewTypes /\ CallsInOrder /\ AloneStands
  BY <1>1, <1>2 DEF ReviewsInit, ReviewTypes, CallsInOrder, AloneStands, RvOpen
<1>4. \A a \in Author : SoundReview(a)
  BY DEF ReviewsInit, SoundReview, NoReview
<1>5. profile = RatingOf(review)
  <2>1. Visible(review) = {}
    BY DEF ReviewsInit, Visible, NoReview
  <2>2. Cardinality({}) = 0 /\ DOMAIN [a \in Visible(review) |-> review[a].stars] = {}
    BY <2>1, FS_EmptySet
  <2> QED BY <2>1, <2>2 DEF RatingOf, Mean, ReviewsInit
<1> QED BY <1>3, <1>4, <1>5 DEF RvInv

\* A call that opens ends the solitude of the others, and has it if there are none.
LEMMA LoadKeeps ==
    ASSUME RvInv, NEW c \in ReviewCall, NEW op \in RvOps, NEW on \in SUBSET Author, NEW st \in Nat,
           RvLoad(c, op, on, st),
           op = "reply" => \A a \in on : review[a].status = "approved"
    PROVE  RvInv'
<1> DEFINE others == {d \in ReviewCall : RvOpen(d)}
           rows == [a \in Author |-> IF a \in on THEN review[a] ELSE NoReview]
<1>1. rvCall[c].op = "none" /\ c \notin others
  BY DEF RvLoad, RvOpen
<1>2. rows \in [Author -> ReviewRow] /\ \A a \in on : rows[a] = review[a]
  BY DEF RvInv, ReviewTypes, NoReview, ReviewRow
<1> DEFINE new == [op |-> op, on |-> on, rows |-> rows, biz |-> profile, to |-> profile,
                   stars |-> st, flushed |-> FALSE, alone |-> (others = {})]
<1>3. rvCall' = [d \in ReviewCall |-> IF d = c THEN new ELSE [rvCall[d] EXCEPT !.alone = FALSE]]
  BY Zenon DEF RvLoad, RvOpen
<1>4. UNCHANGED <<review, profile, passed, healed, sound>>
  BY DEF RvLoad
<1>5. new \in RvCalls
  BY <1>2 DEF RvCalls, RvInv, ReviewTypes
<1>6. \A d \in ReviewCall : [rvCall[d] EXCEPT !.alone = FALSE] \in RvCalls
  BY DEF RvInv, ReviewTypes, RvCalls
<1>7. rvCall' \in [ReviewCall -> RvCalls]
  BY <1>3, <1>5, <1>6
<1>8. /\ rvCall'[c] = new
      /\ \A d \in ReviewCall \ {c} : /\ ~rvCall'[d].alone
                                     /\ rvCall'[d].op = rvCall[d].op /\ rvCall'[d].on = rvCall[d].on
                                     /\ rvCall'[d].rows = rvCall[d].rows
                                     /\ rvCall'[d].flushed = rvCall[d].flushed
  BY <1>3 DEF RvInv, ReviewTypes, RvCalls
<1>9. ReviewTypes'
  BY <1>4, <1>7 DEF RvInv, ReviewTypes
<1>10. CallsInOrder'
  BY <1>2, <1>8 DEF RvInv, CallsInOrder, RvOpen, RvOps
<1>11. AloneStands'
  <2> SUFFICES ASSUME NEW d \in ReviewCall, RvOpen(d)', rvCall'[d].alone
               PROVE  /\ \A b \in ReviewCall \ {d} : ~RvOpen(b)'
                      /\ \A a \in rvCall'[d].on : rvCall'[d].rows[a] = review'[a]
                      /\ rvCall'[d].biz = profile' /\ ~rvCall'[d].flushed
    BY DEF AloneStands
  <2>3. d = c /\ new.alone
    BY <1>8
  <2>1. d = c /\ others = {}
    BY <2>3
  <2>2. \A b \in ReviewCall \ {d} : ~RvOpen(b)'
    BY <1>8, <2>1 DEF RvOpen
  <2> QED BY <1>2, <1>4, <1>8, <2>1, <2>2
<1>12. \A a \in Author : sound'[a] => SoundReview(a)'
  BY <1>4 DEF RvInv, SoundReview
<1>13. healed' => profile' = RatingOf(review)'
  BY <1>4 DEF RvInv
<1> QED BY <1>9, <1>10, <1>11, <1>12, <1>13 DEF RvInv

\* Flushing computes the rating of the reviews as the call will leave them.
LEMMA FlushKeeps ==
    ASSUME RvInv, NEW c \in ReviewCall, RvFlush(c)
    PROVE  RvInv'
<1> DEFINE call == rvCall[c]
           to == IF Refreshes(call) THEN RatingOf(RowsWritten(call)) ELSE call.biz
<1>1. call \in RvCalls /\ call.op # "none" /\ rvCall' = [rvCall EXCEPT ![c].flushed = TRUE, ![c].to = to]
  BY DEF RvFlush, RvInv, ReviewTypes
<1>2. UNCHANGED <<review, profile, passed, healed, sound>>
  BY DEF RvFlush
<1>3. to \in Columns
  BY <1>1, RowsKeep, RatingInColumns DEF RvInv, RvCalls
<1> HIDE DEF to
<1> DEFINE done == [call EXCEPT !.flushed = TRUE, !.to = to]
<1>4. /\ done \in RvCalls /\ done.op = call.op /\ done.on = call.on /\ done.rows = call.rows
      /\ done.stars = call.stars /\ done.biz = call.biz /\ done.alone = call.alone
      /\ done.to = to /\ done.flushed
  BY <1>1, <1>3 DEF RvCalls
<1>5. rvCall' = [rvCall EXCEPT ![c] = done]
  BY <1>1 DEF RvInv, ReviewTypes
<1> HIDE DEF done
<1>6. /\ rvCall'[c] = done /\ \A d \in ReviewCall \ {c} : rvCall'[d] = rvCall[d]
      /\ rvCall' \in [ReviewCall -> RvCalls]
  BY <1>4, <1>5 DEF RvInv, ReviewTypes
<1>7. ReviewTypes'
  BY <1>2, <1>6 DEF RvInv, ReviewTypes
<1>8. CallsInOrder'
  BY <1>1, <1>4, <1>6 DEF RvInv, CallsInOrder, RvOpen
<1>9. AloneStands'
  <2> SUFFICES ASSUME NEW d \in ReviewCall, RvOpen(d)', rvCall'[d].alone
               PROVE  /\ \A b \in ReviewCall \ {d} : ~RvOpen(b)'
                      /\ \A a \in rvCall'[d].on : rvCall'[d].rows[a] = review'[a]
                      /\ rvCall'[d].biz = profile'
                      /\ rvCall'[d].flushed => rvCall'[d].to =
                            IF Refreshes(rvCall'[d]) THEN RatingOf(LeftBy(d)') ELSE profile'
    BY DEF AloneStands
  <2>1. RvOpen(d) /\ rvCall[d].alone
    BY <1>1, <1>4, <1>6 DEF RvOpen
  <2>2. d = c
    BY <1>1, <2>1 DEF RvInv, AloneStands, RvOpen
  <2>3. \A b \in ReviewCall \ {d} : ~RvOpen(b)'
    BY <1>6, <2>1, <2>2 DEF RvInv, AloneStands, RvOpen
  <2>4. call.biz = profile /\ \A a \in call.on : call.rows[a] = review[a]
    BY <2>1, <2>2 DEF RvInv, AloneStands
  <2>5. Refreshes(done) = Refreshes(call)
    BY <1>4 DEF Refreshes
  <2>6. \A r \in ReviewRow : SetByCall(done, r) = SetByCall(call, r)
    BY <1>4 DEF SetByCall
  <2>7. LeftBy(c)' = RowsWritten(call)
    <3>1. /\ \A a \in call.on : call.rows[a] \in ReviewRow
          /\ rvCall'[c] = done
      BY <1>1, <1>6 DEF RvCalls
    <3>2. LeftBy(c)' = [a \in Author |-> IF a \in done.on
                           THEN RowWritten(review[a], done.rows[a], SetByCall(done, done.rows[a]))
                           ELSE review[a]]
      BY <1>2, <1>6 DEF LeftBy, RowsWritten
    <3> QED BY <1>4, <2>6, <3>1, <3>2 DEF RowsWritten
  <2>8. to = IF Refreshes(call) THEN RatingOf(RowsWritten(call)) ELSE call.biz
    BY DEF to
  <2> QED BY <1>2, <1>4, <1>6, <2>2, <2>3, <2>4, <2>5, <2>7, <2>8
<1>10. \A a \in Author : sound'[a] => SoundReview(a)'
  BY <1>2 DEF RvInv, SoundReview
<1>11. healed' => profile' = RatingOf(review)'
  BY <1>2 DEF RvInv
<1> QED BY <1>7, <1>8, <1>9, <1>10, <1>11 DEF RvInv

\* A call that goes leaves the others as they were.
LEMMA GoneKeeps ==
    ASSUME RvInv, NEW c \in ReviewCall, rvCall' = [rvCall EXCEPT ![c] = NoRvCall],
           \/ UNCHANGED <<review, profile>>
           \/ RvOpen(c) /\ \A d \in ReviewCall \ {c} : ~(RvOpen(d) /\ rvCall[d].alone)
    PROVE  rvCall' \in [ReviewCall -> RvCalls] /\ CallsInOrder' /\ AloneStands'
<1>1. NoRvCall \in RvCalls /\ NoRvCall.op = "none" /\ ~NoRvCall.flushed
  BY DEF NoRvCall, RvCalls, RvOps, NoReview, ReviewRow, Columns
<1>2. /\ rvCall' \in [ReviewCall -> RvCalls] /\ rvCall'[c] = NoRvCall
      /\ \A d \in ReviewCall \ {c} : rvCall'[d] = rvCall[d]
  BY <1>1 DEF RvInv, ReviewTypes
<1>3. CallsInOrder'
  BY <1>1, <1>2 DEF RvInv, CallsInOrder, RvOpen
<1>4. AloneStands'
  <2> SUFFICES ASSUME NEW d \in ReviewCall, RvOpen(d)', rvCall'[d].alone
               PROVE  /\ \A b \in ReviewCall \ {d} : ~RvOpen(b)'
                      /\ \A a \in rvCall'[d].on : rvCall'[d].rows[a] = review'[a]
                      /\ rvCall'[d].biz = profile'
                      /\ rvCall'[d].flushed => rvCall'[d].to =
                            IF Refreshes(rvCall'[d]) THEN RatingOf(LeftBy(d)') ELSE profile'
    BY DEF AloneStands
  <2>1. d # c /\ rvCall'[d] = rvCall[d] /\ RvOpen(d) /\ rvCall[d].alone
    BY <1>1, <1>2 DEF RvOpen
  <2>2. UNCHANGED <<review, profile>>
    BY <2>1
  <2>3. LeftBy(d)' = LeftBy(d)
    BY <2>1, <2>2 DEF LeftBy, RowsWritten
  <2>4. \A b \in ReviewCall \ {d} : ~RvOpen(b)'
    BY <1>1, <1>2, <2>1 DEF RvInv, AloneStands, RvOpen
  <2> QED BY <2>1, <2>2, <2>3, <2>4 DEF RvInv, AloneStands
<1> QED BY <1>2, <1>3, <1>4

\* The commit: a call that overlapped no other leaves each review as it meant to, and
\* the rating of what is then shown.
LEMMA CommitKeeps ==
    ASSUME RvInv, NEW c \in ReviewCall, RvCommit(c)
    PROVE  RvInv'
<1> DEFINE call == rvCall[c]
<1>1. call \in RvCalls /\ call.op # "none" /\ call.flushed /\ RvOpen(c)
  BY DEF RvCommit, RvInv, ReviewTypes, CallsInOrder, RvOpen
<1>2. review' = RowsWritten(call) /\ profile' = RowWritten(profile, call.biz, call.to)
  BY DEF RvCommit
<1>3. review' \in [Author -> ReviewRow] /\ profile' \in Columns
  BY <1>1, <1>2, RowsKeep, ColumnsKeep DEF RvInv, ReviewTypes, RvCalls
<1>4. rvCall' \in [ReviewCall -> RvCalls] /\ CallsInOrder' /\ AloneStands'
  <2>1. rvCall' = [rvCall EXCEPT ![c] = NoRvCall]
    BY DEF RvCommit
  <2>2. \A d \in ReviewCall \ {c} : ~(RvOpen(d) /\ rvCall[d].alone)
    BY <1>1 DEF RvInv, AloneStands
  <2> QED BY <1>1, <2>1, <2>2, GoneKeeps
<1>5. /\ passed' = [a \in Author |-> IF a \in call.on /\ call.op = "approve"
                                     THEN call.rows[a].text ELSE passed[a]]
      /\ healed' = (call.alone /\ (healed \/ Refreshes(call)))
      /\ sound' = [a \in Author |-> IF a \notin call.on THEN sound[a]
                                    ELSE call.alone /\ (sound[a] \/ call.op \in {"write", "reject"})]
  BY DEF RvCommit
<1>6. ReviewTypes'
  <2>1. \A a \in Author : call.rows[a].text \in Nat /\ passed[a] \in Nat /\ sound[a] \in BOOLEAN
    BY <1>1 DEF RvCalls, ReviewRow, RvInv, ReviewTypes
  <2>2. passed' \in [Author -> Nat]
    BY <1>5, <2>1
  <2>3. sound' \in [Author -> BOOLEAN] /\ healed' \in BOOLEAN
    BY <1>5, <2>1
  <2> QED BY <1>3, <1>4, <2>2, <2>3 DEF ReviewTypes
<1>7. ASSUME call.alone, NEW a \in call.on
      PROVE  a \in Author /\ review'[a] = SetByCall(call, review[a]) /\ call.rows[a] = review[a]
  <2>1. a \in Author /\ call.rows[a] = review[a] /\ review[a] \in ReviewRow
    BY <1>1, <1>7 DEF RvInv, AloneStands, RvCalls, ReviewTypes
  <2>2. SetByCall(call, review[a]) \in ReviewRow
    BY <1>1, <2>1, SetKeeps
  <2> QED BY <1>2, <2>1, <2>2, WrittenKeeps DEF RowsWritten
<1>8. \A a \in Author \ call.on : review'[a] = review[a]
  BY <1>2 DEF RowsWritten
<1>9. \A a \in Author : sound'[a] => SoundReview(a)'
  <2> SUFFICES ASSUME NEW a \in Author, sound'[a] PROVE SoundReview(a)'
    OBVIOUS
  <2>1. CASE a \notin call.on
    BY <1>5, <1>8, <2>1 DEF RvInv, SoundReview
  <2>2. CASE a \in call.on
    <3>1. /\ call.alone /\ (sound[a] \/ call.op \in {"write", "reject"})
          /\ passed'[a] = IF call.op = "approve" THEN call.rows[a].text ELSE passed[a]
      BY <1>5, <2>2
    <3>2. review'[a] = SetByCall(call, review[a]) /\ call.rows[a] = review[a] /\ review[a] \in ReviewRow
      BY <1>7, <2>2, <3>1 DEF RvInv, ReviewTypes
    <3>3. sound[a] => SoundReview(a)
      BY DEF RvInv
    <3>4. call.op = "reply" => review[a].status = "approved"
      BY <1>1, <2>2, <3>2 DEF RvInv, CallsInOrder
    <3>5. CASE call.op = "write"
      BY <3>2, <3>5 DEF SetByCall, SoundReview
    <3>6. CASE call.op = "reject"
      BY <3>2, <3>6 DEF SetByCall, SoundReview, ReviewRow
    <3>7. CASE call.op = "approve"
      BY <3>1, <3>2, <3>3, <3>7 DEF SetByCall, SoundReview, ReviewRow
    <3>8. CASE call.op \in {"hide", "unhide"}
      BY <3>1, <3>2, <3>3, <3>8 DEF SetByCall, SoundReview, ReviewRow
    <3>9. CASE call.op = "reply"
      BY <3>1, <3>2, <3>3, <3>4, <3>9 DEF SetByCall, SoundReview, ReviewRow
    <3> QED BY <1>1, <3>5, <3>6, <3>7, <3>8, <3>9 DEF RvCalls, RvOps
  <2> QED BY <2>1, <2>2
<1>10. healed' => profile' = RatingOf(review)'
  <2> SUFFICES ASSUME healed' PROVE profile' = RatingOf(review')
    BY DEF RatingOf, Visible
  <2>1. call.alone /\ (healed \/ Refreshes(call))
    BY <1>5
  <2>2. /\ call.biz = profile
        /\ call.to = IF Refreshes(call) THEN RatingOf(RowsWritten(call)) ELSE profile
    BY <1>1, <2>1 DEF RvInv, AloneStands, LeftBy
  <2>3. profile' = call.to
    BY <1>1, <1>2, <2>2, ColumnsKeep DEF RvInv, ReviewTypes, RvCalls
  <2>4. CASE Refreshes(call)
    BY <1>2, <2>2, <2>3, <2>4
  <2>5. CASE ~Refreshes(call)
    <3>1. \/ call.op = "write" /\ \A a \in call.on : call.rows[a].status # "approved"
          \/ call.op = "reply"
      BY <1>1, <2>5 DEF Refreshes, RvCalls, RvOps
    <3>2. \A a \in Author : review[a] # review'[a] =>
             \/ a \notin Visible(review) \cup Visible(review')
             \/ /\ review'[a].stars = review[a].stars
                /\ review'[a].status = review[a].status /\ review'[a].hidden = review[a].hidden
      <4> SUFFICES ASSUME NEW a \in Author, review[a] # review'[a]
                   PROVE  \/ a \notin Visible(review) \cup Visible(review')
                          \/ /\ review'[a].stars = review[a].stars
                             /\ review'[a].status = review[a].status
                             /\ review'[a].hidden = review[a].hidden
        OBVIOUS
      <4>1. a \in call.on
        BY <1>8
      <4>2. review'[a] = SetByCall(call, review[a]) /\ call.rows[a] = review[a] /\ review[a] \in ReviewRow
        BY <1>7, <2>1, <4>1 DEF RvInv, ReviewTypes
      <4>3. CASE call.op = "write"
        BY <3>1, <4>1, <4>2, <4>3 DEF SetByCall, Visible
      <4>4. CASE call.op = "reply"
        BY <4>2, <4>4 DEF SetByCall, ReviewRow
      <4> QED BY <3>1, <4>3, <4>4
    <3>3. RatingOf(review') = RatingOf(review)
      BY <1>3, <3>2, SameShown DEF RvInv, ReviewTypes
    <3> QED BY <2>1, <2>2, <2>3, <2>5, <3>3 DEF RvInv
  <2> QED BY <2>4, <2>5
<1> QED BY <1>4, <1>6, <1>9, <1>10 DEF RvInv

LEMMA RvInvStep == RvInv /\ [ReviewsNext]_reviewVars => RvInv'
<1> SUFFICES ASSUME RvInv, [ReviewsNext]_reviewVars PROVE RvInv'
  OBVIOUS
<1>1. ASSUME NEW c \in ReviewCall, NEW a \in Author, NEW s \in Stars, WriteReviewLoad(c, a, s)
      PROVE  RvInv'
  <2>1. RvLoad(c, "write", {a}, s) /\ s \in Nat
    BY <1>1, ReviewsAssumption DEF WriteReviewLoad
  <2> QED BY <2>1, LoadKeeps DEF RvOps
<1>2. ASSUME NEW c \in ReviewCall, NEW on \in SUBSET Author,
             NEW op \in {"approve", "reject", "hide", "unhide"}, ModerateLoad(c, op, on)
      PROVE  RvInv'
  <2>1. RvLoad(c, op, on, 0) /\ op \in RvOps /\ op # "reply"
    BY <1>2 DEF ModerateLoad, RvOps
  <2> QED BY <2>1, LoadKeeps
<1>3. ASSUME NEW c \in ReviewCall, NEW a \in Author, CompanyReplyLoad(c, a)
      PROVE  RvInv'
  <2>1. RvLoad(c, "reply", {a}, 0) /\ review[a].status = "approved"
    BY <1>3 DEF CompanyReplyLoad, Visible
  <2> QED BY <2>1, LoadKeeps DEF RvOps
<1>4. ASSUME NEW c \in ReviewCall, RvFlush(c) PROVE RvInv'
  BY <1>4, FlushKeeps
<1>5. ASSUME NEW c \in ReviewCall, RvCommit(c) PROVE RvInv'
  BY <1>5, CommitKeeps
<1>6. ASSUME NEW c \in ReviewCall, RvFails(c) PROVE RvInv'
  <2>1. /\ rvCall' = [rvCall EXCEPT ![c] = NoRvCall]
        /\ UNCHANGED <<review, profile, passed, healed, sound>>
    BY <1>6 DEF RvFails
  <2>2. rvCall' \in [ReviewCall -> RvCalls] /\ CallsInOrder' /\ AloneStands'
    BY <2>1, GoneKeeps
  <2>3. \A a \in Author : sound'[a] => SoundReview(a)'
    BY <2>1 DEF RvInv, SoundReview
  <2>4. healed' => profile' = RatingOf(review)'
    BY <2>1 DEF RvInv
  <2> QED BY <2>1, <2>2, <2>3, <2>4 DEF RvInv, ReviewTypes
<1>7. CASE UNCHANGED reviewVars
  <2>1. UNCHANGED <<review, profile, rvCall, passed, healed, sound>>
    BY <1>7 DEF reviewVars
  <2>2. \A a \in Author : sound'[a] => SoundReview(a)'
    BY <2>1 DEF RvInv, SoundReview
  <2>3. ReviewTypes' /\ CallsInOrder'
    BY <2>1 DEF RvInv, ReviewTypes, CallsInOrder, RvOpen
  <2>4. AloneStands'
    BY <2>1 DEF RvInv, AloneStands, RvOpen, LeftBy, RowsWritten
  <2> QED BY <2>1, <2>2, <2>3, <2>4 DEF RvInv
<1> QED BY <1>1, <1>2, <1>3, <1>4, <1>5, <1>6, <1>7 DEF ReviewsNext

\* Outside overlaps the profile shows the rating of the reviews a visitor sees, and a
\* review is seen in the words a moderator approved, with a reply to those words
\* (business_reviews.py, its unlocked loads and late writes), for any number of
\* authors and overlapping calls.
THEOREM RatingsStand == ReviewsSpec => []ReviewsStand
<1>1. RvInv => ReviewsStand
  BY DEF RvInv, ReviewsStand, SoundReview, Visible
<1>2. ReviewsSpec => []RvInv
  BY RvInvInit, RvInvStep, PTL DEF ReviewsSpec
<1> QED BY <1>1, <1>2, PTL

(***************************************************************************)
(* The form of a partner application                                       *)
(***************************************************************************)

Product == [id : 1 .. MaxCards, text : Nat, images : SUBSET (Nat \X (1 .. MaxCards)),
            video : 0 .. MaxCards]
Upload == [n : Nat, kind : {"image", "video"}, at : Nat, card : 1 .. MaxCards, stale : BOOLEAN]

FormTypes ==
    /\ prods \in Seq(Product) /\ draft \in Seq(Product) /\ payload \in Seq(Product)
    /\ cards \in Seq(Nat) /\ uploads \in SUBSET Upload
    /\ step \in 0 .. 3 /\ made \in 1 .. MaxCards /\ chosen \in Nat /\ shifted \in BOOLEAN
    /\ typed \in [1 .. MaxCards -> Nat]

\* Every card has a number of its own, given by now.
Named(ps, m) == /\ \A i, j \in DOMAIN ps : ps[i].id = ps[j].id => i = j
                /\ \A i \in DOMAIN ps : ps[i].id <= m

\* The files stand under the product they were chosen for.
Filed(ps) == \A i \in DOMAIN ps : (\A f \in ps[i].images : f[2] = ps[i].id) /\ ps[i].video \in {0, ps[i].id}

\* The page shows what was typed last.
PageTyped(cs, ps, ty) == Len(cs) = Len(ps) /\ \A i \in DOMAIN ps : cs[i] = ty[ps[i].id]

\* The state holds it too.
StateTyped(ps, ty) == \A i \in DOMAIN ps : ps[i].text = ty[ps[i].id]

FormInv ==
    /\ FormTypes /\ prods # <<>>
    /\ Named(prods, made) /\ Named(draft, made)
    /\ step >= 2 => cards # <<>>
    /\ cards # <<>> => PageTyped(cards, prods, typed)
    /\ step < 2 => StateTyped(prods, typed)
    /\ \A id \in 1 .. MaxCards : id > made => typed[id] = 0
    /\ ~shifted => /\ Filed(prods) /\ Filed(draft) /\ Filed(payload)
                   /\ \A u \in uploads : u.at \in DOMAIN prods /\ prods[u.at].id = u.card

USE FormAssumption

\* The same cards, perhaps with other texts.
Alike(ps, qs) == /\ DOMAIN qs = DOMAIN ps
                 /\ \A i \in DOMAIN ps : /\ qs[i].id = ps[i].id /\ qs[i].images = ps[i].images
                                         /\ qs[i].video = ps[i].video

LEMMA AlikeKeeps ==
    ASSUME NEW ps, NEW qs, NEW m, Alike(ps, qs)
    PROVE  /\ Named(ps, m) => Named(qs, m)
           /\ Filed(ps) => Filed(qs)
BY DEF Alike, Named, Filed

LEMMA SeqFacts ==
    ASSUME NEW S, NEW ps \in Seq(S)
    PROVE  /\ Len(ps) \in Nat /\ DOMAIN ps = 1 .. Len(ps) /\ \A i \in DOMAIN ps : ps[i] \in S
           /\ ps = <<>> <=> Len(ps) = 0
OBVIOUS

\* The texts of the products, for the page.
LEMMA TextsDrawn ==
    ASSUME NEW ps \in Seq(Product)
    PROVE  /\ Texts(ps) \in Seq(Nat) /\ Len(Texts(ps)) = Len(ps)
           /\ \A i \in DOMAIN ps : Texts(ps)[i] = ps[i].text
           /\ \A ty : StateTyped(ps, ty) => PageTyped(Texts(ps), ps, ty)
<1>1. Len(ps) \in Nat /\ DOMAIN ps = 1 .. Len(ps) /\ \A i \in 1 .. Len(ps) : ps[i] \in Product
  BY SeqFacts
<1>2. \A i \in 1 .. Len(ps) : ps[i].text \in Nat
  BY <1>1 DEF Product
<1>3. Texts(ps) = [i \in 1 .. Len(ps) |-> ps[i].text]
  BY DEF Texts
<1>4. Texts(ps) \in [1 .. Len(ps) -> Nat]
  BY <1>2, <1>3
<1>5. Texts(ps) \in Seq(Nat) /\ Len(Texts(ps)) = Len(ps)
  BY <1>1, <1>4
<1>6. \A i \in DOMAIN ps : Texts(ps)[i] = ps[i].text
  BY <1>1, <1>3
<1> QED BY <1>5, <1>6 DEF StateTyped, PageTyped

\* The page is read: the cards are the same, with the texts of the page.
LEMMA CardsRead ==
    ASSUME FormInv, cards # <<>>
    PROVE  /\ ReadCards \in Seq(Product) /\ ReadCards # <<>> /\ Alike(prods, ReadCards)
           /\ StateTyped(ReadCards, typed) /\ Len(ReadCards) = Len(prods)
           /\ Len(cards) = Len(prods)
<1>1. /\ Len(prods) \in Nat /\ DOMAIN prods = 1 .. Len(prods)
      /\ \A i \in 1 .. Len(prods) : prods[i] \in Product
  BY SeqFacts DEF FormInv, FormTypes
<1>2. Len(cards) = Len(prods) /\ \A i \in 1 .. Len(prods) : cards[i] = typed[prods[i].id]
  BY <1>1 DEF FormInv, PageTyped
<1>3. \A i \in 1 .. Len(prods) : cards[i] \in Nat
  <2>1. cards \in Seq(Nat)
    BY DEF FormInv, FormTypes
  <2> QED BY <2>1, <1>2
<1>4. ReadCards = [i \in 1 .. Len(prods) |-> [prods[i] EXCEPT !.text = cards[i]]]
  BY <1>2 DEF ReadCards
<1>5. ASSUME NEW i \in 1 .. Len(prods)
      PROVE  LET p == [prods[i] EXCEPT !.text = cards[i]] IN
             /\ p \in Product /\ p.text = cards[i] /\ p.id = prods[i].id
             /\ p.images = prods[i].images /\ p.video = prods[i].video
  <2>1. prods[i] \in Product /\ cards[i] \in Nat
    BY <1>1, <1>3
  <2> QED BY <2>1 DEF Product
<1>6. ReadCards \in [1 .. Len(prods) -> Product]
  BY <1>4, <1>5
<1>7. ReadCards \in Seq(Product) /\ Len(ReadCards) = Len(prods) /\ DOMAIN ReadCards = 1 .. Len(prods)
  BY <1>1, <1>6
<1>8. \A i \in 1 .. Len(prods) : /\ ReadCards[i].text = cards[i] /\ ReadCards[i].id = prods[i].id
                                 /\ ReadCards[i].images = prods[i].images
                                 /\ ReadCards[i].video = prods[i].video
  BY <1>4, <1>5
<1>9. ReadCards # <<>>
  BY <1>1, <1>7 DEF FormInv
<1>10. Alike(prods, ReadCards)
  BY <1>1, <1>7, <1>8 DEF Alike
<1>11. StateTyped(ReadCards, typed)
  BY <1>2, <1>7, <1>8 DEF StateTyped
<1> QED BY <1>2, <1>7, <1>9, <1>10, <1>11

\* What the state holds is taken for what was typed.
LEMMA TypedAnew ==
    ASSUME FormTypes, NEW ps \in Seq(Product), Named(ps, made)
    PROVE  /\ TypedIn(ps) \in [1 .. MaxCards -> Nat] /\ StateTyped(ps, TypedIn(ps))
           /\ (\A id \in 1 .. MaxCards : id > made => typed[id] = 0) =>
                 \A id \in 1 .. MaxCards : id > made => TypedIn(ps)[id] = 0
<1>1. /\ Len(ps) \in Nat /\ DOMAIN ps = 1 .. Len(ps) /\ \A i \in 1 .. Len(ps) : ps[i] \in Product
  BY SeqFacts
<1>2. \A i \in 1 .. Len(ps) : ps[i].id \in 1 .. MaxCards /\ ps[i].text \in Nat
  BY <1>1 DEF Product
<1>3. ToSet(ps) = {ps[i] : i \in 1 .. Len(ps)}
  BY <1>1 DEF ToSet
<1>4. ASSUME NEW id \in 1 .. MaxCards
      PROVE  /\ TypedIn(ps)[id] \in Nat
             /\ \A i \in 1 .. Len(ps) : ps[i].id = id => TypedIn(ps)[id] = ps[i].text
             /\ id > made => TypedIn(ps)[id] = typed[id]
  <2>1. TypedIn(ps)[id] = IF \E p \in ToSet(ps) : p.id = id
                          THEN (CHOOSE p \in ToSet(ps) : p.id = id).text ELSE typed[id]
    BY DEF TypedIn
  <2>2. CASE \E p \in ToSet(ps) : p.id = id
    <3> DEFINE q == CHOOSE p \in ToSet(ps) : p.id = id
    <3>1. q \in ToSet(ps) /\ q.id = id
      BY <2>2
    <3>2. PICK i \in 1 .. Len(ps) : q = ps[i]
      BY <1>3, <3>1
    <3>3. \A j \in 1 .. Len(ps) : ps[j].id = id => j = i
      BY <1>1, <3>1, <3>2 DEF Named
    <3>4. id <= made /\ made \in Nat
      <4>1. ps[i].id = id /\ made \in Nat
        BY <3>1, <3>2 DEF FormTypes
      <4> QED BY <1>1, <4>1 DEF Named
    <3>5. TypedIn(ps)[id] = ps[i].text
      BY <2>1, <2>2, <3>2
    <3> QED BY <1>2, <3>3, <3>4, <3>5
  <2>3. CASE ~\E p \in ToSet(ps) : p.id = id
    <3>1. \A i \in 1 .. Len(ps) : ps[i].id # id
      BY <1>3, <2>3
    <3> QED BY <2>1, <2>3, <3>1 DEF FormTypes
  <2> QED BY <2>2, <2>3
<1>5. TypedIn(ps) \in [1 .. MaxCards -> Nat]
  <2>1. TypedIn(ps) = [id \in 1 .. MaxCards |-> TypedIn(ps)[id]]
    BY DEF TypedIn
  <2> QED BY <1>4, <2>1
<1>6. StateTyped(ps, TypedIn(ps))
  BY <1>1, <1>2, <1>4 DEF StateTyped
<1> QED BY <1>4, <1>5, <1>6

LEMMA FormInvInit == FormInit => FormInv
<1> SUFFICES ASSUME FormInit PROVE FormInv
  OBVIOUS
<1> DEFINE b == Blank(1)
<1>1. b \in Product /\ b.id = 1 /\ b.text = 0 /\ b.images = {} /\ b.video = 0
  BY DEF Blank, Product
<1> HIDE DEF b
<1>2. <<b>> \in Seq(Product) /\ DOMAIN <<b>> = {1} /\ <<b>>[1] = b /\ <<b>> # <<>> /\ Len(<<b>>) = 1
  BY <1>1
<1>3. prods = <<b>> /\ draft = <<>> /\ payload = <<>> /\ cards = <<>> /\ uploads = {} /\ step = 0 /\ made = 1
  BY DEF FormInit, NoDraft, b
<1>4. typed \in [1 .. MaxCards -> Nat] /\ \A id \in 1 .. MaxCards : typed[id] = 0
  BY DEF FormInit
<1>5. FormTypes
  <2>1. <<>> \in Seq(Product) /\ <<>> \in Seq(Nat)
    OBVIOUS
  <2>2. uploads \in SUBSET Upload
    BY <1>3
  <2>3. prods \in Seq(Product) /\ draft \in Seq(Product) /\ payload \in Seq(Product) /\ cards \in Seq(Nat)
    BY <1>2, <1>3, <2>1
  <2>4. step \in 0 .. 3 /\ made \in 1 .. MaxCards /\ chosen \in Nat /\ shifted \in BOOLEAN
    <3>1. step = 0 /\ made = 1
      BY <1>3
    <3>2. 1 \in 1 .. MaxCards
      OBVIOUS
    <3>3. shifted \in BOOLEAN /\ chosen \in Nat
      BY DEF FormInit
    <3> QED BY <3>1, <3>2, <3>3
  <2> QED BY <1>4, <2>2, <2>3, <2>4 DEF FormTypes
<1>6. Named(prods, made) /\ Named(draft, made) /\ Filed(prods) /\ Filed(draft) /\ Filed(payload)
  BY <1>1, <1>2, <1>3 DEF Named, Filed
<1>7. StateTyped(prods, typed)
  BY <1>1, <1>2, <1>3, <1>4 DEF StateTyped
<1> QED BY <1>2, <1>3, <1>4, <1>5, <1>6, <1>7 DEF FormInv

\* Reading the page replaces the objects: the uploads lose them, and nothing else.
LEMMA UploadsStay ==
    ASSUME FormInv
    PROVE  /\ ObjectsReplaced \in SUBSET Upload
           /\ ~shifted => \A v \in ObjectsReplaced : v.at \in DOMAIN prods /\ prods[v.at].id = v.card
           /\ uploads = {} => ObjectsReplaced = {}
<1>1. \A u \in uploads : LET v == [u EXCEPT !.stale = TRUE] IN
         v \in Upload /\ v.at = u.at /\ v.card = u.card
  BY DEF FormInv, FormTypes, Upload
<1>2. \A v \in ObjectsReplaced : \E u \in uploads : v \in Upload /\ v.at = u.at /\ v.card = u.card
  BY <1>1 DEF ObjectsReplaced
<1>3. uploads = {} => ObjectsReplaced = {}
  BY DEF ObjectsReplaced
<1>4. ~shifted => \A u \in uploads : u.at \in DOMAIN prods /\ prods[u.at].id = u.card
  BY DEF FormInv
<1> HIDE DEF ObjectsReplaced
<1> QED BY <1>2, <1>3, <1>4

\* The state holds the products qs now; the draft and the submission are them, or
\* are as they were.
LEMMA HeldKeeps ==
    ASSUME FormInv, NEW qs \in Seq(Product), prods' = qs, qs # <<>>, Named(qs, made'),
           ~shifted' => Filed(qs), draft' \in {draft, qs, NoDraft}, payload' \in {payload, qs},
           cards' \in Seq(Nat), cards' # <<>> => PageTyped(cards', qs, typed'),
           step' \in 0 .. 3, step' >= 2 => cards' # <<>>, step' < 2 => StateTyped(qs, typed'),
           typed' \in [1 .. MaxCards -> Nat], \A id \in 1 .. MaxCards : id > made' => typed'[id] = 0,
           uploads' \in SUBSET Upload,
           ~shifted' => \A u \in uploads' : u.at \in DOMAIN qs /\ qs[u.at].id = u.card,
           made' \in made .. MaxCards, chosen' \in Nat, shifted' \in BOOLEAN, shifted => shifted'
    PROVE  FormInv'
<1>1. FormTypes'
  <2>1. NoDraft \in Seq(Product)
    BY DEF NoDraft
  <2>2. draft \in Seq(Product) /\ payload \in Seq(Product) /\ made \in 1 .. MaxCards
    BY DEF FormInv, FormTypes
  <2>3. draft' \in Seq(Product) /\ payload' \in Seq(Product) /\ made' \in 1 .. MaxCards
    BY <2>1, <2>2
  <2> QED BY <2>3 DEF FormTypes
<1>2. Named(draft', made')
  <2>1. Named(NoDraft, made')
    BY DEF Named, NoDraft
  <2>2. Named(draft, made')
    <3>1. \A i \in DOMAIN draft : draft[i].id \in Nat
      <4>1. \A i \in DOMAIN draft : draft[i] \in Product
        BY SeqFacts DEF FormInv, FormTypes
      <4> QED BY <4>1 DEF Product
    <3>2. made \in Nat /\ made' \in Nat /\ made <= made'
      BY DEF FormInv, FormTypes
    <3> QED BY <3>1, <3>2 DEF FormInv, Named
  <2> QED BY <2>1, <2>2
<1>3. ~shifted' => Filed(draft') /\ Filed(payload')
  <2>1. Filed(NoDraft)
    BY DEF Filed, NoDraft
  <2> QED BY <2>1 DEF FormInv
<1> QED BY <1>1, <1>2, <1>3 DEF FormInv

\* Products in the order they had, perhaps with other texts and files.
LEMMA RedrawnKeeps ==
    ASSUME FormInv, NEW qs \in Seq(Product), prods' = qs,
           Len(qs) = Len(prods), \A i \in DOMAIN prods : qs[i].id = prods[i].id,
           ~shifted => Filed(qs), draft' \in {draft, qs, NoDraft}, payload' \in {payload, qs},
           (cards' = cards /\ typed' = typed) \/ (cards' = Texts(qs) /\ StateTyped(qs, typed')),
           step' \in 0 .. 3, step' >= 2 => cards' # <<>>, step' < 2 => StateTyped(qs, typed'),
           typed' \in [1 .. MaxCards -> Nat], \A id \in 1 .. MaxCards : id > made => typed'[id] = 0,
           uploads' \in SUBSET Upload,
           ~shifted => \A u \in uploads' : u.at \in DOMAIN prods /\ prods[u.at].id = u.card,
           chosen' \in Nat, UNCHANGED <<made, shifted>>
    PROVE  FormInv'
<1>1. DOMAIN qs = DOMAIN prods /\ qs # <<>>
  BY SeqFacts DEF FormInv, FormTypes
<1>2. Named(qs, made')
  BY <1>1 DEF FormInv, Named
<1>3. cards' \in Seq(Nat) /\ (cards' # <<>> => PageTyped(cards', qs, typed'))
  <2>1. CASE cards' = cards /\ typed' = typed
    BY <1>1, <2>1 DEF FormInv, FormTypes, PageTyped
  <2>2. CASE cards' = Texts(qs) /\ StateTyped(qs, typed')
    BY <2>2, TextsDrawn
  <2> QED BY <2>1, <2>2
<1>4. ~shifted' => \A u \in uploads' : u.at \in DOMAIN qs /\ qs[u.at].id = u.card
  BY <1>1
<1>5. made' \in made .. MaxCards /\ shifted' \in BOOLEAN /\ (shifted => shifted')
  BY DEF FormInv, FormTypes
<1> QED BY <1>1, <1>2, <1>3, <1>4, <1>5, HeldKeeps

\* The page is read, and drawn anew or not.
LEMMA ReadKeeps ==
    ASSUME FormInv, cards # <<>>, prods' = ReadCards, cards' \in {cards, Texts(ReadCards)},
           draft' \in {draft, ReadCards}, payload' \in {payload, ReadCards},
           step' \in 0 .. 3, uploads' \in SUBSET Upload,
           ~shifted => \A u \in uploads' : u.at \in DOMAIN prods /\ prods[u.at].id = u.card,
           chosen' \in Nat, UNCHANGED <<made, shifted, typed>>
    PROVE  FormInv'
<1>1. /\ ReadCards \in Seq(Product) /\ ReadCards # <<>> /\ Len(ReadCards) = Len(prods)
      /\ Alike(prods, ReadCards) /\ StateTyped(ReadCards, typed)
  BY CardsRead
<1>2. \A i \in DOMAIN prods : ReadCards[i].id = prods[i].id
  BY <1>1 DEF Alike
<1>3. ~shifted => Filed(ReadCards)
  BY <1>1, AlikeKeeps DEF FormInv
<1>4. cards' # <<>>
  <2>1. Len(ReadCards) # 0 /\ Len(Texts(ReadCards)) = Len(ReadCards)
    BY <1>1, SeqFacts, TextsDrawn
  <2>2. Texts(ReadCards) # <<>>
    BY <2>1
  <2> QED BY <2>2
<1>5. typed' \in [1 .. MaxCards -> Nat] /\ \A id \in 1 .. MaxCards : id > made => typed'[id] = 0
  BY DEF FormInv, FormTypes
<1>6. StateTyped(ReadCards, typed')
  BY <1>1
<1>7. (cards' = cards /\ typed' = typed) \/ (cards' = Texts(ReadCards) /\ StateTyped(ReadCards, typed'))
  BY <1>6
<1> HIDE DEF ReadCards
<1> QED BY <1>1, <1>2, <1>3, <1>4, <1>5, <1>6, <1>7, RedrawnKeeps

\* A text is typed.
LEMMA TypeTextKeeps ==
    ASSUME FormInv, NEW i \in 1 .. MaxCards, TypeText(i) PROVE FormInv'
<1>1. /\ step = 2 /\ i \in 1 .. Len(cards) /\ cards' = [cards EXCEPT ![i] = @ + 1]
      /\ typed' = [typed EXCEPT ![prods[i].id] = cards[i] + 1]
      /\ UNCHANGED <<prods, uploads, step, draft, payload, shifted, made, chosen>>
  BY DEF TypeText
<1>2. /\ cards \in Seq(Nat) /\ cards # <<>> /\ Len(cards) = Len(prods) /\ cards[i] \in Nat
      /\ DOMAIN prods = 1 .. Len(prods) /\ \A j \in DOMAIN prods : prods[j].id \in 1 .. MaxCards
  <2>1. cards \in Seq(Nat) /\ cards # <<>> /\ Len(cards) = Len(prods) /\ cards[i] \in Nat
    BY <1>1 DEF FormInv, FormTypes, PageTyped
  <2>2. DOMAIN prods = 1 .. Len(prods) /\ \A j \in DOMAIN prods : prods[j] \in Product
    BY SeqFacts DEF FormInv, FormTypes
  <2> QED BY <2>1, <2>2 DEF Product
<1>3. /\ cards' \in Seq(Nat) /\ Len(cards') = Len(cards) /\ cards'[i] = cards[i] + 1
      /\ \A j \in 1 .. Len(cards) : j # i => cards'[j] = cards[j]
  BY <1>1, <1>2
<1>4. cards' # <<>>
  <2>1. Len(cards) # 0
    BY <1>1
  <2> QED BY <1>3, <2>1
<1>5. /\ typed \in [1 .. MaxCards -> Nat] /\ typed' \in [1 .. MaxCards -> Nat]
      /\ typed'[prods[i].id] = cards[i] + 1
      /\ \A id \in 1 .. MaxCards : id # prods[i].id => typed'[id] = typed[id]
  <2>1. prods[i].id \in 1 .. MaxCards /\ cards[i] + 1 \in Nat
    BY <1>1, <1>2
  <2>2. typed \in [1 .. MaxCards -> Nat]
    BY DEF FormInv, FormTypes
  <2> QED BY <1>1, <2>1, <2>2
<1>6. PageTyped(cards', prods, typed')
  <2>1. ASSUME NEW j \in DOMAIN prods PROVE cards'[j] = typed'[prods[j].id]
    <3>1. cards[j] = typed[prods[j].id] /\ (prods[j].id = prods[i].id => j = i)
      <4>1. i \in DOMAIN prods /\ Named(prods, made) /\ PageTyped(cards, prods, typed)
        BY <1>1, <1>2 DEF FormInv
      <4> QED BY <4>1 DEF PageTyped, Named
    <3> QED BY <1>2, <1>3, <1>5, <3>1
  <2> QED BY <1>2, <1>3, <2>1 DEF PageTyped
<1>7. \A id \in 1 .. MaxCards : id > made => typed'[id] = 0
  <2>1. prods[i].id <= made /\ made \in Nat /\ prods[i].id \in Nat
    <3>1. i \in DOMAIN prods /\ Named(prods, made) /\ made \in 1 .. MaxCards
      BY <1>1, <1>2 DEF FormInv, FormTypes
    <3> QED BY <1>2, <3>1 DEF Named
  <2>2. \A id \in 1 .. MaxCards : id > made => id # prods[i].id
    BY <2>1
  <2> QED BY <1>5, <2>2 DEF FormInv
<1>8. FormTypes'
  BY <1>1, <1>3, <1>5 DEF FormInv, FormTypes
<1> QED BY <1>1, <1>4, <1>6, <1>7, <1>8 DEF FormInv

\* A blank card at the end.
LEMMA AddKeeps ==
    ASSUME FormInv, AddProduct PROVE FormInv'
<1> DEFINE b == Blank(made + 1)
           R == ReadCards
           qs == Append(R, b)
<1>1. /\ step = 2 /\ made < MaxCards /\ made' = made + 1 /\ prods' = qs /\ cards' = Texts(qs)
      /\ draft' = qs /\ uploads' = ObjectsReplaced
      /\ UNCHANGED <<step, payload, typed, shifted, chosen>>
  BY DEF AddProduct, Drawn
<1>2. cards # <<>> /\ made \in Nat /\ made + 1 \in 1 .. MaxCards
  BY <1>1 DEF FormInv, FormTypes
<1>3. /\ R \in Seq(Product) /\ R # <<>> /\ Alike(prods, R)
      /\ StateTyped(R, typed) /\ Len(R) = Len(prods)
  BY <1>2, CardsRead
<1>4. b \in Product /\ b.id = made + 1 /\ b.text = 0 /\ b.images = {} /\ b.video = 0
  BY <1>2 DEF Blank, Product
<1>5. /\ Len(R) \in Nat /\ DOMAIN R = 1 .. Len(R) /\ \A i \in DOMAIN R : R[i] \in Product
  BY <1>3, SeqFacts
<1> HIDE DEF b, R
<1>6. /\ qs \in Seq(Product) /\ Len(qs) = Len(R) + 1 /\ DOMAIN qs = 1 .. Len(R) + 1
      /\ qs[Len(R) + 1] = b /\ \A i \in 1 .. Len(R) : qs[i] = R[i]
  BY <1>3, <1>4, <1>5
<1>7. qs # <<>>
  BY <1>5, <1>6
<1> HIDE DEF qs
<1>8. Named(R, made)
  BY <1>3, AlikeKeeps DEF FormInv
<1>9. \A i \in 1 .. Len(R) : R[i].id \in Nat /\ R[i].id <= made
  BY <1>5, <1>8 DEF Named, Product
<1>10. Named(qs, made')
  <2>1. ASSUME NEW i \in DOMAIN qs, NEW j \in DOMAIN qs, qs[i].id = qs[j].id PROVE i = j
    <3>1. i \in 1 .. Len(R) /\ j \in 1 .. Len(R) => i = j
      BY <1>5, <1>6, <1>8, <2>1 DEF Named
    <3> QED BY <1>2, <1>4, <1>5, <1>6, <1>9, <2>1, <3>1
  <2>2. ASSUME NEW i \in DOMAIN qs PROVE qs[i].id <= made'
    BY <1>1, <1>2, <1>4, <1>5, <1>6, <1>9
  <2> QED BY <2>1, <2>2 DEF Named
<1>11. ~shifted => Filed(qs)
  <2>1. ~shifted => Filed(R)
    BY <1>3, AlikeKeeps DEF FormInv
  <2> QED BY <1>4, <1>5, <1>6, <2>1 DEF Filed
<1>12. StateTyped(qs, typed)
  <2>1. typed[made + 1] = 0
    BY <1>2 DEF FormInv
  <2> QED BY <1>3, <1>4, <1>5, <1>6, <2>1 DEF StateTyped
<1>13. cards' \in Seq(Nat) /\ PageTyped(cards', qs, typed') /\ cards' # <<>>
  <2>1. Len(cards') = Len(qs)
    BY <1>1, <1>6, TextsDrawn
  <2>2. cards' # <<>>
    BY <1>5, <1>6, <2>1
  <2> QED BY <1>1, <1>6, <1>12, <2>2, TextsDrawn
<1>14. /\ uploads' \in SUBSET Upload
       /\ ~shifted' => \A u \in uploads' : u.at \in DOMAIN qs /\ qs[u.at].id = u.card
  <2>1. DOMAIN prods = 1 .. Len(R) /\ \A i \in DOMAIN prods : qs[i].id = prods[i].id
    BY <1>3, <1>5, <1>6 DEF Alike
  <2> QED BY <1>1, <1>5, <1>6, <2>1, UploadsStay
<1>15. /\ typed' \in [1 .. MaxCards -> Nat] /\ \A id \in 1 .. MaxCards : id > made' => typed'[id] = 0
       /\ made' \in made .. MaxCards /\ chosen' \in Nat /\ shifted' \in BOOLEAN /\ step' \in 0 .. 3
  BY <1>1, <1>2 DEF FormInv, FormTypes
<1>16. draft' \in {draft, qs, NoDraft} /\ payload' \in {payload, qs} /\ ~(step' < 2)
  BY <1>1
<1>17. ~shifted' => Filed(qs)
  BY <1>1, <1>11
<1> QED BY <1>1, <1>6, <1>7, <1>10, <1>13, <1>14, <1>15, <1>16, <1>17, HeldKeeps

\* Two parts of a sequence, joined without what stood between them.
LEMMA RemovedAt ==
    ASSUME NEW S, NEW ps \in Seq(S), NEW i \in 1 .. Len(ps)
    PROVE  /\ RemoveAt(ps, i) \in Seq(S) /\ Len(RemoveAt(ps, i)) = Len(ps) - 1
           /\ \A j \in 1 .. Len(ps) - 1 :
                 RemoveAt(ps, i)[j] = IF j < i THEN ps[j] ELSE ps[j + 1]
<1> DEFINE a == SubSeq(ps, 1, i - 1)
           b == SubSeq(ps, i + 1, Len(ps))
<1>1. Len(ps) \in Nat /\ i \in Nat /\ 1 <= i /\ i <= Len(ps)
  OBVIOUS
<1>2. a \in Seq(S) /\ Len(a) = i - 1 /\ \A j \in 1 .. i - 1 : a[j] = ps[j]
  <2>1. \A j \in 1 .. i - 1 : j \in 1 .. Len(ps)
    BY <1>1
  <2> QED BY <1>1, <2>1
<1>3. b \in Seq(S) /\ Len(b) = Len(ps) - i /\ \A j \in 1 .. Len(ps) - i : b[j] = ps[j + i]
  <2>1. \A j \in i + 1 .. Len(ps) : j \in 1 .. Len(ps)
    BY <1>1
  <2> QED BY <1>1, <2>1
<1>4. RemoveAt(ps, i) = a \o b
  BY DEF RemoveAt
<1> HIDE DEF a, b
<1>5. a \o b \in Seq(S) /\ Len(a \o b) = Len(ps) - 1
  <2>1. Len(a \o b) = Len(a) + Len(b) /\ a \o b \in Seq(S)
    BY <1>2, <1>3, ConcatProperties
  <2> QED BY <1>1, <1>2, <1>3, <2>1
<1>6. ASSUME NEW j \in 1 .. Len(ps) - 1
      PROVE  (a \o b)[j] = IF j < i THEN ps[j] ELSE ps[j + 1]
  <2>1. CASE j < i
    BY <1>1, <1>2, <1>3, <2>1
  <2>2. CASE ~(j < i)
    <3>1. (a \o b)[j] = b[j - (i - 1)] /\ j - (i - 1) \in 1 .. Len(ps) - i
      BY <1>1, <1>2, <1>3, <2>2
    <3> QED BY <1>1, <1>3, <2>2, <3>1
  <2> QED BY <2>1, <2>2
<1> QED BY <1>4, <1>5, <1>6

\* A card is removed; the last leaves a blank one.
LEMMA RemoveKeeps ==
    ASSUME FormInv, NEW i \in 1 .. MaxCards, RemoveProduct(i) PROVE FormInv'
<1> DEFINE R == ReadCards
<1>1. /\ step = 2 /\ i \in 1 .. Len(cards) /\ cards' = Texts(prods') /\ draft' = prods'
      /\ Len(cards) > 1 \/ made < MaxCards
      /\ prods' = IF Len(cards) > 1 THEN RemoveAt(R, i) ELSE <<Blank(made + 1)>>
      /\ made' = IF Len(cards) > 1 THEN made ELSE made + 1
      /\ uploads' = ObjectsReplaced /\ shifted' = (shifted \/ uploads # {})
      /\ UNCHANGED <<step, payload, typed, chosen>>
  BY DEF RemoveProduct, Drawn
<1>2. cards # <<>> /\ made \in Nat /\ made \in 1 .. MaxCards /\ Len(cards) \in Nat
  BY <1>1 DEF FormInv, FormTypes
<1>3. /\ R \in Seq(Product) /\ Alike(prods, R)
      /\ StateTyped(R, typed) /\ Len(R) = Len(cards)
  BY <1>2, CardsRead
<1>4. /\ Len(R) \in Nat /\ DOMAIN R = 1 .. Len(R) /\ \A j \in DOMAIN R : R[j] \in Product
  BY <1>3, SeqFacts
<1>5. Named(R, made) /\ (~shifted => Filed(R))
  BY <1>3, AlikeKeeps DEF FormInv
<1>6. /\ uploads' \in SUBSET Upload /\ (~shifted' => uploads' = {} /\ ~shifted)
      /\ shifted' \in BOOLEAN /\ (shifted => shifted')
  BY <1>1, UploadsStay DEF FormInv, FormTypes
<1> HIDE DEF R
<1>7. /\ prods' \in Seq(Product) /\ prods' # <<>> /\ Named(prods', made') /\ (~shifted' => Filed(prods'))
      /\ StateTyped(prods', typed) /\ made' \in made .. MaxCards
  <2>1. CASE Len(cards) > 1
    <3> DEFINE qs == RemoveAt(R, i)
    <3>1. /\ qs \in Seq(Product) /\ Len(qs) = Len(R) - 1
          /\ \A j \in 1 .. Len(R) - 1 : qs[j] = IF j < i THEN R[j] ELSE R[j + 1]
      BY <1>1, <1>3, RemovedAt
    <3>2. prods' = qs /\ made' = made
      BY <1>1, <2>1
    <3> HIDE DEF qs
    <3>3. DOMAIN qs = 1 .. Len(R) - 1 /\ qs # <<>>
      BY <1>3, <1>4, <2>1, <3>1
    <3>4. \A j \in DOMAIN qs : \E k \in DOMAIN R : qs[j] = R[k] /\ k = IF j < i THEN j ELSE j + 1
      <4>1. \A j \in 1 .. Len(R) - 1 : j \in 1 .. Len(R) /\ j + 1 \in 1 .. Len(R)
        BY <1>4
      <4> QED BY <1>4, <3>1, <3>3, <4>1
    <3>5. Named(qs, made)
      <4>1. ASSUME NEW j \in DOMAIN qs, NEW l \in DOMAIN qs, qs[j].id = qs[l].id PROVE j = l
        <5>1. PICK k \in DOMAIN R : qs[j] = R[k] /\ k = IF j < i THEN j ELSE j + 1
          BY <3>4
        <5>2. PICK m \in DOMAIN R : qs[l] = R[m] /\ m = IF l < i THEN l ELSE l + 1
          BY <3>4
        <5>3. k = m
          BY <1>5, <4>1, <5>1, <5>2 DEF Named
        <5> QED BY <1>1, <1>2, <3>3, <5>1, <5>2, <5>3
      <4>2. \A j \in DOMAIN qs : qs[j].id <= made
        BY <1>5, <3>4 DEF Named
      <4> QED BY <4>1, <4>2 DEF Named
    <3>6. ~shifted' => Filed(qs)
      BY <1>5, <1>6, <3>4 DEF Filed
    <3>7. StateTyped(qs, typed)
      BY <1>3, <3>4 DEF StateTyped
    <3> QED BY <1>2, <3>1, <3>2, <3>3, <3>5, <3>6, <3>7
  <2>2. CASE ~(Len(cards) > 1)
    <3> DEFINE b == Blank(made + 1)
    <3>1. prods' = <<b>> /\ made' = made + 1 /\ made' \in 1 .. MaxCards
      BY <1>1, <1>2, <2>2
    <3>2. b \in Product /\ b.id = made' /\ b.text = 0 /\ b.images = {} /\ b.video = 0
      BY <3>1 DEF Blank, Product
    <3>3. typed[made'] = 0
      BY <1>2, <3>1 DEF FormInv
    <3> HIDE DEF b
    <3>4. <<b>> \in Seq(Product) /\ <<b>> # <<>> /\ DOMAIN <<b>> = {1} /\ <<b>>[1] = b
      BY <3>2
    <3>5. Named(<<b>>, made') /\ Filed(<<b>>) /\ StateTyped(<<b>>, typed)
      BY <3>1, <3>2, <3>3, <3>4 DEF Named, Filed, StateTyped
    <3> QED BY <1>2, <3>1, <3>4, <3>5
  <2> QED BY <2>1, <2>2
<1>8. PICK qs \in Seq(Product) :
          /\ prods' = qs /\ qs # <<>> /\ Named(qs, made') /\ (~shifted' => Filed(qs))
          /\ StateTyped(qs, typed) /\ made' \in made .. MaxCards
  BY <1>7
<1>9. cards' \in Seq(Nat) /\ PageTyped(cards', qs, typed') /\ cards' # <<>>
  <2>1. Len(cards') = Len(qs) /\ Len(qs) # 0 /\ cards' \in Seq(Nat)
    BY <1>1, <1>8, TextsDrawn, SeqFacts
  <2>2. cards' # <<>>
    BY <2>1
  <2> QED BY <1>1, <1>8, <2>1, <2>2, TextsDrawn
<1>10. typed' \in [1 .. MaxCards -> Nat] /\ \A id \in 1 .. MaxCards : id > made' => typed'[id] = 0
  <2>1. \A id \in 1 .. MaxCards : id > made' => id > made
    BY <1>2, <1>8
  <2> QED BY <1>1, <2>1 DEF FormInv, FormTypes
<1>11. chosen' \in Nat /\ step' \in 0 .. 3 /\ ~(step' < 2)
  BY <1>1 DEF FormInv, FormTypes
<1>12. draft' \in {draft, qs, NoDraft} /\ payload' \in {payload, qs}
  BY <1>1, <1>8
<1>13. ~shifted' => \A u \in uploads' : u.at \in DOMAIN qs /\ qs[u.at].id = u.card
  BY <1>6
<1> QED BY <1>6, <1>8, <1>9, <1>10, <1>11, <1>12, <1>13, HeldKeeps

\* A file is taken from a card.
LEMMA RemoveFileKeeps ==
    ASSUME FormInv, NEW i \in 1 .. MaxCards, NEW kind \in {"image", "video"}, RemoveFile(i, kind)
    PROVE  FormInv'
<1> DEFINE R == ReadCards
<1>1. PICK left \in SUBSET prods[i].images :
         LET p == IF kind = "image" THEN [R[i] EXCEPT !.images = left] ELSE [R[i] EXCEPT !.video = 0] IN
         prods' = [R EXCEPT ![i] = p] /\ cards' = Texts([R EXCEPT ![i] = p]) /\ draft' = [R EXCEPT ![i] = p]
  BY DEF RemoveFile, Drawn
<1>2. /\ step = 2 /\ i \in 1 .. Len(cards) /\ uploads' = ObjectsReplaced
      /\ UNCHANGED <<step, payload, typed, shifted, made, chosen>>
  BY DEF RemoveFile
<1>3. cards # <<>>
  BY <1>2 DEF FormInv
<1>4. /\ R \in Seq(Product) /\ R # <<>> /\ Alike(prods, R)
      /\ StateTyped(R, typed) /\ Len(R) = Len(prods) /\ Len(cards) = Len(prods)
  BY <1>3, CardsRead
<1>5. /\ Len(R) \in Nat /\ DOMAIN R = 1 .. Len(R) /\ (\A j \in DOMAIN R : R[j] \in Product)
      /\ i \in DOMAIN R /\ R[i] \in Product
  BY <1>2, <1>4, SeqFacts
<1>6. ~shifted => Filed(R)
  BY <1>4, AlikeKeeps DEF FormInv
<1> HIDE DEF R
<1> DEFINE p == IF kind = "image" THEN [R[i] EXCEPT !.images = left] ELSE [R[i] EXCEPT !.video = 0]
           qs == [R EXCEPT ![i] = p]
<1>7. /\ p \in Product /\ p.id = R[i].id /\ p.text = R[i].text /\ p.images \in SUBSET R[i].images
      /\ p.video \in {0, R[i].video}
  <2>1. left \in SUBSET R[i].images
    BY <1>1, <1>4, <1>5 DEF Alike
  <2>2. left \in SUBSET (Nat \X (1 .. MaxCards))
    BY <1>5, <2>1 DEF Product
  <2>3. CASE kind = "image"
    BY <1>5, <2>1, <2>2, <2>3 DEF Product
  <2>4. CASE kind # "image"
    BY <1>5, <2>4 DEF Product
  <2> QED BY <2>3, <2>4
<1>8. prods' = qs /\ cards' = Texts(qs) /\ draft' = qs
  BY <1>1
<1> HIDE DEF p
<1>9. /\ qs \in Seq(Product) /\ Len(qs) = Len(R) /\ DOMAIN qs = DOMAIN R
      /\ qs[i] = p /\ \A j \in DOMAIN R : j # i => qs[j] = R[j]
  BY <1>4, <1>5, <1>7
<1> HIDE DEF qs
<1>10. /\ \A j \in DOMAIN prods : qs[j].id = prods[j].id
       /\ StateTyped(qs, typed) /\ (~shifted => Filed(qs))
  <2>1. \A j \in DOMAIN prods : qs[j].id = prods[j].id
    BY <1>4, <1>5, <1>7, <1>9 DEF Alike
  <2>2. StateTyped(qs, typed)
    BY <1>4, <1>5, <1>7, <1>9 DEF StateTyped
  <2>3. ~shifted => Filed(qs)
    BY <1>5, <1>6, <1>7, <1>9 DEF Filed
  <2> QED BY <2>1, <2>2, <2>3
<1>11. cards' # <<>>
  <2>1. Len(cards') = Len(R) /\ Len(R) # 0
    BY <1>4, <1>8, <1>9, TextsDrawn, SeqFacts
  <2> QED BY <2>1
<1>12. /\ typed' \in [1 .. MaxCards -> Nat] /\ \A id \in 1 .. MaxCards : id > made => typed'[id] = 0
       /\ chosen' \in Nat /\ step' \in 0 .. 3
  BY <1>2 DEF FormInv, FormTypes
<1>13. /\ uploads' \in SUBSET Upload
       /\ ~shifted => \A u \in uploads' : u.at \in DOMAIN prods /\ prods[u.at].id = u.card
  BY <1>2, UploadsStay
<1>14. ~(step' < 2) /\ StateTyped(qs, typed') /\ draft' \in {draft, qs, NoDraft} /\ payload' \in {payload, qs}
  BY <1>2, <1>8, <1>10
<1>15. Len(qs) = Len(prods) /\ UNCHANGED <<made, shifted>>
  BY <1>2, <1>4, <1>9
<1> QED BY <1>8, <1>9, <1>10, <1>11, <1>12, <1>13, <1>14, <1>15, RedrawnKeeps

\* A file is chosen: its upload goes to where its card stands.
LEMMA ChooseKeeps ==
    ASSUME FormInv, NEW i \in 1 .. MaxCards, NEW kind \in {"image", "video"}, ChooseFile(i, kind)
    PROVE  FormInv'
<1> DEFINE v == [n |-> chosen + 1, kind |-> kind, at |-> i, card |-> prods[i].id, stale |-> FALSE]
<1>1. /\ i \in 1 .. Len(cards) /\ step = 2 /\ prods' = ReadCards /\ chosen' = chosen + 1
      /\ uploads' = ObjectsReplaced \cup {v}
      /\ UNCHANGED <<cards, step, draft, payload, typed, shifted, made>>
  BY DEF ChooseFile
<1>2. cards # <<>> /\ Len(cards) = Len(prods)
  BY <1>1 DEF FormInv, PageTyped
<1>3. i \in DOMAIN prods /\ prods[i] \in Product
  BY <1>1, <1>2, SeqFacts DEF FormInv, FormTypes
<1>4. v \in Upload /\ v.at = i /\ v.card = prods[i].id
  <2>1. prods[i].id \in 1 .. MaxCards /\ chosen + 1 \in Nat /\ i \in Nat
    BY <1>3 DEF Product, FormInv, FormTypes
  <2> QED BY <2>1 DEF Upload
<1> HIDE DEF v
<1>5. /\ uploads' \in SUBSET Upload
      /\ ~shifted => \A u \in uploads' : u.at \in DOMAIN prods /\ prods[u.at].id = u.card
  BY <1>1, <1>3, <1>4, UploadsStay
<1>6. chosen' \in Nat /\ step' \in 0 .. 3
  BY <1>1 DEF FormInv, FormTypes
<1> QED BY <1>1, <1>2, <1>5, <1>6, ReadKeeps

\* An upload ends: its file goes to the product it was chosen for, and the page is
\* drawn from the state.
LEMMA UploadKeeps ==
    ASSUME FormInv, NEW u \in uploads, UploadAnswered(u) PROVE FormInv'
<1> DEFINE k == Target(u)
           row == IF u.kind = "image" THEN [prods[k] EXCEPT !.images = @ \cup {<<u.n, u.card>>}]
                  ELSE [prods[k] EXCEPT !.video = u.card]
           qs == IF k = 0 THEN prods ELSE [prods EXCEPT ![k] = row]
<1>1. /\ uploads' = uploads \ {u} /\ prods' = qs /\ cards' = Texts(qs) /\ draft' = qs
      /\ typed' = TypedIn(qs)
      /\ UNCHANGED <<step, payload, shifted, made, chosen>>
  <2>1. /\ uploads' = uploads \ {u} /\ UNCHANGED <<step, payload, shifted, made, chosen>>
    BY DEF UploadAnswered
  <2> DEFINE kept == IF k = 0 THEN prods
                     ELSE IF u.kind = "image" THEN [prods EXCEPT ![k].images = @ \cup {<<u.n, u.card>>}]
                     ELSE [prods EXCEPT ![k].video = u.card]
  <2>2. kept = qs
    BY Zenon
  <2>3. prods' = kept /\ cards' = Texts(kept) /\ draft' = kept /\ typed' = TypedIn(kept)
    BY DEF UploadAnswered, Drawn
  <2> HIDE DEF kept, qs
  <2> QED BY <2>1, <2>2, <2>3
<1>2. /\ prods \in Seq(Product) /\ Len(prods) \in Nat /\ DOMAIN prods = 1 .. Len(prods)
      /\ (\A i \in DOMAIN prods : prods[i] \in Product) /\ u \in Upload
  BY SeqFacts DEF FormInv, FormTypes
<1>3. u.at \in Nat /\ u.card \in 1 .. MaxCards /\ u.n \in Nat
  BY <1>2 DEF Upload
<1>4. k = 0 \/ (k = u.at /\ u.at <= Len(prods))
  BY <1>2, <1>3 DEF Target
<1>5. k # 0 => k \in DOMAIN prods
  BY <1>2, <1>3, <1>4
<1>6. ~shifted /\ k # 0 => prods[k].id = u.card
  BY <1>4 DEF FormInv
<1> HIDE DEF k
<1>7. k # 0 => /\ row \in Product /\ row.id = prods[k].id /\ row.text = prods[k].text
               /\ row.images \in {prods[k].images, prods[k].images \cup {<<u.n, u.card>>}}
               /\ row.video \in {prods[k].video, u.card}
  <2> SUFFICES ASSUME k # 0
               PROVE  /\ row \in Product /\ row.id = prods[k].id /\ row.text = prods[k].text
                      /\ row.images \in {prods[k].images, prods[k].images \cup {<<u.n, u.card>>}}
                      /\ row.video \in {prods[k].video, u.card}
    OBVIOUS
  <2>1. prods[k] \in Product /\ <<u.n, u.card>> \in Nat \X (1 .. MaxCards)
    BY <1>2, <1>3, <1>5
  <2>2. CASE u.kind = "image"
    BY <2>1, <2>2 DEF Product
  <2>3. CASE u.kind # "image"
    BY <1>3, <2>1, <2>3 DEF Product
  <2> QED BY <2>2, <2>3
<1> HIDE DEF row
<1>8. /\ qs \in Seq(Product) /\ Len(qs) = Len(prods) /\ DOMAIN qs = DOMAIN prods
      /\ \A i \in DOMAIN prods : i # k => qs[i] = prods[i]
      /\ k # 0 => qs[k] = row
  <2>1. CASE k = 0
    BY <1>2, <2>1
  <2>2. CASE k # 0
    BY <1>2, <1>5, <1>7, <2>2
  <2> QED BY <2>1, <2>2
<1> HIDE DEF qs
<1>9. \A i \in DOMAIN prods : qs[i].id = prods[i].id
  BY <1>2, <1>7, <1>8
<1>10. ~shifted => Filed(qs)
  <2> SUFFICES ASSUME ~shifted PROVE Filed(qs)
    OBVIOUS
  <2>1. ASSUME NEW i \in DOMAIN prods
        PROVE  (\A f \in qs[i].images : f[2] = qs[i].id) /\ qs[i].video \in {0, qs[i].id}
    <3>1. (\A f \in prods[i].images : f[2] = prods[i].id) /\ prods[i].video \in {0, prods[i].id}
      BY DEF FormInv, Filed
    <3>2. CASE i # k
      BY <1>8, <3>1, <3>2
    <3>3. CASE i = k
      <4>1. k # 0 /\ qs[i] = row /\ prods[i].id = u.card /\ qs[i].id = u.card
        BY <1>2, <1>6, <1>8, <1>9, <3>3
      <4>2. \A f \in prods[i].images \cup {<<u.n, u.card>>} : f[2] = u.card
        BY <3>1, <4>1
      <4> QED BY <1>7, <3>1, <3>3, <4>1, <4>2
    <3> QED BY <3>2, <3>3
  <2> QED BY <1>8, <2>1 DEF Filed
<1>11. Named(qs, made)
  BY <1>8, <1>9 DEF FormInv, Named
<1>12. /\ typed' \in [1 .. MaxCards -> Nat] /\ StateTyped(qs, typed')
       /\ \A id \in 1 .. MaxCards : id > made => typed'[id] = 0
  <2>1. TypedIn(qs) \in [1 .. MaxCards -> Nat] /\ StateTyped(qs, TypedIn(qs))
        /\ \A id \in 1 .. MaxCards : id > made => TypedIn(qs)[id] = 0
    BY <1>8, <1>11, TypedAnew DEF FormInv
  <2>2. typed' = TypedIn(qs)
    BY <1>1
  <2> QED BY <2>1, <2>2
<1>13. cards' # <<>>
  <2>1. Len(Texts(qs)) = Len(prods) /\ Len(prods) # 0
    BY <1>2, <1>8, TextsDrawn, SeqFacts DEF FormInv
  <2>2. Texts(qs) # <<>>
    BY <2>1
  <2> QED BY <1>1, <2>2
<1>14. /\ uploads' \in SUBSET Upload
       /\ ~shifted => \A v \in uploads' : v.at \in DOMAIN prods /\ prods[v.at].id = v.card
  BY <1>1 DEF FormInv, FormTypes
<1>15. step' \in 0 .. 3 /\ chosen' \in Nat /\ draft' \in {draft, qs, NoDraft} /\ payload' \in {payload, qs}
  BY <1>1 DEF FormInv, FormTypes
<1>16. cards' = Texts(qs) /\ prods' = qs /\ UNCHANGED <<made, shifted>>
  BY <1>1
<1> QED BY <1>8, <1>9, <1>10, <1>12, <1>13, <1>14, <1>15, <1>16, RedrawnKeeps

\* What the state holds is drawn, or nothing happens to the page.
LEMMA UploadFailsKeeps ==
    ASSUME FormInv, NEW u \in uploads, UploadFails(u) PROVE FormInv'
<1>1. /\ uploads' = uploads \ {u} /\ prods' = prods /\ draft' \in {draft, prods}
      /\ \/ cards' = Texts(prods) /\ typed' = TypedIn(prods)
         \/ UNCHANGED <<cards, typed>>
      /\ UNCHANGED <<step, payload, shifted, made, chosen>>
  BY DEF UploadFails, Drawn
<1>2. prods \in Seq(Product) /\ Named(prods, made)
  BY DEF FormInv, FormTypes
<1>3. /\ TypedIn(prods) \in [1 .. MaxCards -> Nat] /\ StateTyped(prods, TypedIn(prods))
      /\ \A id \in 1 .. MaxCards : id > made => TypedIn(prods)[id] = 0
  BY <1>2, TypedAnew DEF FormInv
<1>4. Texts(prods) # <<>>
  <2>1. Len(Texts(prods)) = Len(prods) /\ Len(prods) # 0
    BY <1>2, TextsDrawn, SeqFacts DEF FormInv
  <2> QED BY <2>1
<1>5. /\ typed' \in [1 .. MaxCards -> Nat] /\ \A id \in 1 .. MaxCards : id > made => typed'[id] = 0
      /\ step' \in 0 .. 3 /\ (step' >= 2 => cards' # <<>>) /\ (step' < 2 => StateTyped(prods, typed'))
      /\ (cards' = cards /\ typed' = typed) \/ (cards' = Texts(prods) /\ StateTyped(prods, typed'))
  <2>1. CASE cards' = Texts(prods) /\ typed' = TypedIn(prods)
    <3>1. StateTyped(prods, typed')
      BY <1>3, <2>1
    <3>2. step' \in 0 .. 3
      BY <1>1 DEF FormInv, FormTypes
    <3> QED BY <1>3, <1>4, <2>1, <3>1, <3>2
  <2>2. CASE UNCHANGED <<cards, typed>>
    BY <1>1, <2>2 DEF FormInv, FormTypes
  <2> QED BY <1>1, <2>1, <2>2
<1>6. /\ uploads' \in SUBSET Upload /\ chosen' \in Nat
      /\ ~shifted => \A v \in uploads' : v.at \in DOMAIN prods /\ prods[v.at].id = v.card
      /\ ~shifted => Filed(prods)
  BY <1>1 DEF FormInv, FormTypes
<1>7. draft' \in {draft, prods, NoDraft} /\ payload' \in {payload, prods} /\ UNCHANGED <<made, shifted>>
  BY <1>1
<1> QED BY <1>1, <1>2, <1>5, <1>6, <1>7, RedrawnKeeps

\* The step shown: the page is read when the cards are left or kept, and drawn from
\* the state when they are shown first.
LEMMA ShowKeeps ==
    ASSUME FormInv, NEW n \in 0 .. 3, n = step + 1 \/ n = step - 1 \/ (n = 3 /\ step = 3), ShowStep(n),
           UNCHANGED <<payload, typed, shifted, made, chosen>>
    PROVE  FormInv'
<1>1. step \in 0 .. 3 /\ step' = n /\ step' \in 0 .. 3 /\ chosen' \in Nat /\ draft' = prods'
  BY DEF ShowStep, FormInv, FormTypes
<1>2. /\ uploads' \in SUBSET Upload
      /\ ~shifted => \A u \in uploads' : u.at \in DOMAIN prods /\ prods[u.at].id = u.card
  <2>1. uploads' = ObjectsReplaced \/ uploads' = uploads
    BY DEF ShowStep
  <2> QED BY <2>1, UploadsStay DEF FormInv, FormTypes
<1>3. CASE step >= 2
  <2>1. cards # <<>>
    BY <1>3 DEF FormInv
  <2>2. prods' = ReadCards /\ cards' \in {cards, Texts(ReadCards)}
    BY <1>1, <1>3 DEF ShowStep
  <2> HIDE DEF ReadCards
  <2> QED BY <1>1, <1>2, <2>1, <2>2, ReadKeeps
<1>4. CASE step < 2
  <2>1. prods' = prods /\ (cards' = Texts(prods) \/ (cards' = cards /\ step' < 2))
    BY <1>1, <1>4 DEF ShowStep
  <2>2. prods \in Seq(Product) /\ StateTyped(prods, typed') /\ (~shifted => Filed(prods))
    BY <1>4 DEF FormInv, FormTypes
  <2>3. Texts(prods) # <<>>
    <3>1. Len(Texts(prods)) = Len(prods) /\ Len(prods) # 0
      BY <2>2, TextsDrawn, SeqFacts DEF FormInv
    <3> QED BY <3>1
  <2>4. /\ typed' \in [1 .. MaxCards -> Nat] /\ \A id \in 1 .. MaxCards : id > made => typed'[id] = 0
        /\ step' >= 2 => cards' # <<>>
        /\ (cards' = cards /\ typed' = typed) \/ (cards' = Texts(prods) /\ StateTyped(prods, typed'))
    BY <1>1, <2>1, <2>2, <2>3 DEF FormInv, FormTypes
  <2>5. draft' \in {draft, prods, NoDraft} /\ payload' \in {payload, prods}
    BY <1>1, <2>1
  <2> QED BY <1>1, <1>2, <2>1, <2>2, <2>4, <2>5, RedrawnKeeps
<1> QED BY <1>1, <1>3, <1>4

\* The page is loaded again.
LEMMA ReloadKeeps ==
    ASSUME FormInv, Reload PROVE FormInv'
<1> DEFINE b == Blank(1)
           qs == IF draft = NoDraft THEN <<b>> ELSE draft
<1>1. /\ prods' = qs /\ cards' = <<>> /\ uploads' = {} /\ step' = 0 /\ typed' = TypedIn(qs)
      /\ UNCHANGED <<draft, payload, shifted, made, chosen>>
  BY DEF Reload
<1>2. b \in Product /\ b.id = 1 /\ b.images = {} /\ b.video = 0
  BY DEF Blank, Product
<1>3. made \in 1 .. MaxCards
  BY DEF FormInv, FormTypes
<1> HIDE DEF b
<1>4. <<b>> \in Seq(Product) /\ <<b>> # <<>> /\ DOMAIN <<b>> = {1} /\ <<b>>[1] = b
  BY <1>2
<1>5. Named(<<b>>, made) /\ Filed(<<b>>)
  BY <1>2, <1>3, <1>4 DEF Named, Filed
<1>6. qs \in Seq(Product) /\ qs # <<>> /\ Named(qs, made) /\ (~shifted => Filed(qs))
  BY <1>4, <1>5 DEF FormInv, FormTypes, NoDraft
<1> HIDE DEF qs
<1>7. /\ TypedIn(qs) \in [1 .. MaxCards -> Nat] /\ StateTyped(qs, TypedIn(qs))
      /\ \A id \in 1 .. MaxCards : id > made => TypedIn(qs)[id] = 0
  BY <1>6, TypedAnew DEF FormInv
<1>8. typed' \in [1 .. MaxCards -> Nat] /\ StateTyped(qs, typed')
      /\ \A id \in 1 .. MaxCards : id > made' => typed'[id] = 0
  <2>1. typed' = TypedIn(qs) /\ made' = made
    BY <1>1
  <2> QED BY <1>7, <2>1
<1>9. /\ cards' \in Seq(Nat) /\ cards' = <<>> /\ step' \in 0 .. 3 /\ ~(step' >= 2)
      /\ uploads' \in SUBSET Upload /\ \A u \in uploads' : u.at \in DOMAIN qs /\ qs[u.at].id = u.card
  BY <1>1
<1>10. made' \in made .. MaxCards /\ chosen' \in Nat /\ shifted' \in BOOLEAN /\ (shifted => shifted')
  BY <1>1, <1>3 DEF FormInv, FormTypes
<1>11. Named(qs, made') /\ (~shifted' => Filed(qs))
  BY <1>1, <1>6
<1>12. draft' \in {draft, qs, NoDraft} /\ payload' \in {payload, qs}
  BY <1>1
<1> QED BY <1>1, <1>6, <1>8, <1>9, <1>10, <1>11, <1>12, HeldKeeps

LEMMA FormInvStep == FormInv /\ [FormNext]_formVars => FormInv'
<1> SUFFICES ASSUME FormInv, [FormNext]_formVars PROVE FormInv'
  OBVIOUS
<1>1. CASE \E i \in 1 .. MaxCards : TypeText(i) \/ RemoveProduct(i)
  BY <1>1, TypeTextKeeps, RemoveKeeps
<1>2. CASE \E i \in 1 .. MaxCards, kind \in {"image", "video"} : RemoveFile(i, kind) \/ ChooseFile(i, kind)
  BY <1>2, RemoveFileKeeps, ChooseKeeps
<1>3. CASE \E u \in uploads : UploadAnswered(u) \/ UploadFails(u)
  BY <1>3, UploadKeeps, UploadFailsKeeps
<1>4. CASE AddProduct \/ Reload
  BY <1>4, AddKeeps, ReloadKeeps
<1>5. CASE SwitchLang \/ SubmitForm
  <2>1. /\ step >= 2 /\ prods' = ReadCards /\ cards' \in {cards, Texts(ReadCards)}
        /\ draft' = draft /\ payload' \in {payload, ReadCards} /\ uploads' = ObjectsReplaced
        /\ UNCHANGED <<step, made, shifted, typed, chosen>>
    BY <1>5 DEF SwitchLang, SubmitForm, Drawn
  <2>2. cards # <<>> /\ step' \in 0 .. 3 /\ chosen' \in Nat
    BY <2>1 DEF FormInv, FormTypes
  <2>3. /\ uploads' \in SUBSET Upload
        /\ ~shifted => \A u \in uploads' : u.at \in DOMAIN prods /\ prods[u.at].id = u.card
    BY <2>1, UploadsStay
  <2> HIDE DEF ReadCards
  <2> QED BY <2>1, <2>2, <2>3, ReadKeeps
<1>6. CASE UNCHANGED <<prods, cards, uploads, step, draft, payload, typed, shifted, made, chosen>>
  BY <1>6 DEF FormInv, FormTypes
<1>7. CASE ClickPrev
  <2>1. step > 0 /\ step \in 0 .. 3 /\ ShowStep(step - 1) /\ UNCHANGED <<payload, typed, shifted, made, chosen>>
    BY <1>7 DEF ClickPrev, FormInv, FormTypes
  <2>2. step - 1 \in 0 .. 3
    BY <2>1
  <2> QED BY <2>1, <2>2, ShowKeeps
<1>8. CASE ClickNext /\ step # 0
  <2>1. step < 3 /\ step \in 0 .. 3 /\ ShowStep(step + 1) /\ UNCHANGED <<payload, typed, shifted, made, chosen>>
    BY <1>8 DEF ClickNext, FormInv, FormTypes
  <2>2. step + 1 \in 0 .. 3
    BY <2>1
  <2> QED BY <2>1, <2>2, ShowKeeps
<1>9. CASE EmailChecked
  <2> DEFINE n == IF step < 3 THEN step + 1 ELSE 3
  <2>1. step \in 0 .. 3 /\ ShowStep(n) /\ UNCHANGED <<payload, typed, shifted, made, chosen>>
    BY <1>9 DEF EmailChecked, FormInv, FormTypes
  <2>2. n \in 0 .. 3 /\ (n = step + 1 \/ (n = 3 /\ step = 3))
    BY <2>1
  <2> HIDE DEF n
  <2> QED BY <2>1, <2>2, ShowKeeps
<1>10. CASE SubmitDone
  <2>1. draft' = NoDraft /\ UNCHANGED <<prods, cards, uploads, step, payload, typed, shifted, made, chosen>>
    BY <1>10 DEF SubmitDone
  <2>2. NoDraft \in Seq(Product) /\ Named(NoDraft, made) /\ Filed(NoDraft)
    BY DEF NoDraft, Named, Filed
  <2> QED BY <2>1, <2>2 DEF FormInv, FormTypes
<1>11. CASE (ClickNext /\ step = 0) \/ (\E s \in {0, 1} : TypeField(s)) \/ EmailTaken \/ SubmitFails
            \/ UNCHANGED formVars
  BY <1>6, <1>11 DEF ClickNext, TypeField, EmailTaken, SubmitFails, formVars
<1> QED BY <1>1, <1>2, <1>3, <1>4, <1>5, <1>7, <1>8, <1>9, <1>10, <1>11 DEF FormNext

\* What the visitor typed into a card stays there through every redrawing and every
\* step back and forth, unless the end of an upload draws what was read before, and a
\* file stands under the product it was chosen for unless a card was removed while an
\* upload ran, for any number of cards, texts and uploads.
THEOREM FormStays == FormSpec => []FormKeeps
<1>1. FormInv => FormKeeps
  <2> SUFFICES ASSUME FormInv PROVE FormKeeps
    OBVIOUS
  <2>1. /\ DOMAIN prods = 1 .. Len(prods) /\ DOMAIN payload = 1 .. Len(payload)
    BY SeqFacts DEF FormInv, FormTypes
  <2>2. cards # <<>> => /\ Len(cards) = Len(prods)
                        /\ \A i \in 1 .. Len(cards) : cards[i] = typed[prods[i].id]
    BY <2>1 DEF FormInv, PageTyped
  <2>3. ~shifted => \A p \in ToSet(prods) \cup ToSet(payload) :
                       (\A f \in p.images : f[2] = p.id) /\ p.video \in {0, p.id}
    BY DEF FormInv, Filed, ToSet
  <2> QED BY <2>2, <2>3 DEF FormKeeps
<1> QED BY <1>1, FormInvInit, FormInvStep, PTL DEF FormSpec
================================================================================
