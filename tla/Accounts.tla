-------------------------------- MODULE Accounts --------------------------------
(***************************************************************************)
(* The life of an account (services/auth.py, otp.py, admin_console.py,     *)
(* restore_admin.py): registration and the codes mailed for it, sessions,  *)
(* ban, deletion, the request to restore it, and the purge that makes a    *)
(* tombstone of it when the retention has passed and frees its address.    *)
(* All accounts of the model were registered with one address, one after   *)
(* the other; wrong passwords and wrong codes change nothing.              *)
(*                                                                         *)
(* A request reads the row, then writes the columns it is about and        *)
(* commits: two steps, between which other requests commit.  The purge and *)
(* the decision on a request lock the row: one step.  get_db rolls back    *)
(* everything when the request ends with an error; Redis and mail stay.    *)
(***************************************************************************)
EXTENDS Naturals

CONSTANTS Account, AccReq,
          MaxCode,       \* bound: codes mailed in a behaviour
          MaxAccOps,     \* bound: deletions, restorations and bans
          NoAcc

ASSUME AccountsAssumption == NoAcc \notin Account /\ MaxCode \in Nat

VARIABLES
    acct,       \* the rows of users
    code,       \* per purpose, the newest valid row of otp_codes, 0 for none
    mailed,     \* per purpose, the newest code in the mailbox: not used, not 5 minutes old
    cool,       \* per purpose, the resend cooldown in Redis
    codes,      \* counter for the bound: codes made
    accReq,     \* requests between their read and their write
    restoring,  \* the newest account_restore_requests row
    quiet,      \* is no account purged while a request on it is open
    accOps      \* counter for the bound

accVars == <<acct, code, mailed, cool, codes, accReq, restoring, quiet, accOps>>
codeVars == <<code, mailed, cool, codes>>

Purpose == {"verify", "reset"}
NoAccount == [st |-> "none", mail |-> FALSE, due |-> FALSE, active |-> FALSE,
              verified |-> FALSE, ses |-> FALSE]
NoAccReq == [kind |-> "none", who |-> NoAcc, code |-> 0, active |-> FALSE]
NoAsk == [status |-> "none", who |-> NoAcc, checked |-> FALSE]

\* The account that has the address.
Holder == {u \in Account : acct[u].mail}
Busy(u) == \E h \in AccReq : accReq[h].who = u

(***************************************************************************)
(* Codes                                                                   *)
(***************************************************************************)

\* A code is stored in place of the open one and mailed, and the cooldown set; a
\* request that then fails keeps only the mail and the cooldown.  In production a
\* mail that cannot be sent is such a failure itself.
Mails(p, kept) ==
    /\ codes < MaxCode /\ codes' = codes + 1
    /\ cool' = [cool EXCEPT ![p] = TRUE]
    /\ \/ /\ mailed' = [mailed EXCEPT ![p] = codes + 1]
          /\ code' = IF kept THEN [code EXCEPT ![p] = codes + 1] ELSE code
       \/ UNCHANGED <<mailed, code>>

\* Five minutes pass; one minute passes.
CodeExpires(p) ==
    /\ mailed[p] # 0 \/ code[p] # 0
    /\ code' = [code EXCEPT ![p] = 0] /\ mailed' = [mailed EXCEPT ![p] = 0]
    /\ UNCHANGED <<acct, cool, codes, accReq, restoring, quiet, accOps>>

Cools(p) ==
    /\ cool[p] /\ cool' = [cool EXCEPT ![p] = FALSE]
    /\ UNCHANGED <<acct, code, mailed, codes, accReq, restoring, quiet, accOps>>

\* The address is free: the account and its number are made and a code is mailed;
\* without the mail (production) there is no account either.
Register(u) ==
    /\ Holder = {} /\ acct[u] = NoAccount
    /\ Mails("verify", TRUE)
    /\ acct' = IF mailed' = mailed THEN acct
               ELSE [acct EXCEPT ![u] = [NoAccount EXCEPT !.st = "live", !.mail = TRUE,
                                                           !.active = TRUE]]
    /\ UNCHANGED <<accReq, restoring, quiet, accOps>>

\* Whether the account is deleted is not looked at.
ResendVerification(u) ==
    /\ u \in Holder /\ ~acct[u].verified /\ ~cool["verify"]
    /\ Mails("verify", TRUE)
    /\ UNCHANGED <<acct, accReq, restoring, quiet, accOps>>

ForgotPassword(u) ==
    /\ u \in Holder /\ acct[u].st = "live" /\ ~cool["reset"]
    /\ Mails("reset", TRUE)
    /\ UNCHANGED <<acct, accReq, restoring, quiet, accOps>>

\* An address without a live account gets the same answer and the same cooldown.
ForgotUnknown ==
    /\ ~cool["reset"] /\ \A u \in Holder : acct[u].st # "live"
    /\ cool' = [cool EXCEPT !["reset"] = TRUE]
    /\ UNCHANGED <<acct, code, mailed, codes, accReq, restoring, quiet, accOps>>

\* The right password of an account not verified: a code is mailed and the request
\* ends with ACCOUNT_NOT_VERIFIED.
LoginUnverified(u) ==
    /\ u \in Holder /\ acct[u].st = "live" /\ acct[u].active /\ ~acct[u].verified
    /\ ~cool["verify"]
    /\ Mails("verify", FALSE)
    /\ UNCHANGED <<acct, accReq, restoring, quiet, accOps>>

(***************************************************************************)
(* Requests that read the row and write it later                           *)
(***************************************************************************)

\* What each kind checks on the row it reads; the code entered is the mailed one.
Admitted(kind, u) ==
    CASE kind = "login" ->
            u \in Holder /\ acct[u].st = "live" /\ acct[u].active /\ acct[u].verified
      [] kind = "verify" ->
            u \in Holder /\ code["verify"] # 0 /\ mailed["verify"] = code["verify"]
      [] kind = "reset" ->
            /\ u \in Holder /\ acct[u].st = "live"
            /\ code["reset"] # 0 /\ mailed["reset"] = code["reset"]
      [] kind = "delete" -> acct[u].st = "live"
      [] kind = "restore" -> acct[u].st = "deleted" /\ ~acct[u].due
      [] kind = "ban" -> acct[u].st = "live" /\ acct[u].active
      [] kind = "unban" -> acct[u].st = "live" /\ ~acct[u].active

Counted == {"delete", "restore", "ban", "unban"}

Reads(h, kind, u) ==
    /\ accReq[h] = NoAccReq /\ Admitted(kind, u)
    /\ IF kind \in Counted THEN accOps < MaxAccOps /\ accOps' = accOps + 1 ELSE accOps' = accOps
    /\ accReq' = [accReq EXCEPT ![h] =
           [kind |-> kind, who |-> u, active |-> acct[u].active,
            code |-> IF kind \in Purpose THEN code[kind] ELSE 0]]
    /\ UNCHANGED <<acct, codeVars, restoring, quiet>>

\* The row after the columns of the request are written over it.
Written(r, a) ==
    CASE r.kind = "login" -> [a EXCEPT !.ses = TRUE]
      [] r.kind = "verify" -> [a EXCEPT !.verified = TRUE, !.ses = TRUE]
      [] r.kind = "reset" -> [a EXCEPT !.ses = FALSE]
      [] r.kind = "delete" ->
            [a EXCEPT !.st = "deleted", !.due = FALSE, !.ses = FALSE,
                      !.active = IF r.active THEN FALSE ELSE @]
      [] r.kind = "restore" -> [a EXCEPT !.st = "live", !.due = FALSE, !.active = TRUE]
      [] r.kind = "ban" -> [a EXCEPT !.active = FALSE, !.ses = FALSE]
      [] r.kind = "unban" -> [a EXCEPT !.active = TRUE]

Writes(h) ==
    LET r == accReq[h] IN
    /\ r # NoAccReq
    /\ acct' = [acct EXCEPT ![r.who] = Written(r, @)]
    /\ code' = [p \in Purpose |-> IF r.kind = p /\ code[p] = r.code THEN 0 ELSE code[p]]
    /\ mailed' = [p \in Purpose |-> IF r.kind = p /\ mailed[p] = r.code THEN 0 ELSE mailed[p]]
    /\ accReq' = [accReq EXCEPT ![h] = NoAccReq]
    /\ UNCHANGED <<cool, codes, restoring, quiet, accOps>>

(***************************************************************************)
(* Retention, purge, and requests to restore                               *)
(***************************************************************************)

\* scheduled_purge_at passes.
FallsDue(u) ==
    /\ acct[u].st = "deleted" /\ ~acct[u].due
    /\ acct' = [acct EXCEPT ![u].due = TRUE]
    /\ UNCHANGED <<codeVars, accReq, restoring, quiet, accOps>>

\* Mutated form: sessions were revoked at the deletion, so they are left alone.
TombstoneKeepsSessions(a) ==
    [a EXCEPT !.st = "purged", !.mail = FALSE, !.due = FALSE, !.active = FALSE, !.verified = FALSE]

\* The address is freed, what identified the person and leftover sessions are removed.
Tombstone(a) ==
    [a EXCEPT !.st = "purged", !.mail = FALSE, !.due = FALSE, !.active = FALSE,
              !.verified = FALSE, !.ses = FALSE]

Expired == {u \in Account : acct[u].st = "deleted" /\ acct[u].due}

\* By the nightly job or by an administrator who confirmed a dry run.
Purge ==
    /\ Expired # {} /\ (quiet => \A u \in Expired : ~Busy(u))
    /\ acct' = [u \in Account |-> IF u \in Expired THEN Tombstone(acct[u]) ELSE acct[u]]
    /\ UNCHANGED <<codeVars, accReq, restoring, quiet, accOps>>

AskRestore(u) ==
    /\ u \in Holder /\ acct[u].st = "deleted" /\ restoring.status # "pending"
    /\ accOps < MaxAccOps /\ accOps' = accOps + 1
    /\ restoring' = [status |-> "pending", who |-> u, checked |-> FALSE]
    /\ UNCHANGED <<acct, codeVars, accReq, quiet>>

\* The three boxes of the identity checklist.
CheckIdentity ==
    /\ restoring.status = "pending" /\ ~restoring.checked
    /\ restoring' = [restoring EXCEPT !.checked = TRUE]
    /\ UNCHANGED <<acct, codeVars, accReq, quiet, accOps>>

\* Under the locks of the request and the account.  An account that is purged or
\* due cannot be restored: the request stays pending.
Approve ==
    LET u == restoring.who IN
    /\ restoring.status = "pending" /\ restoring.checked
    /\ acct[u].st # "purged" /\ ~acct[u].due
    /\ restoring' = [restoring EXCEPT !.status = "approved"]
    /\ acct' = [acct EXCEPT ![u] =
           [(IF @.st = "deleted" THEN [@ EXCEPT !.st = "live", !.active = TRUE] ELSE @)
                EXCEPT !.ses = FALSE]]
    /\ UNCHANGED <<codeVars, accReq, quiet, accOps>>

Reject ==
    /\ restoring.status = "pending"
    /\ restoring' = [restoring EXCEPT !.status = "rejected"]
    /\ UNCHANGED <<acct, codeVars, accReq, quiet, accOps>>

(***************************************************************************)
(* Specification                                                           *)
(***************************************************************************)

AccountsInit ==
    /\ acct = [u \in Account |-> NoAccount]
    /\ code = [p \in Purpose |-> 0] /\ mailed = [p \in Purpose |-> 0]
    /\ cool = [p \in Purpose |-> FALSE] /\ codes = 0
    /\ accReq = [h \in AccReq |-> NoAccReq] /\ restoring = NoAsk
    /\ quiet \in BOOLEAN /\ accOps = 0

AccountsNext ==
    \/ \E u \in Account : \/ Register(u) \/ ResendVerification(u) \/ ForgotPassword(u)
                          \/ LoginUnverified(u) \/ FallsDue(u) \/ AskRestore(u)
    \/ \E p \in Purpose : CodeExpires(p) \/ Cools(p)
    \/ \E h \in AccReq, u \in Account, kind \in Purpose \cup Counted \cup {"login"} :
          Reads(h, kind, u)
    \/ \E h \in AccReq : Writes(h)
    \/ ForgotUnknown \/ Purge \/ CheckIdentity \/ Approve \/ Reject

AccountsSpec == AccountsInit /\ [][AccountsNext]_accVars

(***************************************************************************)
(* Properties                                                              *)
(***************************************************************************)

AccountsTypeOK ==
    /\ acct \in [Account -> [st : {"none", "live", "deleted", "purged"}, mail : BOOLEAN,
                             due : BOOLEAN, active : BOOLEAN, verified : BOOLEAN, ses : BOOLEAN]]
    /\ code \in [Purpose -> 0 .. MaxCode] /\ mailed \in [Purpose -> 0 .. MaxCode]
    /\ cool \in [Purpose -> BOOLEAN] /\ codes \in 0 .. MaxCode
    /\ \A h \in AccReq : accReq[h].who \in Account \cup {NoAcc}
    /\ restoring.status \in {"none", "pending", "approved", "rejected"}

\* A purged account stays what it is: no request, approved or decided after the
\* purge, makes it live again, and it has neither a session nor the address that
\* now may belong to a new account, although its owner could open a session on it
\* after the deletion (purge_expired_accounts, decide_restore_request).  An account
\* purged while a request on it is open is excepted: README 7.
PurgedForGood ==
    [][\A u \in Account : quiet =>
          /\ (acct[u].st = "purged" => acct'[u].st = "purged")
          /\ (acct'[u].st = "purged" => ~acct'[u].ses /\ ~acct'[u].mail)]_accVars

\* The newest code in the mailbox, as long as it is fresh, is the one the backend
\* accepts (auth.login mails one so that the user need not ask for it).
MailedCodeWorks == \A p \in Purpose : mailed[p] # 0 => code[p] = mailed[p]
=================================================================================
