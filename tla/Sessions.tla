-------------------------------- MODULE Sessions --------------------------------
(***************************************************************************)
(* The device sessions of one account: services/auth.py over the           *)
(* refresh_tokens table, and TokenRefresher / AuthRepository of the app.   *)
(*                                                                         *)
(* A session is a family of refresh tokens; refreshing revokes the token   *)
(* shown and stores the next one of the family.  refresh_tokens locks the  *)
(* row it was shown; what ends sessions is an UPDATE, which sees the rows  *)
(* committed when it starts and waits for the locked ones.  An error       *)
(* answer rolls everything back, the revocation of the family included.    *)
(***************************************************************************)
EXTENDS Naturals, FiniteSets

CONSTANTS SesDevice,   \* devices signed in to the account
          RefTok,      \* refresh tokens, numbered in the order they are stored
          SesReq,      \* requests open at the same time
          NoTok, NoSes

ASSUME SessionAssumption ==
    RefTok \subseteq Nat /\ NoTok \notin RefTok /\ NoSes \notin SesReq \cup SesDevice

VARIABLES
    tokState,  \* refresh_tokens: unused, live (revoked_at is null) or revoked
    family,    \* and the token its session began with
    device,    \* and the device of the session
    aged,      \* sessions older than SESSION_PROTECT_DAYS
    held,      \* SessionStore.refreshToken of each device
    call,      \* the refresh a device waits for (_refreshCompleter)
    sreq,      \* requests in the backend
    ended,     \* sessions somebody asked to end, and was told so
    unheard    \* sessions with a refresh whose answer never arrived

sessionVars == <<tokState, family, device, aged, held, call, sreq, ended, unheard>>

NoSesReq == [kind |-> "none", dev |-> NoSes, tok |-> NoTok,
             step |-> "sent", rows |-> {}, fams |-> {}, new |-> NoTok]

SessionsInit ==
    /\ tokState = [t \in RefTok |-> "unused"]
    /\ family = [t \in RefTok |-> t]
    /\ device = [t \in RefTok |-> NoSes]
    /\ aged = {}
    /\ held = [d \in SesDevice |-> NoTok]
    /\ call = [d \in SesDevice |-> NoSes]
    /\ sreq = [q \in SesReq |-> NoSesReq]
    /\ ended = {}
    /\ unheard = {}

Live(t) == tokState[t] = "live"
LiveTokens == {t \in RefTok : Live(t)}
Families == {family[t] : t \in {u \in RefTok : tokState[u] # "unused"}}

\* The token stored next.
NextToken(n) == tokState[n] = "unused" /\ \A t \in RefTok : t < n => tokState[t] # "unused"

\* SELECT ... FOR UPDATE of a refresh that has not committed.
RowLocked(t) == \E q \in SesReq : sreq[q].kind = "refresh" /\ sreq[q].step = "locked"
                                  /\ sreq[q].tok = t

Open(q, kind, d, t, rows, fams) ==
    /\ sreq[q].kind = "none"
    /\ sreq' = [sreq EXCEPT ![q] = [NoSesReq EXCEPT !.kind = kind, !.dev = d, !.tok = t,
                                                    !.rows = rows, !.fams = fams]]

Answer(q, outcome, n) ==
    sreq' = [sreq EXCEPT ![q].step = outcome, ![q].new = n]

(***************************************************************************)
(* Refreshing                                                              *)
(***************************************************************************)

\* Mutated form: no single flight; the answer to the first call is lost to it.
RefreshCallAgain(d, q) ==
    /\ held[d] # NoTok
    /\ Open(q, "refresh", d, held[d], {}, {})
    /\ call' = [call EXCEPT ![d] = q]
    /\ UNCHANGED <<tokState, family, device, aged, held, ended, unheard>>

\* getNewToken: one call per device at a time.
RefreshCall(d, q) ==
    /\ held[d] # NoTok
    /\ call[d] = NoSes
    /\ Open(q, "refresh", d, held[d], {}, {})
    /\ call' = [call EXCEPT ![d] = q]
    /\ UNCHANGED <<tokState, family, device, aged, held, ended, unheard>>

\* Mutated form: the row is read without FOR UPDATE.
RefreshLoadUnlocked(q) ==
    /\ sreq[q].kind = "refresh" /\ sreq[q].step = "sent"
    /\ IF Live(sreq[q].tok) THEN Answer(q, "locked", NoTok) ELSE Answer(q, "refused", NoTok)
    /\ UNCHANGED <<tokState, family, device, aged, held, call, ended, unheard>>

\* refresh_tokens locks the row; a revoked one is refused.
RefreshLoad(q) ==
    /\ sreq[q].kind = "refresh" /\ sreq[q].step = "sent"
    /\ ~RowLocked(sreq[q].tok)
    /\ IF Live(sreq[q].tok) THEN Answer(q, "locked", NoTok) ELSE Answer(q, "refused", NoTok)
    /\ UNCHANGED <<tokState, family, device, aged, held, call, ended, unheard>>

\* The commit: the token is revoked, the next of the family stored.
RefreshStore(q, n) ==
    /\ sreq[q].kind = "refresh" /\ sreq[q].step = "locked"
    /\ NextToken(n)
    /\ tokState' = [tokState EXCEPT ![sreq[q].tok] = "revoked", ![n] = "live"]
    /\ family' = [family EXCEPT ![n] = family[sreq[q].tok]]
    /\ device' = [device EXCEPT ![n] = device[sreq[q].tok]]
    /\ Answer(q, "stored", n)
    /\ UNCHANGED <<aged, held, call, ended, unheard>>

\* A server error: rolled back.
RefreshFails(q) ==
    /\ sreq[q].kind = "refresh" /\ sreq[q].step = "locked"
    /\ Answer(q, "failed", NoTok)
    /\ UNCHANGED <<tokState, family, device, aged, held, call, ended, unheard>>

\* The answer reaches the device: new tokens are saved, 401 clears the session,
\* a server error keeps it.  An answer nobody waits for is dropped.
RefreshHeard(q) ==
    LET d == sreq[q].dev IN
    /\ sreq[q].kind = "refresh" /\ sreq[q].step \in {"stored", "refused", "failed"}
    /\ sreq' = [sreq EXCEPT ![q] = NoSesReq]
    /\ IF call[d] = q
       THEN /\ call' = [call EXCEPT ![d] = NoSes]
            /\ held' = [held EXCEPT ![d] = CASE sreq[q].step = "stored" -> sreq[q].new
                                             [] sreq[q].step = "refused" -> NoTok
                                             [] OTHER -> @]
       ELSE UNCHANGED <<call, held>>
    /\ UNCHANGED <<tokState, family, device, aged, ended, unheard>>

\* The device stops waiting (timeout, or the app is killed): the request goes on.
RefreshTimeout(d) ==
    /\ call[d] # NoSes
    /\ unheard' = unheard \cup {family[sreq[call[d]].tok]}
    /\ call' = [call EXCEPT ![d] = NoSes]
    /\ UNCHANGED <<tokState, family, device, aged, held, sreq, ended>>

(***************************************************************************)
(* Beginning and ending sessions                                           *)
(***************************************************************************)

\* login, verify_email or google_sign_in: the other sessions of the device end.
LoginStarts(d, q) ==
    LET others == {t \in LiveTokens : device[t] = d} IN
    /\ held[d] = NoTok /\ call[d] = NoSes
    /\ \A r \in SesReq : sreq[r].kind = "login" => sreq[r].dev # d
    /\ Open(q, "login", d, NoTok, others, {family[t] : t \in others})
    /\ UNCHANGED <<tokState, family, device, aged, held, call, ended, unheard>>

\* logout shows the token read before its call; the call waits for a refresh in
\* flight, or makes one when the access token ran out.
LogoutStarts(d, q) ==
    /\ held[d] # NoTok
    /\ \A r \in SesReq : sreq[r].kind = "logout" => sreq[r].dev # d
    /\ Open(q, "logout", d, held[d], {held[d]}, {family[held[d]]})
    /\ UNCHANGED <<tokState, family, device, aged, held, call, ended, unheard>>

\* _can_revoke_session: a session may end younger ones, and any when a week old.
MayEnd(actor, target) ==
    /\ actor # target
    /\ actor \in aged \/ actor < target

\* revoke_device_session and revoke_other_device_sessions: some, or all, of the
\* sessions this one may end.  _resolve_current_session falls back on the family.
RevokeStarts(d, q, fams) ==
    /\ held[d] # NoTok /\ call[d] = NoSes
    /\ \E t \in LiveTokens : family[t] = family[held[d]]
    /\ fams # {}
    /\ \A f \in fams : MayEnd(family[held[d]], f) /\ \E t \in LiveTokens : family[t] = f
    /\ Open(q, "revoke", d, held[d], {t \in LiveTokens : family[t] \in fams}, fams)
    /\ UNCHANGED <<tokState, family, device, aged, held, call, ended, unheard>>

\* change_password, reset_password, an admin's revoke_user_sessions, the account
\* disabled: every session ends.
EndAllStarts(q) ==
    /\ LiveTokens # {}
    /\ Open(q, "all", NoSes, NoTok, LiveTokens, Families)
    /\ UNCHANGED <<tokState, family, device, aged, held, call, ended, unheard>>

\* The UPDATE waits for the locked rows, then the request commits.  It does not
\* see a token stored since it started.
EndsCommit(q) ==
    LET r == sreq[q] IN
    /\ r.kind \in {"logout", "revoke", "all"}
    /\ r.kind = "logout" => call[r.dev] = NoSes
    /\ \A t \in r.rows : ~RowLocked(t)
    /\ tokState' = [t \in RefTok |-> IF t \in r.rows /\ Live(t) THEN "revoked" ELSE tokState[t]]
    /\ held' = [d \in SesDevice |-> IF r.kind = "logout" /\ d = r.dev THEN NoTok ELSE held[d]]
    /\ ended' = ended \cup r.fams
    /\ sreq' = [sreq EXCEPT ![q] = NoSesReq]
    /\ UNCHANGED <<family, device, aged, call, unheard>>

LoginCommits(q, n) ==
    LET r == sreq[q] IN
    /\ r.kind = "login"
    /\ NextToken(n)
    /\ \A t \in r.rows : ~RowLocked(t)
    /\ tokState' = [t \in RefTok |-> IF t = n THEN "live"
                                     ELSE IF t \in r.rows /\ Live(t) THEN "revoked" ELSE tokState[t]]
    /\ device' = [device EXCEPT ![n] = r.dev]
    /\ family' = [family EXCEPT ![n] = n]
    /\ held' = [held EXCEPT ![r.dev] = n]
    /\ ended' = ended \cup r.fams
    /\ sreq' = [sreq EXCEPT ![q] = NoSesReq]
    /\ UNCHANGED <<aged, call, unheard>>

\* session_revoked reaches a device whose session was ended: it signs out.
Kicked(d) ==
    /\ held[d] # NoTok /\ call[d] = NoSes
    /\ family[held[d]] \in ended
    /\ held' = [held EXCEPT ![d] = NoTok]
    /\ UNCHANGED <<tokState, family, device, aged, call, sreq, ended, unheard>>

\* Requests take seconds.
WeekPasses ==
    /\ aged # Families
    /\ \A q \in SesReq : sreq[q].kind = "none"
    /\ aged' = Families
    /\ UNCHANGED <<tokState, family, device, held, call, sreq, ended, unheard>>

SessionsNext ==
    \/ \E d \in SesDevice, q \in SesReq : RefreshCall(d, q)
    \/ \E q \in SesReq : RefreshLoad(q)
    \/ \E q \in SesReq, n \in RefTok : RefreshStore(q, n)
    \/ \E q \in SesReq : RefreshFails(q)
    \/ \E q \in SesReq : RefreshHeard(q)
    \/ \E d \in SesDevice : RefreshTimeout(d)
    \/ \E d \in SesDevice, q \in SesReq : LoginStarts(d, q)
    \/ \E d \in SesDevice, q \in SesReq : LogoutStarts(d, q)
    \/ \E d \in SesDevice, q \in SesReq, fams \in SUBSET Families : RevokeStarts(d, q, fams)
    \/ \E q \in SesReq : EndAllStarts(q)
    \/ \E q \in SesReq : EndsCommit(q)
    \/ \E q \in SesReq, n \in RefTok : LoginCommits(q, n)
    \/ \E d \in SesDevice : Kicked(d)
    \/ WeekPasses

SessionsSpec == SessionsInit /\ [][SessionsNext]_sessionVars

(***************************************************************************)
(* Properties                                                              *)
(***************************************************************************)

SessionsTypeOK ==
    /\ tokState \in [RefTok -> {"unused", "live", "revoked"}]
    /\ family \in [RefTok -> RefTok] /\ device \in [RefTok -> SesDevice \cup {NoSes}]
    /\ aged \subseteq Families /\ ended \subseteq Families /\ unheard \subseteq Families
    /\ held \in [SesDevice -> RefTok \cup {NoTok}]
    /\ call \in [SesDevice -> SesReq \cup {NoSes}]
    /\ \A q \in SesReq : sreq[q].kind \in {"none", "refresh", "login", "logout", "revoke", "all"}

\* Repeated and overlapping refreshes leave at most one token of a session alive.
OneLiveToken ==
    \A t, u \in LiveTokens : family[t] = family[u] => t = u

\* "401/403 refresh — token haqiqatan yaroqsiz": an app that signs its user out
\* because a refresh was refused does so only when somebody ended the session,
\* or when the answer of an earlier refresh never arrived.
SignedOutForCause ==
    \A q \in SesReq : sreq[q].kind = "refresh" /\ sreq[q].step = "refused"
                      => family[sreq[q].tok] \in ended \cup unheard
================================================================================
