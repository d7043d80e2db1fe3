----------------------------- MODULE SessionsProofs -----------------------------
(***************************************************************************)
(* Theorems of Sessions: for any number of devices, tokens and requests, a *)
(* session has at most one live token, and a device that is refused was    *)
(* signed out by somebody or did not hear the answer to a refresh.  And of *)
(* Accounts: for any number of accounts and requests, what is purged stays *)
(* purged, without a session and without its address.                      *)
(***************************************************************************)
EXTENDS Sessions, Accounts, TLAPS

Kind == {"refresh", "login", "logout", "revoke", "all"}

Request == [kind : Kind \cup {"none"},
            dev : SesDevice \cup {NoSes}, tok : RefTok \cup {NoTok},
            step : {"sent", "locked", "stored", "refused", "failed"},
            rows : SUBSET RefTok, fams : SUBSET RefTok, new : RefTok \cup {NoTok}]

(***************************************************************************)
(* The inductive invariant                                                 *)
(***************************************************************************)

Used(t) == tokState[t] # "unused"

\* Somebody ended the session of t, or an answer to a refresh of it was lost.
Cause(t) == family[t] \in ended \cup unheard

\* Live, or revoked with a cause.
Sound(t) == Live(t) \/ Cause(t)

\* The tables, the devices and the requests.
Typed ==
    /\ tokState \in [RefTok -> {"unused", "live", "revoked"}]
    /\ family \in [RefTok -> RefTok] /\ device \in [RefTok -> SesDevice \cup {NoSes}]
    /\ held \in [SesDevice -> RefTok \cup {NoTok}]
    /\ call \in [SesDevice -> SesReq \cup {NoSes}]
    /\ sreq \in [SesReq -> Request]

\* The first token of a session is in the table as long as a later one is.
Rooted == \A t \in RefTok : Used(t) => Used(family[t])

\* What an open request names is in the table, and a device holds its own tokens.
Named ==
    /\ \A d \in SesDevice : held[d] # NoTok => Used(held[d]) /\ device[held[d]] = d
    /\ \A q \in SesReq : sreq[q].kind = "refresh" =>
          /\ sreq[q].tok \in RefTok /\ Used(sreq[q].tok)
          /\ sreq[q].dev \in SesDevice /\ device[sreq[q].tok] = sreq[q].dev
          /\ sreq[q].step = "stored" =>
                /\ sreq[q].new \in RefTok /\ Used(sreq[q].new)
                /\ device[sreq[q].new] = sreq[q].dev
                /\ family[sreq[q].new] = family[sreq[q].tok]
    /\ \A q \in SesReq, t \in RefTok : t \in sreq[q].rows => Used(t) /\ family[t] \in sreq[q].fams
    /\ \A q \in SesReq : sreq[q].kind = "login" => sreq[q].dev \in SesDevice
    /\ \A q \in SesReq : sreq[q].kind = "logout" => sreq[q].dev \in SesDevice

\* A locked token is live, and locked by one request.
Locks ==
    /\ \A q \in SesReq : sreq[q].kind = "refresh" /\ sreq[q].step = "locked" => Live(sreq[q].tok)
    /\ \A q, r \in SesReq :
          /\ sreq[q].kind = "refresh" /\ sreq[q].step = "locked"
          /\ sreq[r].kind = "refresh" /\ sreq[r].step = "locked"
          /\ sreq[q].tok = sreq[r].tok
          => q = r

\* A device that waits for an answer waits for its own refresh of the token it
\* holds; a refresh nobody waits for has an answer that was lost.
Waits ==
    /\ \A d \in SesDevice : call[d] # NoSes =>
          /\ sreq[call[d]].kind = "refresh" /\ sreq[call[d]].dev = d
          /\ held[d] = sreq[call[d]].tok
    /\ \A q \in SesReq : sreq[q].kind = "refresh" =>
          call[sreq[q].dev] = q \/ family[sreq[q].tok] \in unheard
    /\ \A q \in SesReq : sreq[q].kind = "login" =>
          held[sreq[q].dev] = NoTok /\ call[sreq[q].dev] = NoSes
    /\ \A q, r \in SesReq : sreq[q].kind = "login" /\ sreq[r].kind = "login"
                            /\ sreq[q].dev = sreq[r].dev => q = r

\* What a device holds, or is about to be given, is sound.
Held ==
    /\ \A d \in SesDevice : held[d] # NoTok /\ call[d] = NoSes => Sound(held[d])
    /\ \A q \in SesReq : sreq[q].kind = "refresh" =>
          CASE sreq[q].step = "stored" -> Sound(sreq[q].new)
            [] sreq[q].step = "refused" -> Cause(sreq[q].tok)
            [] OTHER -> Sound(sreq[q].tok)

SInv == Typed /\ Rooted /\ Named /\ Locks /\ OneLiveToken /\ Waits /\ Held

(***************************************************************************)
(* Requests                                                                *)
(***************************************************************************)

USE SessionAssumption

LEMMA EmptyRequest ==
    /\ NoSesReq \in Request
    /\ NoSesReq.kind = "none" /\ NoSesReq.rows = {}
  BY DEF NoSesReq, Request

\* An answer changes how far its request is and what it stored.
LEMMA AnswerKeeps ==
    ASSUME Typed, NEW q \in SesReq, NEW outcome \in {"locked", "stored", "refused", "failed"},
           NEW n \in RefTok \cup {NoTok}, Answer(q, outcome, n)
    PROVE  /\ sreq' \in [SesReq -> Request]
           /\ sreq'[q].kind = sreq[q].kind /\ sreq'[q].dev = sreq[q].dev
           /\ sreq'[q].tok = sreq[q].tok /\ sreq'[q].rows = sreq[q].rows
           /\ sreq'[q].fams = sreq[q].fams
           /\ sreq'[q].step = outcome /\ sreq'[q].new = n
           /\ \A r \in SesReq \ {q} : sreq'[r] = sreq[r]
<1> DEFINE new == [sreq[q] EXCEPT !.step = outcome, !.new = n]
<1>1. new \in Request /\ new.kind = sreq[q].kind /\ new.dev = sreq[q].dev
      /\ new.tok = sreq[q].tok /\ new.rows = sreq[q].rows /\ new.fams = sreq[q].fams
      /\ new.step = outcome /\ new.new = n
  <2>1. sreq[q] \in Request
    BY DEF Typed
  <2> QED BY <2>1 DEF Request
<1>2. sreq' = [sreq EXCEPT ![q] = new]
  BY DEF Answer
<1> HIDE DEF new
<1> QED BY <1>1, <1>2 DEF Typed

\* A request that is over leaves the others alone.
LEMMA OverKeeps ==
    ASSUME Typed, NEW q \in SesReq, sreq' = [sreq EXCEPT ![q] = NoSesReq]
    PROVE  /\ sreq' \in [SesReq -> Request]
           /\ sreq'[q].kind = "none" /\ sreq'[q].rows = {}
           /\ \A r \in SesReq \ {q} : sreq'[r] = sreq[r]
  BY EmptyRequest DEF Typed

\* What depends only on the table of tokens.
LEMMA TableKeeps ==
    ASSUME Rooted, OneLiveToken, UNCHANGED <<tokState, family>>
    PROVE  Rooted' /\ OneLiveToken'
  BY DEF Rooted, Used, OneLiveToken, LiveTokens, Live

(***************************************************************************)
(* Refreshing                                                              *)
(***************************************************************************)

LEMMA CallKeeps ==
    ASSUME SInv, NEW d \in SesDevice, NEW q \in SesReq, RefreshCall(d, q)
    PROVE  SInv'
<1> USE DEF SInv
<1>1. /\ held[d] \in RefTok /\ call[d] = NoSes /\ Open(q, "refresh", d, held[d], {}, {})
      /\ call' = [call EXCEPT ![d] = q]
      /\ UNCHANGED <<tokState, family, device, aged, held, ended, unheard>>
  BY DEF RefreshCall, Typed
<1>2. /\ sreq' \in [SesReq -> Request]
      /\ sreq[q].kind = "none"
      /\ sreq'[q].kind = "refresh" /\ sreq'[q].dev = d /\ sreq'[q].tok = held[d]
      /\ sreq'[q].step = "sent" /\ sreq'[q].rows = {}
      /\ \A r \in SesReq \ {q} : sreq'[r] = sreq[r]
  <2> DEFINE new == [NoSesReq EXCEPT !.kind = "refresh", !.dev = d, !.tok = held[d],
                                     !.rows = {}, !.fams = {}]
  <2>1. /\ new \in Request /\ new.kind = "refresh" /\ new.dev = d /\ new.tok = held[d]
        /\ new.step = "sent" /\ new.rows = {}
    BY <1>1 DEF NoSesReq, Request, Kind
  <2>2. sreq' = [sreq EXCEPT ![q] = new] /\ sreq[q].kind = "none"
    BY <1>1 DEF Open
  <2> HIDE DEF new
  <2> QED BY <2>1, <2>2 DEF Typed
<1>3. Typed'
  BY <1>1, <1>2 DEF Typed
<1>4. Named'
  BY <1>1, <1>2 DEF Named, Used
<1>5. Locks'
  BY <1>1, <1>2 DEF Locks, Live
<1>6. Waits'
  <2>1. call'[d] = q /\ \A e \in SesDevice \ {d} : call'[e] = call[e]
    BY <1>1 DEF Typed
  <2>2. \A r \in SesReq \ {q} : sreq[r].kind = "refresh" /\ call[sreq[r].dev] = r =>
            sreq[r].dev \in SesDevice \ {d}
    BY <1>1 DEF Named
  <2>3. \A r \in SesReq : sreq'[r].kind = "refresh" =>
            call'[sreq'[r].dev] = r \/ family'[sreq'[r].tok] \in unheard'
    BY <1>1, <1>2, <2>1, <2>2 DEF Waits
  <2>4. \A r \in SesReq : sreq'[r].kind = "login" =>
            held'[sreq'[r].dev] = NoTok /\ call'[sreq'[r].dev] = NoSes
    BY <1>1, <1>2, <2>1 DEF Waits, Named
  <2>5. \A e \in SesDevice : call'[e] # NoSes =>
            sreq'[call'[e]].kind = "refresh" /\ sreq'[call'[e]].dev = e
            /\ held'[e] = sreq'[call'[e]].tok
    BY <1>1, <1>2, <2>1 DEF Waits, Typed
  <2> QED BY <1>2, <2>3, <2>4, <2>5 DEF Waits
<1>7. Held'
  BY <1>1, <1>2 DEF Held, Sound, Cause, Live, Typed
<1> QED BY <1>1, <1>3, <1>4, <1>5, <1>6, <1>7, TableKeeps

\* A refused or a failed refresh, and one that locks its token.
LEMMA LoadKeeps ==
    ASSUME SInv, NEW q \in SesReq, RefreshLoad(q) \/ RefreshFails(q)
    PROVE  SInv'
<1> USE DEF SInv
<1>1. PICK outcome \in {"locked", "refused", "failed"} :
         /\ sreq[q].kind = "refresh" /\ Answer(q, outcome, NoTok)
         /\ outcome = "locked" => Live(sreq[q].tok) /\ ~RowLocked(sreq[q].tok)
         /\ outcome = "refused" => ~Live(sreq[q].tok)
         /\ sreq[q].step \in {"sent", "locked"}
         /\ UNCHANGED <<tokState, family, device, aged, held, call, ended, unheard>>
  BY DEF RefreshLoad, RefreshFails
<1>2. /\ sreq' \in [SesReq -> Request]
      /\ sreq'[q].kind = sreq[q].kind /\ sreq'[q].dev = sreq[q].dev
      /\ sreq'[q].tok = sreq[q].tok /\ sreq'[q].rows = sreq[q].rows
      /\ sreq'[q].fams = sreq[q].fams /\ sreq'[q].step = outcome
      /\ \A r \in SesReq \ {q} : sreq'[r] = sreq[r]
  BY <1>1, AnswerKeeps, ZenonT(60)
<1>3. Typed'
  BY <1>1, <1>2 DEF Typed
<1>4. Named'
  <2>1. \A r \in SesReq, t \in RefTok : t \in sreq'[r].rows => Used(t)' /\ family'[t] \in sreq'[r].fams
    BY <1>1, <1>2 DEF Named, Used
  <2> QED BY <1>1, <1>2, <2>1 DEF Named, Used
<1>5. Locks'
  <2>1. \A r \in SesReq : sreq'[r].kind = "refresh" /\ sreq'[r].step = "locked" =>
            tokState'[sreq'[r].tok] = "live"
    BY <1>1, <1>2 DEF Locks, Live
  <2>2. ASSUME outcome = "locked"
        PROVE  \A r \in SesReq : sreq[r].kind = "refresh" /\ sreq[r].step = "locked"
                   => sreq[r].tok # sreq[q].tok
    BY <1>1, <2>2 DEF RowLocked
  <2>3. \A r, w \in SesReq :
           /\ sreq'[r].kind = "refresh" /\ sreq'[r].step = "locked"
           /\ sreq'[w].kind = "refresh" /\ sreq'[w].step = "locked"
           /\ sreq'[r].tok = sreq'[w].tok
           => r = w
    BY <1>1, <1>2, <2>2 DEF Locks
  <2> QED BY <2>1, <2>3 DEF Locks, Live
<1>6. Waits'
  <2>1. \A r \in SesReq : sreq'[r].kind = sreq[r].kind /\ sreq'[r].dev = sreq[r].dev
                          /\ sreq'[r].tok = sreq[r].tok
    BY <1>2
  <2> QED BY <1>1, <2>1 DEF Waits, Typed
<1>7. Held'
  <2>1. Sound(sreq[q].tok)
    BY <1>1 DEF Held
  <2> QED BY <1>1, <1>2, <2>1 DEF Held, Sound, Cause, Live
<1> QED BY <1>1, <1>3, <1>4, <1>5, <1>6, <1>7, TableKeeps

\* The session's next token takes over from the one that was locked.
LEMMA StoreKeeps ==
    ASSUME SInv, NEW q \in SesReq, NEW n \in RefTok, RefreshStore(q, n)
    PROVE  SInv'
<1> USE DEF SInv
<1> DEFINE t == sreq[q].tok
           d == sreq[q].dev
<1>1. /\ sreq[q].kind = "refresh" /\ sreq[q].step = "locked" /\ tokState[n] = "unused"
      /\ tokState' = [tokState EXCEPT ![t] = "revoked", ![n] = "live"]
      /\ family' = [family EXCEPT ![n] = family[t]]
      /\ device' = [device EXCEPT ![n] = device[t]]
      /\ Answer(q, "stored", n)
      /\ UNCHANGED <<aged, held, call, ended, unheard>>
  BY DEF RefreshStore, NextToken
<1>2. t \in RefTok /\ Live(t) /\ t # n /\ d \in SesDevice /\ device[t] = d
  BY <1>1 DEF Named, Locks, Live
<1>3. /\ sreq' \in [SesReq -> Request]
      /\ sreq'[q].kind = "refresh" /\ sreq'[q].dev = d /\ sreq'[q].tok = t
      /\ sreq'[q].rows = sreq[q].rows /\ sreq'[q].fams = sreq[q].fams
      /\ sreq'[q].step = "stored" /\ sreq'[q].new = n
      /\ \A r \in SesReq \ {q} : sreq'[r] = sreq[r]
  <2> HIDE DEF SInv
  <2>1. Typed /\ Answer(q, "stored", n)
    BY <1>1 DEF SInv
  <2> QED BY <1>1, <2>1, AnswerKeeps
<1>4. \A r \in SesReq : sreq'[r].kind = sreq[r].kind /\ sreq'[r].dev = sreq[r].dev
                        /\ sreq'[r].tok = sreq[r].tok /\ sreq'[r].rows = sreq[r].rows
                        /\ sreq'[r].fams = sreq[r].fams
  BY <1>1, <1>3
<1>5. /\ tokState'[t] = "revoked" /\ tokState'[n] = "live"
      /\ family'[n] = family[t] /\ device'[n] = d
      /\ \A u \in RefTok \ {n} : family'[u] = family[u] /\ device'[u] = device[u]
      /\ \A u \in RefTok \ {n, t} : tokState'[u] = tokState[u]
      /\ tokState' \in [RefTok -> {"unused", "live", "revoked"}]
      /\ family' \in [RefTok -> RefTok] /\ device' \in [RefTok -> SesDevice \cup {NoSes}]
  BY <1>1, <1>2 DEF Typed
<1> HIDE DEF t, d
<1>6. \A u \in RefTok : tokState[u] # "unused" =>
          tokState'[u] # "unused" /\ family'[u] = family[u] /\ device'[u] = device[u]
  BY <1>1, <1>5
<1>7. Typed'
  BY <1>1, <1>3, <1>5 DEF Typed
<1>8. Rooted'
  <2>1. tokState[t] # "unused" /\ family[t] \in RefTok /\ tokState[family[t]] # "unused"
    BY <1>2 DEF Rooted, Used, Live, Typed
  <2>2. ASSUME NEW u \in RefTok, u # n, tokState'[u] # "unused"
        PROVE  tokState'[family'[u]] # "unused"
    <3>1. tokState[u] # "unused" /\ family'[u] = family[u]
      BY <1>2, <1>5, <2>1, <2>2
    <3>2. family[u] \in RefTok /\ tokState[family[u]] # "unused"
      BY <3>1 DEF Rooted, Used, Typed
    <3> QED BY <1>6, <3>1, <3>2
  <2>3. tokState'[family'[n]] # "unused"
    BY <1>5, <1>6, <2>1
  <2> HIDE DEF SInv
  <2> QED BY <2>2, <2>3 DEF Rooted, Used
<1>9. Named'
  <2>1. \A e \in SesDevice : held[e] # NoTok => held[e] \in RefTok
    BY DEF Typed
  <2>2. \A r \in SesReq, u \in RefTok : u \in sreq'[r].rows => Used(u)' /\ family'[u] \in sreq'[r].fams
    BY <1>4, <1>6 DEF Named, Used
  <2>3. ASSUME NEW r \in SesReq \ {q}, sreq'[r].kind = "refresh"
        PROVE  /\ sreq'[r].tok \in RefTok /\ tokState'[sreq'[r].tok] # "unused"
               /\ sreq'[r].dev \in SesDevice /\ device'[sreq'[r].tok] = sreq'[r].dev
               /\ sreq'[r].step = "stored" =>
                     /\ sreq'[r].new \in RefTok /\ tokState'[sreq'[r].new] # "unused"
                     /\ device'[sreq'[r].new] = sreq'[r].dev
                     /\ family'[sreq'[r].new] = family'[sreq'[r].tok]
    <3>1. sreq'[r] = sreq[r] /\ sreq[r].kind = "refresh"
      BY <1>3, <2>3
    <3>2. /\ sreq[r].tok \in RefTok /\ tokState[sreq[r].tok] # "unused"
          /\ sreq[r].dev \in SesDevice /\ device[sreq[r].tok] = sreq[r].dev
          /\ sreq[r].step = "stored" =>
                /\ sreq[r].new \in RefTok /\ tokState[sreq[r].new] # "unused"
                /\ device[sreq[r].new] = sreq[r].dev
                /\ family[sreq[r].new] = family[sreq[r].tok]
      BY <3>1 DEF Named, Used
    <3> HIDE DEF SInv
    <3> QED BY <1>6, <3>1, <3>2, ZenonT(60)
  <2>4. \A e \in SesDevice : held'[e] # NoTok => tokState'[held'[e]] # "unused" /\ device'[held'[e]] = e
    BY <1>1, <1>6, <2>1 DEF Named, Used
  <2> QED BY <1>2, <1>3, <1>4, <1>5, <2>2, <2>3, <2>4 DEF Named, Used
<1>10. Locks'
  <2>1. \A r \in SesReq \ {q} : sreq[r].kind = "refresh" /\ sreq[r].step = "locked" =>
            sreq[r].tok \in RefTok \ {n, t}
    BY <1>1, <1>2 DEF Locks, Live, Named, t
  <2>2. \A r \in SesReq : sreq'[r].kind = "refresh" /\ sreq'[r].step = "locked" =>
            r # q /\ tokState'[sreq'[r].tok] = "live"
    <3> SUFFICES ASSUME NEW r \in SesReq, sreq'[r].kind = "refresh", sreq'[r].step = "locked"
                 PROVE  r # q /\ tokState'[sreq'[r].tok] = "live"
      OBVIOUS
    <3> HIDE DEF SInv
    <3>1. r # q
      BY <1>3
    <3>2. sreq'[r] = sreq[r]
      BY <1>3, <3>1
    <3>3. sreq[r].tok \in RefTok \ {n, t}
      BY <2>1, <3>1, <3>2
    <3>4. tokState[sreq[r].tok] = "live"
      BY <3>2 DEF SInv, Locks, Live
    <3> QED BY <1>5, <3>1, <3>2, <3>3, <3>4
  <2>3. \A r, w \in SesReq :
           /\ sreq'[r].kind = "refresh" /\ sreq'[r].step = "locked"
           /\ sreq'[w].kind = "refresh" /\ sreq'[w].step = "locked"
           /\ sreq'[r].tok = sreq'[w].tok
           => r = w
    BY <1>3, <2>2 DEF Locks
  <2> QED BY <2>2, <2>3 DEF Locks, Live
<1>11. OneLiveToken'
  <2>1. ASSUME NEW u \in RefTok, NEW w \in RefTok, tokState'[u] = "live", tokState'[w] = "live",
               family'[u] = family'[w]
        PROVE  u = w
    <3> HIDE DEF SInv
    <3>1. \A x, y \in RefTok : tokState[x] = "live" /\ tokState[y] = "live" /\ family[x] = family[y] => x = y
      BY DEF SInv, OneLiveToken, LiveTokens, Live
    <3>2. tokState[t] = "live" /\ u # t /\ w # t
      BY <1>2, <1>5, <2>1 DEF Live
    <3>3. \A x \in {u, w} : x # n => tokState[x] = "live" /\ family'[x] = family[x]
      BY <1>5, <2>1, <3>2
    <3>4. CASE u # n /\ w # n
      BY <2>1, <3>1, <3>3, <3>4
    <3>5. CASE u = n \/ w = n
      <4>1. \A x \in {u, w} : x # n => family[x] # family[t]
        BY <1>2, <3>1, <3>2, <3>3
      <4> QED BY <1>5, <2>1, <3>3, <3>5, <4>1
    <3> QED BY <3>4, <3>5
  <2> QED BY <2>1 DEF OneLiveToken, LiveTokens, Live
<1>12. Waits'
  <2>1. \A r \in SesReq : sreq'[r].kind = "refresh" =>
            call'[sreq'[r].dev] = r \/ family'[sreq'[r].tok] \in unheard'
    <3> SUFFICES ASSUME NEW r \in SesReq, sreq'[r].kind = "refresh"
                 PROVE  call'[sreq'[r].dev] = r \/ family'[sreq'[r].tok] \in unheard'
      OBVIOUS
    <3> HIDE DEF SInv
    <3>1. sreq[r].kind = "refresh" /\ sreq'[r].dev = sreq[r].dev /\ sreq'[r].tok = sreq[r].tok
      BY <1>4
    <3>2. call[sreq[r].dev] = r \/ family[sreq[r].tok] \in unheard
      BY <3>1 DEF SInv, Waits
    <3>3. sreq[r].tok \in RefTok /\ tokState[sreq[r].tok] # "unused"
      BY <3>1 DEF SInv, Named, Used
    <3> QED BY <1>1, <1>6, <3>1, <3>2, <3>3
  <2> QED BY <1>1, <1>4, <2>1 DEF Waits, Typed
<1>13. Held'
  <2>1. ASSUME NEW u \in RefTok, u # t, Used(u), Sound(u)
        PROVE  tokState'[u] = "live" \/ family'[u] \in ended' \cup unheard'
    BY <1>1, <1>5, <2>1 DEF Sound, Cause, Live, Used
  <2>2. ASSUME NEW u \in RefTok, Used(u), Cause(u)
        PROVE  family'[u] \in ended' \cup unheard'
    BY <1>1, <1>6, <2>2 DEF Cause, Used
  <2>3. ASSUME NEW e \in SesDevice, held[e] # NoTok, call[e] = NoSes
        PROVE  tokState'[held[e]] = "live" \/ family'[held[e]] \in ended' \cup unheard'
    <3>1. held[e] \in RefTok /\ Used(held[e]) /\ device[held[e]] = e /\ Sound(held[e])
      BY <2>3 DEF Named, Held, Typed
    <3>2. CASE held[e] = t
      BY <1>1, <1>2, <2>2, <2>3, <3>1, <3>2 DEF Waits, Cause, t, d
    <3>3. CASE held[e] # t
      BY <2>1, <3>1, <3>3
    <3> QED BY <3>2, <3>3
  <2>4. ASSUME NEW r \in SesReq \ {q}, sreq[r].kind = "refresh"
        PROVE  CASE sreq[r].step = "stored" -> Sound(sreq[r].new)'
                 [] sreq[r].step = "refused" -> Cause(sreq[r].tok)'
                 [] OTHER -> Sound(sreq[r].tok)'
    <3>1. /\ sreq'[r] = sreq[r]
          /\ sreq[r].tok \in RefTok /\ Used(sreq[r].tok) /\ device[sreq[r].tok] = sreq[r].dev
          /\ sreq[r].dev \in SesDevice
          /\ sreq[r].step = "stored" => sreq[r].new \in RefTok /\ Used(sreq[r].new)
                                        /\ device[sreq[r].new] = sreq[r].dev
                                        /\ family[sreq[r].new] = family[sreq[r].tok]
      BY <1>3, <2>4 DEF Named
    <3>2. sreq[r].dev = d => Cause(sreq[r].tok) \/ Cause(t)
      BY <1>1, <2>4 DEF Waits, Cause, t, d
    <3>3. CASE sreq[r].step = "stored"
      <4>1. CASE sreq[r].new = t
        BY <1>2, <2>2, <3>1, <3>2, <3>3, <4>1 DEF Sound, Cause
      <4>2. CASE sreq[r].new # t
        BY <2>1, <2>4, <3>1, <3>3, <4>2 DEF Held, Sound, Cause, Live
      <4> QED BY <4>1, <4>2
    <3>4. CASE sreq[r].step = "refused"
      BY <2>2, <2>4, <3>1, <3>4 DEF Held, Cause
    <3>5. CASE sreq[r].step \notin {"stored", "refused"}
      <4>1. CASE sreq[r].tok = t
        BY <1>2, <2>2, <3>1, <3>2, <3>5, <4>1 DEF Sound, Cause
      <4>2. CASE sreq[r].tok # t
        BY <2>1, <2>4, <3>1, <3>5, <4>2 DEF Held, Sound, Cause, Live
      <4> QED BY <4>1, <4>2
    <3> QED BY <3>3, <3>4, <3>5
  <2>5. Sound(n)'
    BY <1>5 DEF Sound, Live
  <2>6. \A e \in SesDevice : held'[e] # NoTok /\ call'[e] = NoSes => Sound(held[e])'
    BY <1>1, <2>3 DEF Sound, Cause, Live
  <2>7. ASSUME NEW r \in SesReq, sreq'[r].kind = "refresh"
        PROVE  CASE sreq'[r].step = "stored" -> Sound(sreq[r].new)'
                 [] sreq'[r].step = "refused" -> Cause(sreq[r].tok)'
                 [] OTHER -> Sound(sreq[r].tok)'
    <3>1. CASE r = q
      BY <1>3, <2>5, <3>1 DEF Sound, Cause, Live
    <3>2. CASE r # q
      BY <1>3, <2>4, <2>7, <3>2 DEF Sound, Cause, Live
    <3> QED BY <3>1, <3>2
  <2> QED BY <1>1, <2>6, <2>7 DEF Held
<1> QED BY <1>7, <1>8, <1>9, <1>10, <1>11, <1>12, <1>13

\* An answer that reaches its device, and one nobody waits for.
LEMMA HeardKeeps ==
    ASSUME SInv, NEW q \in SesReq, RefreshHeard(q)
    PROVE  SInv'
<1> USE DEF SInv
<1> DEFINE d == sreq[q].dev
<1>1. /\ sreq[q].kind = "refresh" /\ sreq[q].step \in {"stored", "refused", "failed"}
      /\ sreq' = [sreq EXCEPT ![q] = NoSesReq]
      /\ UNCHANGED <<tokState, family, device, aged, ended, unheard>>
      /\ d \in SesDevice
  BY DEF RefreshHeard, Named
<1>2. /\ sreq' \in [SesReq -> Request]
      /\ sreq'[q].kind = "none" /\ sreq'[q].rows = {}
      /\ \A r \in SesReq \ {q} : sreq'[r] = sreq[r]
  BY <1>1, OverKeeps
<1>3. /\ call' \in [SesDevice -> SesReq \cup {NoSes}]
      /\ \A e \in SesDevice : call'[e] = IF e = d /\ call[d] = q THEN NoSes ELSE call[e]
  BY <1>1 DEF RefreshHeard, Typed
<1>4. /\ held' \in [SesDevice -> RefTok \cup {NoTok}]
      /\ \A e \in SesDevice \ {d} : held'[e] = held[e]
      /\ call[d] # q => held'[d] = held[d]
      /\ call[d] = q => CASE sreq[q].step = "stored" -> held'[d] = sreq[q].new
                          [] sreq[q].step = "refused" -> held'[d] = NoTok
                          [] OTHER -> held'[d] = held[d]
  BY <1>1 DEF RefreshHeard, Typed, Named
<1> HIDE DEF d
<1>5. Typed'
  BY <1>1, <1>2, <1>3, <1>4 DEF Typed
<1>6. Locks'
  BY <1>1, <1>2 DEF Locks, Live
<1>7. Named'
  <2>1. \A r \in SesReq, t \in RefTok : t \in sreq'[r].rows => Used(t)' /\ family'[t] \in sreq'[r].fams
    BY <1>1, <1>2 DEF Named, Used
  <2>2. \A e \in SesDevice : held'[e] # NoTok => tokState'[held'[e]] # "unused" /\ device'[held'[e]] = e
    BY <1>1, <1>4 DEF Named, Used, d
  <2> QED BY <1>1, <1>2, <2>1, <2>2 DEF Named, Used
<1>8. Waits'
  <2>1. \A e \in SesDevice : call'[e] # NoSes =>
           call'[e] \in SesReq \ {q} /\ call'[e] = call[e] /\ held'[e] = held[e]
    BY <1>3, <1>4 DEF Waits, Typed, d
  <2>2. \A e \in SesDevice : call'[e] # NoSes =>
            sreq'[call'[e]].kind = "refresh" /\ sreq'[call'[e]].dev = e
            /\ held'[e] = sreq'[call'[e]].tok
    BY <1>2, <2>1 DEF Waits
  <2>3. \A r \in SesReq : sreq'[r].kind = "refresh" =>
            call'[sreq'[r].dev] = r \/ family'[sreq'[r].tok] \in unheard'
    BY <1>1, <1>2, <1>3 DEF Waits, Named
  <2>4. \A r \in SesReq : sreq'[r].kind = "login" =>
            held'[sreq'[r].dev] = NoTok /\ call'[sreq'[r].dev] = NoSes
    BY <1>1, <1>2, <1>3, <1>4 DEF Waits, Named
  <2> QED BY <1>2, <2>2, <2>3, <2>4 DEF Waits
<1>9. Held'
  <2>1. \A t \in RefTok : Sound(t)' = Sound(t) /\ Cause(t)' = Cause(t)
    BY <1>1 DEF Sound, Cause, Live
  <2>2. \A e \in SesDevice : held'[e] # NoTok /\ call'[e] = NoSes => Sound(held'[e])
    BY <1>1, <1>3, <1>4 DEF Held, Waits, d
  <2>3. \A e \in SesDevice : held'[e] # NoTok /\ call'[e] = NoSes => Sound(held[e])'
    BY <1>1, <2>2 DEF Sound, Cause, Live
  <2> QED BY <1>1, <1>2, <2>3 DEF Held, Sound, Cause, Live
<1> QED BY <1>1, <1>5, <1>6, <1>7, <1>8, <1>9, TableKeeps

\* A device that stops waiting: the answer of that session is lost.
LEMMA TimeoutKeeps ==
    ASSUME SInv, NEW d \in SesDevice, RefreshTimeout(d)
    PROVE  SInv'
<1> USE DEF SInv
<1> DEFINE q == call[d]
<1>1. /\ q \in SesReq /\ sreq[q].kind = "refresh" /\ sreq[q].dev = d
      /\ sreq[q].tok \in RefTok /\ held[d] = sreq[q].tok
      /\ unheard' = unheard \cup {family[sreq[q].tok]}
      /\ call' \in [SesDevice -> SesReq \cup {NoSes}]
      /\ call'[d] = NoSes /\ \A e \in SesDevice \ {d} : call'[e] = call[e]
      /\ UNCHANGED <<tokState, family, device, aged, held, sreq, ended>>
  BY DEF RefreshTimeout, Typed, Waits, Named
<1> HIDE DEF q
<1>2. Typed' /\ Locks' /\ Named'
  BY <1>1 DEF Typed, Locks, Named, Used, Live
<1>3. Waits'
  <2>1. \A r \in SesReq : sreq'[r].kind = "refresh" =>
            call'[sreq'[r].dev] = r \/ family'[sreq'[r].tok] \in unheard'
    BY <1>1 DEF Waits, Named, q
  <2> QED BY <1>1, <2>1 DEF Waits, Named
<1>4. Held'
  <2>1. \A t \in RefTok : Cause(t) => Cause(t)'
    BY <1>1 DEF Cause
  <2>2. \A t \in RefTok : Sound(t) => Sound(t)'
    BY <1>1, <2>1 DEF Sound, Live
  <2>3. Cause(held[d])'
    BY <1>1 DEF Cause
  <2> QED BY <1>1, <2>1, <2>2, <2>3 DEF Held, Named, Sound, Cause, Live, Typed
<1> QED BY <1>1, <1>2, <1>3, <1>4, TableKeeps

(***************************************************************************)
(* Beginning and ending sessions                                           *)
(***************************************************************************)

\* The requests that end sessions change nothing when they are opened.
LEMMA EndingStarts ==
    ASSUME SInv, NEW q \in SesReq, NEW kind \in {"login", "logout", "revoke", "all"},
           NEW d \in SesDevice \cup {NoSes}, NEW t \in RefTok \cup {NoTok},
           NEW rows \in SUBSET RefTok, NEW fams \in SUBSET RefTok,
           Open(q, kind, d, t, rows, fams),
           \A u \in rows : Used(u) /\ family[u] \in fams,
           kind \in {"login", "logout"} => d \in SesDevice,
           kind = "login" => /\ held[d] = NoTok /\ call[d] = NoSes
                             /\ \A r \in SesReq : sreq[r].kind = "login" => sreq[r].dev # d,
           UNCHANGED <<tokState, family, device, aged, held, call, ended, unheard>>
    PROVE  SInv'
<1>1. /\ sreq' \in [SesReq -> Request]
      /\ sreq[q].kind = "none"
      /\ sreq'[q].kind = kind /\ sreq'[q].dev = d
      /\ sreq'[q].rows = rows /\ sreq'[q].fams = fams
      /\ \A r \in SesReq \ {q} : sreq'[r] = sreq[r]
  <2> DEFINE new == [NoSesReq EXCEPT !.kind = kind, !.dev = d, !.tok = t, !.rows = rows,
                                     !.fams = fams]
  <2>1. /\ new \in Request /\ new.kind = kind /\ new.dev = d
        /\ new.rows = rows /\ new.fams = fams
    BY DEF NoSesReq, Request, Kind
  <2>2. sreq' = [sreq EXCEPT ![q] = new] /\ sreq[q].kind = "none"
    BY DEF Open
  <2> HIDE DEF new
  <2> QED BY <2>1, <2>2 DEF SInv, Typed
<1> USE DEF SInv
<1>2. Typed'
  BY <1>1 DEF Typed
<1>3. Locks'
  BY <1>1 DEF Locks, Live
<1>4. Named'
  BY <1>1 DEF Named, Used
<1>5. Waits'
  <2>1. \A e \in SesDevice : call[e] # NoSes => call[e] \in SesReq \ {q}
    BY <1>1 DEF Waits, Typed
  <2> QED BY <1>1, <2>1 DEF Waits
<1>6. Held'
  BY <1>1 DEF Held, Sound, Cause, Live
<1> QED BY <1>2, <1>3, <1>4, <1>5, <1>6, TableKeeps

\* Ending sessions revokes rows of theirs, none of which is locked.
LEMMA EndsKeeps ==
    ASSUME SInv, NEW q \in SesReq, EndsCommit(q)
    PROVE  SInv'
<1> USE DEF SInv
<1> DEFINE rows == sreq[q].rows
           d == sreq[q].dev
           out == sreq[q].kind = "logout"
<1>1. /\ sreq[q].kind \in {"logout", "revoke", "all"}
      /\ out => call[d] = NoSes /\ d \in SesDevice
      /\ \A t \in rows : ~RowLocked(t)
      /\ tokState' = [t \in RefTok |-> IF t \in rows /\ Live(t) THEN "revoked" ELSE tokState[t]]
      /\ held' = [e \in SesDevice |-> IF out /\ e = d THEN NoTok ELSE held[e]]
      /\ ended' = ended \cup sreq[q].fams
      /\ sreq' = [sreq EXCEPT ![q] = NoSesReq]
      /\ UNCHANGED <<family, device, aged, call, unheard>>
  BY DEF EndsCommit, Named
<1>2. /\ sreq' \in [SesReq -> Request]
      /\ sreq'[q].kind = "none" /\ sreq'[q].rows = {}
      /\ \A r \in SesReq \ {q} : sreq'[r] = sreq[r]
  BY <1>1, OverKeeps
<1>3. /\ \A t \in rows : t \in RefTok => family[t] \in ended'
      /\ \A t \in RefTok : (tokState'[t] # "unused") <=> (tokState[t] # "unused")
      /\ \A t \in RefTok : tokState'[t] = "live" => tokState[t] = "live"
      /\ \A t \in RefTok \ rows : tokState'[t] = tokState[t]
  BY <1>1 DEF Named, Live
<1>4. \A e \in SesDevice : held'[e] # NoTok => held'[e] = held[e] /\ (out => e # d)
  BY <1>1
<1>5. held' \in [SesDevice -> RefTok \cup {NoTok}]
      /\ tokState' \in [RefTok -> {"unused", "live", "revoked"}]
  BY <1>1 DEF Typed
<1>6. \A e \in SesDevice : held[e] # NoTok /\ (out => e # d) => held'[e] = held[e]
  BY <1>1
<1>7. \A e \in SesDevice : held[e] = NoTok => held'[e] = NoTok
  BY <1>1
<1> HIDE DEF rows, d, out
<1>8. Typed'
  BY <1>1, <1>2, <1>5 DEF Typed
<1>9. Rooted' /\ OneLiveToken'
  BY <1>1, <1>3 DEF Rooted, Used, OneLiveToken, LiveTokens, Live, Typed
<1>10. Named'
  <2>1. \A r \in SesReq, t \in RefTok : t \in sreq'[r].rows => Used(t)' /\ family'[t] \in sreq'[r].fams
    BY <1>1, <1>2, <1>3 DEF Named, Used
  <2>2. \A e \in SesDevice : held'[e] # NoTok => tokState'[held'[e]] # "unused" /\ device'[held'[e]] = e
    BY <1>1, <1>3, <1>4, <1>5 DEF Named, Used
  <2> QED BY <1>1, <1>2, <1>3, <2>1, <2>2 DEF Named, Used
<1>11. Locks'
  <2>1. \A r \in SesReq : sreq'[r].kind = "refresh" /\ sreq'[r].step = "locked" =>
            tokState'[sreq'[r].tok] = "live"
    <3>1. ASSUME NEW r \in SesReq \ {q}, sreq[r].kind = "refresh", sreq[r].step = "locked"
          PROVE  sreq[r].tok \in RefTok \ rows
      BY <1>1, <3>1 DEF RowLocked, Named
    <3>2. ASSUME NEW r \in SesReq, sreq'[r].kind = "refresh", sreq'[r].step = "locked"
          PROVE  tokState'[sreq'[r].tok] = "live"
      <4>1. r # q /\ sreq'[r] = sreq[r]
        BY <1>2, <3>2
      <4>2. tokState[sreq[r].tok] = "live"
        BY <3>2, <4>1 DEF Locks, Live
      <4> QED BY <1>1, <3>1, <3>2, <4>1, <4>2 DEF rows
    <3> QED BY <3>2
  <2> QED BY <1>2, <2>1 DEF Locks, Live
<1>12. Waits'
  <2>1. \A e \in SesDevice : call[e] # NoSes => call[e] \in SesReq \ {q} /\ held'[e] = held[e]
    BY <1>1, <1>6 DEF Waits, Typed, Named
  <2>2. \A e \in SesDevice : call'[e] # NoSes =>
            sreq'[call'[e]].kind = "refresh" /\ sreq'[call'[e]].dev = e
            /\ held'[e] = sreq'[call'[e]].tok
    BY <1>1, <1>2, <2>1 DEF Waits
  <2>3. \A r \in SesReq : sreq'[r].kind = "login" =>
            held'[sreq'[r].dev] = NoTok /\ call'[sreq'[r].dev] = NoSes
    BY <1>1, <1>2, <1>7 DEF Waits, Named
  <2>4. \A r \in SesReq : sreq'[r].kind = "refresh" =>
            call'[sreq'[r].dev] = r \/ family'[sreq'[r].tok] \in unheard'
    BY <1>1, <1>2 DEF Waits
  <2> QED BY <1>2, <2>2, <2>3, <2>4 DEF Waits
<1>13. Held'
  <2>1. \A t \in RefTok : Cause(t) => Cause(t)'
    BY <1>1 DEF Cause
  <2>2. \A t \in RefTok : Sound(t) => Sound(t)'
    BY <1>1, <1>3 DEF Sound, Cause, Live
  <2>3. \A e \in SesDevice : held'[e] # NoTok /\ call'[e] = NoSes => Sound(held[e])
    BY <1>1, <1>4 DEF Held
  <2>4. \A e \in SesDevice : held'[e] # NoTok /\ call'[e] = NoSes =>
            tokState'[held'[e]] = "live" \/ family'[held'[e]] \in ended' \cup unheard'
    BY <1>4, <1>5, <2>2, <2>3 DEF Sound, Cause, Live
  <2>5. \A r \in SesReq : sreq'[r].kind = "refresh" =>
          CASE sreq[r].step = "stored" -> Sound(sreq[r].new)'
            [] sreq[r].step = "refused" -> Cause(sreq[r].tok)'
            [] OTHER -> Sound(sreq[r].tok)'
    BY <1>2, <2>1, <2>2 DEF Held, Named, Sound, Cause, Live
  <2> QED BY <1>2, <2>4, <2>5 DEF Held, Sound, Cause, Live
<1> QED BY <1>8, <1>9, <1>10, <1>11, <1>12, <1>13

\* A login ends the device's other sessions and begins one of its own.
LEMMA LoginKeeps ==
    ASSUME SInv, NEW q \in SesReq, NEW n \in RefTok, LoginCommits(q, n)
    PROVE  SInv'
<1> USE DEF SInv
<1> DEFINE rows == sreq[q].rows
           d == sreq[q].dev
<1>1. /\ sreq[q].kind = "login" /\ tokState[n] = "unused" /\ d \in SesDevice
      /\ held[d] = NoTok /\ call[d] = NoSes
      /\ \A t \in rows : ~RowLocked(t)
      /\ tokState' = [t \in RefTok |-> IF t = n THEN "live"
                                       ELSE IF t \in rows /\ Live(t) THEN "revoked" ELSE tokState[t]]
      /\ device' = [device EXCEPT ![n] = d] /\ family' = [family EXCEPT ![n] = n]
      /\ held' = [held EXCEPT ![d] = n]
      /\ ended' = ended \cup sreq[q].fams
      /\ sreq' = [sreq EXCEPT ![q] = NoSesReq]
      /\ UNCHANGED <<aged, call, unheard>>
  BY DEF LoginCommits, NextToken, Named, Waits
<1>2. /\ sreq' \in [SesReq -> Request]
      /\ sreq'[q].kind = "none" /\ sreq'[q].rows = {}
      /\ \A r \in SesReq \ {q} : sreq'[r] = sreq[r]
  BY <1>1, OverKeeps
<1>3. /\ tokState'[n] = "live" /\ family'[n] = n /\ device'[n] = d
      /\ \A t \in RefTok \ {n} : family'[t] = family[t] /\ device'[t] = device[t]
      /\ \A t \in RefTok \ {n} : tokState'[t] = tokState[t] \/ t \in rows
      /\ \A t \in RefTok \ {n} : tokState'[t] = "live" => tokState[t] = "live"
      /\ \A t \in RefTok \ {n} : (tokState'[t] # "unused") <=> (tokState[t] # "unused")
      /\ \A t \in RefTok : t \in rows => family[t] \in ended' /\ t # n
      /\ held'[d] = n /\ \A e \in SesDevice \ {d} : held'[e] = held[e]
  BY <1>1 DEF Typed, Named, Used, Live
<1>4. /\ held' \in [SesDevice -> RefTok \cup {NoTok}]
      /\ tokState' \in [RefTok -> {"unused", "live", "revoked"}]
      /\ family' \in [RefTok -> RefTok] /\ device' \in [RefTok -> SesDevice \cup {NoSes}]
  BY <1>1 DEF Typed
<1> HIDE DEF rows, d
<1>5. \A t \in RefTok : tokState[t] # "unused" =>
          t # n /\ tokState'[t] # "unused" /\ family'[t] = family[t] /\ device'[t] = device[t]
  BY <1>1, <1>3
<1>6. Typed'
  BY <1>1, <1>2, <1>4 DEF Typed
<1>7. Rooted'
  <2>1. ASSUME NEW t \in RefTok \ {n}, tokState'[t] # "unused"
        PROVE  tokState'[family'[t]] # "unused"
    <3>1. tokState[t] # "unused" /\ family'[t] = family[t] /\ family[t] \in RefTok
      BY <1>3, <2>1 DEF Typed
    <3>2. tokState[family[t]] # "unused"
      BY <3>1 DEF Rooted, Used
    <3> QED BY <1>5, <3>1, <3>2
  <2> QED BY <1>3, <2>1 DEF Rooted, Used
<1>8. OneLiveToken'
  <2>1. ASSUME NEW t \in RefTok \ {n}, tokState'[t] = "live"
        PROVE  family'[t] # n
    <3>1. tokState[t] = "live" /\ family'[t] = family[t]
      BY <1>3, <2>1
    <3>2. tokState[family[t]] # "unused"
      BY <3>1 DEF Rooted, Used
    <3> QED BY <1>1, <3>1, <3>2
  <2>2. ASSUME NEW u \in RefTok, NEW w \in RefTok, tokState'[u] = "live", tokState'[w] = "live",
               family'[u] = family'[w]
        PROVE  u = w
    BY <1>3, <2>1, <2>2 DEF OneLiveToken, LiveTokens, Live
  <2> QED BY <2>2 DEF OneLiveToken, LiveTokens, Live
<1>9. Named'
  <2>1. \A r \in SesReq, t \in RefTok : t \in sreq'[r].rows => Used(t)' /\ family'[t] \in sreq'[r].fams
    BY <1>2, <1>5 DEF Named, Used
  <2>2. \A e \in SesDevice : held'[e] # NoTok => tokState'[held'[e]] # "unused" /\ device'[held'[e]] = e
    <3>1. ASSUME NEW e \in SesDevice \ {d}, held[e] # NoTok
          PROVE  tokState'[held[e]] # "unused" /\ device'[held[e]] = e
      <4>1. held[e] \in RefTok
        BY <3>1 DEF Typed
      <4>2. tokState[held[e]] # "unused" /\ device[held[e]] = e
        BY <3>1 DEF Named, Used
      <4> QED BY <1>5, <4>1, <4>2
    <3>2. ASSUME NEW e \in SesDevice, held'[e] # NoTok
          PROVE  tokState'[held'[e]] # "unused" /\ device'[held'[e]] = e
      <4>1. CASE e = d
        BY <1>3, <4>1
      <4>2. CASE e # d
        <5>1. held'[e] = held[e]
          BY <1>3, <4>2
        <5> QED BY <3>1, <3>2, <4>2, <5>1
      <4> QED BY <4>1, <4>2
    <3> QED BY <3>2
  <2>3. ASSUME NEW r \in SesReq, sreq'[r].kind = "refresh"
        PROVE  /\ sreq'[r].tok \in RefTok /\ tokState'[sreq'[r].tok] # "unused"
               /\ sreq'[r].dev \in SesDevice /\ device'[sreq'[r].tok] = sreq'[r].dev
               /\ sreq'[r].step = "stored" =>
                     /\ sreq'[r].new \in RefTok /\ tokState'[sreq'[r].new] # "unused"
                     /\ device'[sreq'[r].new] = sreq'[r].dev
                     /\ family'[sreq'[r].new] = family'[sreq'[r].tok]
    <3>1. sreq'[r] = sreq[r] /\ sreq[r].kind = "refresh"
      BY <1>2, <2>3
    <3>2. /\ sreq[r].tok \in RefTok /\ tokState[sreq[r].tok] # "unused"
          /\ sreq[r].dev \in SesDevice /\ device[sreq[r].tok] = sreq[r].dev
          /\ sreq[r].step = "stored" =>
                /\ sreq[r].new \in RefTok /\ tokState[sreq[r].new] # "unused"
                /\ device[sreq[r].new] = sreq[r].dev
                /\ family[sreq[r].new] = family[sreq[r].tok]
      BY <3>1 DEF Named, Used
    <3> QED BY <1>5, <3>1, <3>2, ZenonT(60)
  <2> QED BY <1>2, <2>1, <2>2, <2>3 DEF Named, Used
<1>10. Locks'
  <2>1. \A r \in SesReq : sreq'[r].kind = "refresh" /\ sreq'[r].step = "locked" =>
            tokState'[sreq'[r].tok] = "live"
    <3>1. ASSUME NEW r \in SesReq \ {q}, sreq[r].kind = "refresh", sreq[r].step = "locked"
          PROVE  sreq[r].tok \in RefTok /\ sreq[r].tok \notin rows /\ sreq[r].tok # n
      BY <1>1, <3>1 DEF RowLocked, Named, Used
    <3>2. ASSUME NEW r \in SesReq, sreq'[r].kind = "refresh", sreq'[r].step = "locked"
          PROVE  tokState'[sreq'[r].tok] = "live"
      <4>1. r # q /\ sreq'[r] = sreq[r]
        BY <1>2, <3>2
      <4>2. tokState[sreq[r].tok] = "live"
        BY <3>2, <4>1 DEF Locks, Live
      <4> QED BY <1>1, <3>1, <3>2, <4>1, <4>2 DEF rows
    <3> QED BY <3>2
  <2> QED BY <1>2, <2>1 DEF Locks, Live
<1>11. Waits'
  <2>1. \A e \in SesDevice : call[e] # NoSes => call[e] \in SesReq \ {q} /\ held'[e] = held[e]
    BY <1>1, <1>3 DEF Waits, Typed
  <2>2. \A e \in SesDevice : call'[e] # NoSes =>
            sreq'[call'[e]].kind = "refresh" /\ sreq'[call'[e]].dev = e
            /\ held'[e] = sreq'[call'[e]].tok
    BY <1>1, <1>2, <2>1 DEF Waits
  <2>3. \A r \in SesReq \ {q} : sreq[r].kind = "login" => sreq[r].dev # d
    BY <1>1 DEF Waits, d
  <2>4. \A r \in SesReq : sreq'[r].kind = "login" =>
            held'[sreq'[r].dev] = NoTok /\ call'[sreq'[r].dev] = NoSes
    BY <1>1, <1>2, <1>3, <2>3 DEF Waits, Named
  <2>5. ASSUME NEW r \in SesReq, sreq'[r].kind = "refresh"
        PROVE  call'[sreq'[r].dev] = r \/ family'[sreq'[r].tok] \in unheard'
    BY <1>1, <1>2, <1>5, <2>5 DEF Waits, Named, Used
  <2> QED BY <1>2, <2>2, <2>4, <2>5 DEF Waits
<1>12. Held'
  <2>1. \A t \in RefTok : Used(t) /\ Cause(t) => Cause(t)'
    BY <1>1, <1>5 DEF Cause, Used
  <2>2. \A t \in RefTok : Used(t) /\ Sound(t) => Sound(t)'
    BY <1>1, <1>3, <1>5 DEF Sound, Cause, Live, Used
  <2>3. \A e \in SesDevice : held'[e] # NoTok /\ call'[e] = NoSes =>
            tokState'[held'[e]] = "live" \/ family'[held'[e]] \in ended' \cup unheard'
    BY <1>1, <1>3, <1>4, <2>2 DEF Held, Sound, Cause, Live, Named, Typed
  <2>4. ASSUME NEW r \in SesReq \ {q}, sreq[r].kind = "refresh"
        PROVE  CASE sreq[r].step = "stored" -> Sound(sreq[r].new)'
                 [] sreq[r].step = "refused" -> Cause(sreq[r].tok)'
                 [] OTHER -> Sound(sreq[r].tok)'
    <3>1. /\ sreq'[r] = sreq[r]
          /\ sreq[r].tok \in RefTok /\ Used(sreq[r].tok)
          /\ sreq[r].step = "stored" => sreq[r].new \in RefTok /\ Used(sreq[r].new)
      BY <1>2, <2>4 DEF Named
    <3> QED BY <2>1, <2>2, <2>4, <3>1 DEF Held, Sound, Cause, Live
  <2> QED BY <1>2, <2>3, <2>4 DEF Held, Sound, Cause, Live
<1> QED BY <1>6, <1>7, <1>8, <1>9, <1>10, <1>11, <1>12

LEMMA KickedKeeps ==
    ASSUME SInv, NEW d \in SesDevice, Kicked(d)
    PROVE  SInv'
<1> USE DEF SInv
<1>1. /\ call[d] = NoSes /\ held' = [held EXCEPT ![d] = NoTok]
      /\ UNCHANGED <<tokState, family, device, aged, call, sreq, ended, unheard>>
  BY DEF Kicked
<1>2. Typed' /\ Locks' /\ Named'
  BY <1>1 DEF Typed, Locks, Named, Used, Live
<1>3. Waits'
  BY <1>1 DEF Waits, Typed, Named
<1>4. Held'
  BY <1>1 DEF Held, Sound, Cause, Live, Typed
<1> QED BY <1>1, <1>2, <1>3, <1>4, TableKeeps

(***************************************************************************)
(* The theorems                                                            *)
(***************************************************************************)

LEMMA SInvInit == SessionsInit => SInv
<1> SUFFICES ASSUME SessionsInit PROVE SInv
  OBVIOUS
<1>1. /\ sreq \in [SesReq -> Request]
      /\ \A q \in SesReq : sreq[q].kind = "none" /\ sreq[q].rows = {}
  BY EmptyRequest DEF SessionsInit
<1>2. Typed /\ Rooted /\ OneLiveToken
  BY <1>1 DEF SessionsInit, Typed, Rooted, Used, OneLiveToken, LiveTokens, Live
<1>3. Named /\ Locks /\ Waits /\ Held
  BY <1>1 DEF SessionsInit, Named, Locks, Waits, Held, Used
<1> QED BY <1>2, <1>3 DEF SInv

LEMMA SInvNext == SInv /\ [SessionsNext]_sessionVars => SInv'
<1> SUFFICES ASSUME SInv, [SessionsNext]_sessionVars PROVE SInv'
  OBVIOUS
<1>0. /\ LiveTokens \in SUBSET RefTok /\ Families \in SUBSET RefTok
      /\ \A t \in LiveTokens : Used(t) /\ family[t] \in Families /\ family[t] \in RefTok
      /\ \A d \in SesDevice : held[d] # NoTok => held[d] \in RefTok /\ Used(held[d])
                                                 /\ family[held[d]] \in RefTok
  <2>1. family \in [RefTok -> RefTok] /\ held \in [SesDevice -> RefTok \cup {NoTok}]
    BY DEF SInv, Typed
  <2>2. LiveTokens \in SUBSET RefTok /\ Families \in SUBSET RefTok
    BY <2>1 DEF LiveTokens, Families
  <2>3. \A t \in LiveTokens : Used(t) /\ family[t] \in Families /\ family[t] \in RefTok
    BY <2>1 DEF LiveTokens, Families, Live, Used
  <2>4. \A d \in SesDevice : held[d] # NoTok => held[d] \in RefTok /\ Used(held[d])
                                                /\ family[held[d]] \in RefTok
    BY <2>1 DEF SInv, Named
  <2> QED BY <2>2, <2>3, <2>4
<1>1. ASSUME NEW d \in SesDevice, NEW q \in SesReq, RefreshCall(d, q) PROVE SInv'
  BY <1>1, CallKeeps
<1>2. ASSUME NEW q \in SesReq, RefreshLoad(q) \/ RefreshFails(q) PROVE SInv'
  BY <1>2, LoadKeeps
<1>3. ASSUME NEW q \in SesReq, NEW n \in RefTok, RefreshStore(q, n) PROVE SInv'
  BY <1>3, StoreKeeps
<1>4. ASSUME NEW q \in SesReq, RefreshHeard(q) PROVE SInv'
  BY <1>4, HeardKeeps
<1>5. ASSUME NEW d \in SesDevice, RefreshTimeout(d) PROVE SInv'
  BY <1>5, TimeoutKeeps
<1>6. ASSUME NEW d \in SesDevice, NEW q \in SesReq, LoginStarts(d, q) PROVE SInv'
  <2> DEFINE others == {t \in LiveTokens : device[t] = d}
             fams == {family[t] : t \in others}
  <2>1. others \in SUBSET RefTok /\ fams \in SUBSET RefTok
        /\ \A u \in others : Used(u) /\ family[u] \in fams
    BY <1>0
  <2>2. /\ Open(q, "login", d, NoTok, others, fams) /\ held[d] = NoTok /\ call[d] = NoSes
        /\ \A r \in SesReq : sreq[r].kind = "login" => sreq[r].dev # d
        /\ UNCHANGED <<tokState, family, device, aged, held, call, ended, unheard>>
    BY <1>6 DEF LoginStarts
  <2> HIDE DEF others, fams
  <2> QED BY <2>1, <2>2, EndingStarts
<1>7. ASSUME NEW d \in SesDevice, NEW q \in SesReq, LogoutStarts(d, q) PROVE SInv'
  <2> DEFINE rows == {held[d]}
             fams == {family[held[d]]}
  <2>1. /\ Open(q, "logout", d, held[d], rows, fams) /\ held[d] # NoTok
        /\ UNCHANGED <<tokState, family, device, aged, held, call, ended, unheard>>
    BY <1>7 DEF LogoutStarts
  <2>2. rows \in SUBSET RefTok /\ fams \in SUBSET RefTok /\ held[d] \in RefTok \cup {NoTok}
        /\ \A u \in rows : Used(u) /\ family[u] \in fams
    BY <1>0, <2>1
  <2> HIDE DEF rows, fams
  <2> QED BY <2>1, <2>2, EndingStarts
<1>8. ASSUME NEW d \in SesDevice, NEW q \in SesReq, NEW fams \in SUBSET Families,
             RevokeStarts(d, q, fams)
      PROVE  SInv'
  <2> DEFINE rows == {t \in LiveTokens : family[t] \in fams}
  <2>1. /\ Open(q, "revoke", d, held[d], rows, fams) /\ held[d] # NoTok
        /\ UNCHANGED <<tokState, family, device, aged, held, call, ended, unheard>>
    BY <1>8 DEF RevokeStarts
  <2>2. rows \in SUBSET RefTok /\ fams \in SUBSET RefTok /\ held[d] \in RefTok \cup {NoTok}
        /\ \A u \in rows : Used(u) /\ family[u] \in fams
    BY <1>0, <2>1
  <2> HIDE DEF rows
  <2> QED BY <2>1, <2>2, EndingStarts
<1>9. ASSUME NEW q \in SesReq, EndAllStarts(q) PROVE SInv'
  <2>1. /\ Open(q, "all", NoSes, NoTok, LiveTokens, Families)
        /\ UNCHANGED <<tokState, family, device, aged, held, call, ended, unheard>>
    BY <1>9 DEF EndAllStarts
  <2> QED BY <1>0, <2>1, EndingStarts
<1>10. ASSUME NEW q \in SesReq, EndsCommit(q) PROVE SInv'
  BY <1>10, EndsKeeps
<1>11. ASSUME NEW q \in SesReq, NEW n \in RefTok, LoginCommits(q, n) PROVE SInv'
  BY <1>11, LoginKeeps
<1>12. ASSUME NEW d \in SesDevice, Kicked(d) PROVE SInv'
  BY <1>12, KickedKeeps
<1>13. CASE WeekPasses \/ UNCHANGED sessionVars
  <2>1. UNCHANGED <<tokState, family, device, held, call, sreq, ended, unheard>>
    BY <1>13 DEF WeekPasses, sessionVars
  <2> QED BY <2>1 DEF SInv, Typed, Rooted, Named, Locks, OneLiveToken, LiveTokens, Live, Waits,
                      Held, Sound, Cause, Used
<1> QED BY <1>1, <1>2, <1>3, <1>4, <1>5, <1>6, <1>7, <1>8, <1>9, <1>10, <1>11, <1>12, <1>13
        DEF SessionsNext

\* The inductive invariant holds of every account, for any number of devices,
\* tokens and overlapping requests (services/auth.py, token_refresher.dart).
THEOREM SessionInvariant == SessionsSpec => []SInv
  BY SInvInit, SInvNext, PTL DEF SessionsSpec

\* A session has at most one refresh token alive: the row lock of refresh_tokens
\* lets one of several refreshes store the next token.
THEOREM SessionOneToken == SessionsSpec => []OneLiveToken
<1>1. SInv => OneLiveToken
  BY DEF SInv
<1> QED BY <1>1, SessionInvariant, PTL

\* A device is refused, and signed out, only when somebody ended its session or
\* when it did not hear the answer to an earlier refresh.
THEOREM SessionSignedOut == SessionsSpec => []SignedOutForCause
<1>1. SInv => SignedOutForCause
  BY DEF SInv, Held, Cause, SignedOutForCause
<1> QED BY <1>1, SessionInvariant, PTL
(***************************************************************************)
(* Accounts: what a purge ends                                             *)
(***************************************************************************)

AccRow == [st : {"none", "live", "deleted", "purged"}, mail : BOOLEAN, due : BOOLEAN,
           active : BOOLEAN, verified : BOOLEAN, ses : BOOLEAN]

AccKinds == Purpose \cup Counted \cup {"login"}

Asks == [status : {"none", "pending", "approved", "rejected"}, who : Account \cup {NoAcc},
         checked : BOOLEAN]

AccTypes ==
    /\ acct \in [Account -> AccRow]
    /\ DOMAIN accReq = AccReq
    /\ \A h \in AccReq : accReq[h] # NoAccReq => accReq[h].kind \in AccKinds /\ accReq[h].who \in Account
    /\ restoring \in Asks
    /\ restoring.status = "pending" => restoring.who \in Account

\* A tombstone has no address, and (when the purge waited) no session and no request
\* that could write to it.
TombstonesRest ==
    \A u \in Account : acct[u].st = "purged" =>
        /\ ~acct[u].mail
        /\ quiet => ~acct[u].ses /\ ~Busy(u)

AccInv == AccTypes /\ TombstonesRest

LEMMA AccInvInit == AccountsInit => AccInv
<1> SUFFICES ASSUME AccountsInit PROVE AccInv
  OBVIOUS
<1>1. AccTypes
  BY DEF AccountsInit, AccTypes, NoAccount, AccRow, NoAsk, Asks
<1>2. TombstonesRest
  BY DEF AccountsInit, TombstonesRest, NoAccount
<1> QED BY <1>1, <1>2 DEF AccInv

\* A step that writes one account, to a row that is no tombstone unless the purge may
\* overlap requests, and begins no request.
LEMMA OneRowKeeps ==
    ASSUME AccInv, NEW u \in Account, NEW a \in AccRow, a.st = "purged" => ~a.mail /\ ~quiet,
           acct' = [acct EXCEPT ![u] = a], quiet' = quiet,
           DOMAIN accReq' = AccReq,
           \A h \in AccReq : accReq'[h] # NoAccReq => accReq'[h] = accReq[h],
           restoring' \in Asks, restoring'.status = "pending" => restoring' = restoring
    PROVE  AccInv'
<1>1. /\ acct' \in [Account -> AccRow]
      /\ acct'[u] = a
      /\ \A v \in Account \ {u} : acct'[v] = acct[v]
  BY DEF AccInv, AccTypes
<1>2. AccTypes'
  BY <1>1 DEF AccInv, AccTypes
<1>3. ASSUME NEW v \in Account, v # u PROVE ~Busy(v) => ~Busy(v)'
  <2>1. NoAccReq.who \notin Account
    BY AccountsAssumption DEF NoAccReq
  <2> QED BY <2>1 DEF Busy
<1>4. ASSUME NEW v \in Account, acct'[v].st = "purged"
      PROVE  /\ ~acct'[v].mail
             /\ quiet' => ~acct'[v].ses /\ ~Busy(v)'
  <2>1. CASE v = u
    BY <1>1, <1>4, <2>1
  <2>2. CASE v # u
    BY <1>1, <1>3, <1>4, <2>2 DEF AccInv, TombstonesRest
  <2> QED BY <2>1, <2>2
<1> QED BY <1>2, <1>4 DEF AccInv, TombstonesRest

\* The requests keep the address of the row they write, and none makes a tombstone.
LEMMA WrittenRow ==
    ASSUME NEW r, r.kind \in AccKinds, NEW a \in AccRow
    PROVE  /\ Written(r, a) \in AccRow
           /\ Written(r, a).mail = a.mail
           /\ a.st # "purged" => Written(r, a).st # "purged"
<1> DEFINE on == IF r.active THEN FALSE ELSE a.active
<1>1. on \in BOOLEAN
  BY DEF AccRow
<1>2. r.kind = "delete" =>
         Written(r, a) = [a EXCEPT !.st = "deleted", !.due = FALSE, !.ses = FALSE, !.active = on]
  BY DEF Written
<1> HIDE DEF on
<1>3. CASE r.kind = "delete"
  BY <1>1, <1>2, <1>3 DEF AccRow
<1>4. CASE r.kind \in {"login", "verify", "reset", "restore", "ban", "unban"}
  BY <1>4 DEF Written, AccRow
<1> QED BY <1>3, <1>4 DEF AccKinds, Purpose, Counted

\* Every step keeps the invariant.
LEMMA AccInvStep == AccInv /\ [AccountsNext]_accVars => AccInv'
<1> SUFFICES ASSUME AccInv, [AccountsNext]_accVars PROVE AccInv'
  OBVIOUS
<1>1. ASSUME NEW u \in Account, Register(u) PROVE AccInv'
  <2>1. CASE acct' = acct
    BY <1>1, <2>1 DEF Register, AccInv, AccTypes, TombstonesRest, Busy
  <2>2. CASE acct' # acct
    <3> DEFINE a == [NoAccount EXCEPT !.st = "live", !.mail = TRUE, !.active = TRUE]
    <3>1. /\ acct' = [acct EXCEPT ![u] = a]
          /\ acct[u].st # "purged" /\ UNCHANGED <<accReq, restoring, quiet>>
      BY <1>1, <2>2 DEF Register, NoAccount
    <3>2. a \in AccRow /\ a.st # "purged"
      BY DEF NoAccount, AccRow
    <3> HIDE DEF a
    <3> QED BY <3>1, <3>2, OneRowKeeps DEF AccInv, AccTypes
  <2> QED BY <2>1, <2>2
<1>2. ASSUME NEW u \in Account, ResendVerification(u) \/ ForgotPassword(u) \/ LoginUnverified(u)
      PROVE  AccInv'
  <2>1. UNCHANGED <<acct, accReq, restoring, quiet>>
    BY <1>2 DEF ResendVerification, ForgotPassword, LoginUnverified
  <2> QED BY <2>1 DEF AccInv, AccTypes, TombstonesRest, Busy
<1>3. ASSUME NEW u \in Account, FallsDue(u) PROVE AccInv'
  <2>1. acct[u] \in AccRow
    BY DEF AccInv, AccTypes
  <2>2. [acct[u] EXCEPT !.due = TRUE] \in AccRow /\ [acct[u] EXCEPT !.due = TRUE].st # "purged"
    BY <1>3, <2>1 DEF FallsDue, AccRow
  <2>3. acct' = [acct EXCEPT ![u] = [acct[u] EXCEPT !.due = TRUE]]
    BY <1>3, <2>1 DEF FallsDue, AccInv, AccTypes
  <2> QED BY <1>3, <2>2, <2>3, OneRowKeeps DEF FallsDue, AccInv, AccTypes
<1>4. ASSUME NEW u \in Account, AskRestore(u) PROVE AccInv'
  <2>1. /\ restoring' = [status |-> "pending", who |-> u, checked |-> FALSE]
        /\ UNCHANGED <<acct, accReq, quiet>>
    BY <1>4 DEF AskRestore
  <2> QED BY <2>1 DEF AccInv, AccTypes, Asks, TombstonesRest, Busy
<1>5. ASSUME NEW p \in Purpose, CodeExpires(p) \/ Cools(p) PROVE AccInv'
  <2>1. UNCHANGED <<acct, accReq, restoring, quiet>>
    BY <1>5 DEF CodeExpires, Cools
  <2> QED BY <2>1 DEF AccInv, AccTypes, TombstonesRest, Busy
<1>6. ASSUME NEW h \in AccReq, NEW u \in Account, NEW kind \in AccKinds, Reads(h, kind, u)
      PROVE  AccInv'
  <2> DEFINE new == [kind |-> kind, who |-> u, active |-> acct[u].active,
                     code |-> IF kind \in Purpose THEN code[kind] ELSE 0]
  <2>1. /\ accReq' = [accReq EXCEPT ![h] = new]
        /\ UNCHANGED <<acct, restoring, quiet>>
        /\ new.kind = kind /\ new.who = u
    BY <1>6 DEF Reads
  <2> HIDE DEF new
  <2>2. acct[u].st # "purged"
    BY <1>6 DEF Reads, Admitted, Holder, AccKinds, Purpose, Counted, AccInv, TombstonesRest
  <2>3. \A g \in AccReq : accReq'[g] \in {accReq[g], new}
    BY <2>1
  <2>4. AccTypes'
    BY <2>1, <2>3 DEF AccInv, AccTypes
  <2>5. TombstonesRest'
    BY <2>1, <2>2, <2>3 DEF AccInv, TombstonesRest, Busy
  <2> QED BY <2>4, <2>5 DEF AccInv
<1>7. ASSUME NEW h \in AccReq, Writes(h) PROVE AccInv'
  <2> DEFINE r == accReq[h]
             u == r.who
             a == Written(r, acct[u])
  <2>1. r.kind \in AccKinds /\ u \in Account
    BY <1>7 DEF Writes, AccInv, AccTypes
  <2>2. /\ r # NoAccReq
        /\ acct' = [acct EXCEPT ![u] = a]
        /\ accReq' = [accReq EXCEPT ![h] = NoAccReq]
        /\ UNCHANGED <<restoring, quiet>>
    BY <1>7, <2>1 DEF Writes
  <2>3. /\ acct[u] \in AccRow
        /\ acct[u].st = "purged" => ~acct[u].mail /\ ~quiet
    BY <2>1, <2>2 DEF AccInv, AccTypes, TombstonesRest, Busy
  <2>4. /\ a \in AccRow /\ a.mail = acct[u].mail
        /\ acct[u].st # "purged" => a.st # "purged"
    BY <2>1, <2>3, WrittenRow
  <2>5. DOMAIN accReq' = AccReq /\ \A g \in AccReq : accReq'[g] # NoAccReq => accReq'[g] = accReq[g]
    BY <2>2 DEF AccInv, AccTypes
  <2>6. restoring' \in Asks /\ restoring' = restoring /\ quiet' = quiet
    BY <2>2 DEF AccInv, AccTypes
  <2> HIDE DEF a, u
  <2> QED BY <2>1, <2>2, <2>3, <2>4, <2>5, <2>6, OneRowKeeps
<1>8. ASSUME Purge PROVE AccInv'
  <2>1. /\ \A u \in Account : acct'[u] = IF u \in Expired THEN Tombstone(acct[u]) ELSE acct[u]
        /\ DOMAIN acct' = Account
        /\ quiet => \A u \in Expired : ~Busy(u)
        /\ UNCHANGED <<accReq, restoring, quiet>>
    BY <1>8 DEF Purge
  <2>2. ASSUME NEW u \in Account
        PROVE  /\ Tombstone(acct[u]) \in AccRow
               /\ ~Tombstone(acct[u]).mail /\ ~Tombstone(acct[u]).ses
    <3>1. acct[u] \in AccRow
      BY DEF AccInv, AccTypes
    <3> QED BY <3>1 DEF Tombstone, AccRow
  <2>3. AccTypes'
    <3>1. acct' \in [Account -> AccRow]
      BY <1>8, <2>2 DEF Purge, AccInv, AccTypes
    <3> QED BY <2>1, <3>1 DEF AccInv, AccTypes
  <2>4. TombstonesRest'
    BY <2>1, <2>2 DEF AccInv, TombstonesRest, Busy
  <2> QED BY <2>3, <2>4 DEF AccInv
<1>9. ASSUME Approve PROVE AccInv'
  <2> DEFINE u == restoring.who
             back == IF acct[u].st = "deleted"
                     THEN [acct[u] EXCEPT !.st = "live", !.active = TRUE] ELSE acct[u]
             a == [back EXCEPT !.ses = FALSE]
  <2>1. /\ u \in Account /\ acct[u] \in AccRow /\ acct[u].st # "purged"
        /\ UNCHANGED <<accReq, quiet>>
    BY <1>9 DEF Approve, AccInv, AccTypes
  <2>2. acct' = [acct EXCEPT ![u] = a]
    BY <1>9, <2>1 DEF Approve, AccInv, AccTypes
  <2>3. restoring' \in Asks /\ restoring'.status = "approved"
    BY <1>9 DEF Approve, AccInv, AccTypes, Asks
  <2>4. back \in AccRow /\ back.st # "purged"
    BY <2>1 DEF AccRow
  <2> HIDE DEF back
  <2>5. a \in AccRow /\ a.st # "purged"
    BY <2>4 DEF AccRow
  <2> HIDE DEF a
  <2> QED BY <2>1, <2>2, <2>3, <2>5, OneRowKeeps DEF AccInv, AccTypes
<1>10. ASSUME CheckIdentity \/ Reject PROVE AccInv'
  <2>1. /\ restoring.status = "pending" /\ restoring'.who = restoring.who
        /\ restoring' \in Asks
        /\ UNCHANGED <<acct, accReq, quiet>>
    BY <1>10 DEF CheckIdentity, Reject, AccInv, AccTypes, Asks
  <2> QED BY <2>1 DEF AccInv, AccTypes, TombstonesRest, Busy
<1>11. ASSUME ForgotUnknown \/ UNCHANGED accVars PROVE AccInv'
  <2>1. UNCHANGED <<acct, accReq, restoring, quiet>>
    BY <1>11 DEF ForgotUnknown, accVars
  <2> QED BY <2>1 DEF AccInv, AccTypes, TombstonesRest, Busy
<1> QED
  BY <1>1, <1>2, <1>3, <1>4, <1>5, <1>6, <1>7, <1>8, <1>9, <1>10, <1>11 DEF AccountsNext, AccKinds

\* No step of an account brings a purged one back, or leaves it a session or the
\* address, unless it was purged while a request on it was open (PurgedForGood).
THEOREM PurgeIsForGood == AccountsSpec => PurgedForGood
<1>1. AccountsSpec => []AccInv
  BY AccInvInit, AccInvStep, PTL DEF AccountsSpec
<1>2. ASSUME AccInv, AccInv', [AccountsNext]_accVars, NEW u \in Account, quiet
      PROVE  /\ (acct[u].st = "purged" => acct'[u].st = "purged")
             /\ (acct'[u].st = "purged" => ~acct'[u].ses /\ ~acct'[u].mail)
  <2>1. quiet'
    BY <1>2 DEF AccountsNext, accVars, Register, ResendVerification, ForgotPassword, LoginUnverified,
                FallsDue, AskRestore, CodeExpires, Cools, Reads, Writes, ForgotUnknown, Purge,
                CheckIdentity, Approve, Reject
  <2>2. ASSUME acct[u].st = "purged" PROVE acct'[u].st = "purged"
    <3>1. /\ u \notin Expired /\ ~Busy(u)
          /\ acct \in [Account -> AccRow]
      BY <1>2, <2>2 DEF Expired, AccInv, AccTypes, TombstonesRest
    <3>2. ASSUME NEW v \in Account, Register(v) \/ FallsDue(v) PROVE acct'[u] = acct[u]
      <4>1. v # u
        <5>1. Register(v) => acct[v] = NoAccount
          BY DEF Register
        <5>2. FallsDue(v) => acct[v].st = "deleted"
          BY DEF FallsDue
        <5>3. NoAccount.st = "none"
          BY DEF NoAccount
        <5> QED BY <2>2, <3>2, <5>1, <5>2, <5>3
      <4>2. \/ acct' = acct
            \/ \E a : acct' = [acct EXCEPT ![v] = a]
        <5>1. FallsDue(v) => acct' = [acct EXCEPT ![v] = [acct[v] EXCEPT !.due = TRUE]]
          BY <3>1 DEF FallsDue
        <5>2. Register(v) => \/ acct' = acct
                            \/ acct' = [acct EXCEPT ![v] = [NoAccount EXCEPT !.st = "live",
                                          !.mail = TRUE, !.active = TRUE]]
          BY DEF Register
        <5> QED BY <3>2, <5>1, <5>2
      <4> QED BY <3>1, <4>1, <4>2
    <3>3. \A h \in AccReq : Writes(h) => acct'[u] = acct[u]
      BY <3>1 DEF Writes, Busy
    <3>4. Purge \/ Approve => acct'[u] = acct[u]
      BY <1>2, <2>2, <3>1 DEF Purge, Approve
    <3>5. acct'[u] = acct[u]
      BY <1>2, <3>2, <3>3, <3>4
         DEF AccountsNext, accVars, ResendVerification, ForgotPassword, LoginUnverified, AskRestore,
             CodeExpires, Cools, Reads, ForgotUnknown, CheckIdentity, Reject
    <3> QED BY <2>2, <3>5
  <2>3. acct'[u].st = "purged" => ~acct'[u].ses /\ ~acct'[u].mail
    BY <1>2, <2>1 DEF AccInv, TombstonesRest
  <2> QED BY <2>2, <2>3
<1>3. AccInv /\ AccInv' /\ [AccountsNext]_accVars =>
        [\A u \in Account : quiet =>
            /\ (acct[u].st = "purged" => acct'[u].st = "purged")
            /\ (acct'[u].st = "purged" => ~acct'[u].ses /\ ~acct'[u].mail)]_accVars
  BY <1>2
<1> QED BY <1>1, <1>3, PTL DEF AccountsSpec, PurgedForGood

================================================================================
