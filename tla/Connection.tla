------------------------------- MODULE Connection -------------------------------
(***************************************************************************)
(* The WebSocket between the app and the backend.  In the app:             *)
(* SocketService (open, drop, reconnect), ConnectivityService and          *)
(* ConnectionStatusService.  In the backend: ws/endpoint.py, whose         *)
(* connections set, refresh and clear the user's presence key in Redis     *)
(* (ws/hub.py), a key that expires when nobody refreshes it.               *)
(***************************************************************************)
EXTENDS Naturals, FiniteSets

CONSTANTS Account,   \* accounts of the device
          Conn,      \* WebSocket connections
          MaxOther,  \* bound: connections of other devices at a time
          NoAcct, NoConn

ASSUME ConnectionAssumption == NoAcct \notin Account /\ NoConn \notin Conn

VARIABLES
    net,       \* the network works
    online,    \* ConnectivityService.online: what the last probes found
    acct,      \* the account signed in (SessionStore)
    tokenOk,   \* its access token has not expired
    chan,      \* _channel
    trying,    \* the account whose token the running _open shows (_connecting)
    timer,     \* _reconnectTimer is active
    closed,    \* _manuallyClosed
    other,     \* connections other devices hold open
    stage,     \* the backend's side: none, accepted or open
    user,      \* and whom it belongs to
    presence   \* accounts with a presence key

connVars == <<net, online, acct, tokenOk, chan, trying, timer, closed, other, stage, user, presence>>
phone == <<acct, tokenOk, chan, trying, timer, closed>>
backend == <<stage, user, presence>>

ConnectionInit ==
    /\ net = TRUE /\ online = TRUE
    /\ acct = NoAcct /\ tokenOk = TRUE
    /\ chan = NoConn /\ trying = NoAcct /\ timer = FALSE /\ closed = FALSE
    /\ other = {}
    /\ stage = [k \in Conn |-> "none"]
    /\ user = [k \in Conn |-> NoAcct]
    /\ presence = {}

\* Connections somebody still holds at the other end.
Held == other \cup ({chan} \ {NoConn})

Unused(k) == stage[k] = "none" /\ k \notin Held

(***************************************************************************)
(* The app                                                                 *)
(***************************************************************************)

\* _open for account a, with the reconnect timer stopped: nothing to do when a
\* channel is open or being opened, or nobody is signed in.
OpenSocket(a, channel) ==
    /\ timer' = FALSE
    /\ trying' = IF channel = NoConn /\ trying = NoAcct THEN a ELSE trying

\* connect(), after a login or when the app starts signed in.
SignIn(a) ==
    /\ acct = NoAcct
    /\ acct' = a /\ tokenOk' = TRUE /\ closed' = FALSE
    /\ OpenSocket(a, chan)
    /\ UNCHANGED <<net, online, chan, other, backend>>

\* The account switcher: activate, then disconnect(), then connect().
SwitchAccount(a) ==
    /\ acct \notin {NoAcct, a}
    /\ acct' = a /\ tokenOk' = TRUE /\ closed' = FALSE
    /\ chan' = NoConn
    /\ OpenSocket(a, NoConn)
    /\ UNCHANGED <<net, online, other, backend>>

\* disconnect() and the session cleared.
SignOut ==
    /\ acct # NoAcct
    /\ acct' = NoAcct /\ chan' = NoConn /\ timer' = FALSE /\ closed' = TRUE
    /\ UNCHANGED <<net, online, tokenOk, trying, other, backend>>

\* A refused refresh clears the session and leaves the socket as it is.
SessionCleared ==
    /\ acct # NoAcct
    /\ acct' = NoAcct
    /\ UNCHANGED <<net, online, tokenOk, chan, trying, timer, closed, other, backend>>

TokenExpires ==
    /\ acct # NoAcct /\ tokenOk
    /\ tokenOk' = FALSE
    /\ UNCHANGED <<net, online, acct, chan, trying, timer, closed, other, backend>>

\* Any API call refreshes an expired access token first.
ApiCallRefreshes ==
    /\ acct # NoAcct /\ ~tokenOk /\ net
    /\ tokenOk' = TRUE
    /\ UNCHANGED <<net, online, acct, chan, trying, timer, closed, other, backend>>

\* _scheduleReconnect: no timer while offline; _onBackOnline connects then.
Retry == timer' = (timer \/ (~closed /\ online))

\* channel.ready: the backend authenticated the token and accepted.  A socket
\* closed meanwhile is dropped again.
OpenSucceeds(k) ==
    /\ trying # NoAcct /\ net
    /\ trying = acct => tokenOk
    /\ Unused(k)
    /\ stage' = [stage EXCEPT ![k] = "accepted"]
    /\ user' = [user EXCEPT ![k] = trying]
    /\ chan' = IF closed THEN NoConn ELSE k
    /\ trying' = NoAcct
    /\ UNCHANGED <<net, online, acct, tokenOk, timer, closed, other, presence>>

OpenFails ==
    /\ trying # NoAcct
    /\ trying' = NoAcct
    /\ Retry
    /\ UNCHANGED <<net, online, acct, tokenOk, chan, closed, other, backend>>

\* The reconnect timer, and the app coming to the foreground.
TimerFires ==
    /\ timer
    /\ IF trying = NoAcct /\ ~closed THEN OpenSocket(acct, chan)
       ELSE timer' = FALSE /\ UNCHANGED trying
    /\ UNCHANGED <<net, online, acct, tokenOk, chan, closed, other, backend>>

Resumed ==
    /\ ~closed /\ chan = NoConn /\ trying = NoAcct /\ acct # NoAcct
    /\ OpenSocket(acct, chan)
    /\ UNCHANGED <<net, online, acct, tokenOk, chan, closed, other, backend>>

\* _onDrop: the network broke, the backend restarted, or a ping was not answered.
Drop ==
    /\ chan # NoConn
    /\ chan' = NoConn
    /\ Retry
    /\ UNCHANGED <<net, online, acct, tokenOk, trying, closed, other, backend>>

NetChanges ==
    /\ net' = ~net
    /\ UNCHANGED <<online, phone, other, backend>>

\* Two failed probes in a row; a probe that succeeds after them connects.
ProbeFails ==
    /\ ~net /\ online
    /\ online' = FALSE
    /\ UNCHANGED <<net, phone, other, backend>>

\* Mutated form: back online only updates the banner.
ProbeSucceedsQuietly ==
    /\ net /\ ~online
    /\ online' = TRUE
    /\ UNCHANGED <<net, phone, other, backend>>

ProbeSucceeds ==
    /\ net /\ ~online
    /\ online' = TRUE
    /\ IF chan = NoConn
       THEN closed' = FALSE /\ OpenSocket(acct, chan)
       ELSE UNCHANGED <<closed, trying, timer>>
    /\ UNCHANGED <<net, acct, tokenOk, chan, other, backend>>

(***************************************************************************)
(* The backend and the other devices                                       *)
(***************************************************************************)

\* The bound leaves a connection to the phone.
OtherConnects(a, k) ==
    /\ Cardinality(other) < MaxOther
    /\ Unused(k) /\ \E j \in Conn \ {k} : Unused(j)
    /\ stage' = [stage EXCEPT ![k] = "accepted"]
    /\ user' = [user EXCEPT ![k] = a]
    /\ other' = other \cup {k}
    /\ UNCHANGED <<net, online, phone, presence>>

OtherLeaves(k) ==
    /\ k \in other
    /\ other' = other \ {k}
    /\ UNCHANGED <<net, online, phone, backend>>

SetOnline(k) ==
    /\ stage[k] = "accepted"
    /\ stage' = [stage EXCEPT ![k] = "open"]
    /\ presence' = presence \cup {user[k]}
    /\ UNCHANGED <<net, online, phone, other, user>>

\* Mutated form: a ping is answered and nothing more.
PingOnly(k) ==
    /\ stage[k] = "open" /\ k \in Held
    /\ user[k] \notin presence
    /\ UNCHANGED connVars

\* refresh_presence: each client sends a ping every 25 seconds.
Ping(k) ==
    /\ stage[k] = "open" /\ k \in Held
    /\ presence' = presence \cup {user[k]}
    /\ UNCHANGED <<net, online, phone, other, stage, user>>

\* The other end is gone: the finally block clears the key of the user.
SetOffline(k) ==
    /\ stage[k] = "open" /\ k \notin Held
    /\ stage' = [stage EXCEPT ![k] = "none"]
    /\ presence' = presence \ {user[k]}
    /\ UNCHANGED <<net, online, phone, other, user>>

\* The backend restarts: every connection breaks, the keys stay.
Restart ==
    /\ \E k \in Conn : stage[k] # "none"
    /\ stage' = [k \in Conn |-> "none"]
    /\ other' = {}
    /\ IF chan = NoConn THEN UNCHANGED <<chan, timer>> ELSE chan' = NoConn /\ Retry
    /\ UNCHANGED <<net, online, acct, tokenOk, trying, closed, user, presence>>

\* PRESENCE_TTL_SECONDS without a ping.
KeyExpires(a) ==
    /\ a \in presence
    /\ ~\E k \in Held : user[k] = a
    /\ presence' = presence \ {a}
    /\ UNCHANGED <<net, online, phone, other, stage, user>>

ConnectionNext ==
    \/ \E a \in Account : SignIn(a)
    \/ \E a \in Account : SwitchAccount(a)
    \/ SignOut \/ SessionCleared \/ TokenExpires \/ ApiCallRefreshes
    \/ \E k \in Conn : OpenSucceeds(k)
    \/ OpenFails \/ TimerFires \/ Resumed \/ Drop \/ NetChanges \/ ProbeFails \/ ProbeSucceeds
    \/ \E a \in Account, k \in Conn : OtherConnects(a, k)
    \/ \E k \in Conn : OtherLeaves(k)
    \/ \E k \in Conn : SetOnline(k)
    \/ \E k \in Conn : Ping(k)
    \/ \E k \in Conn : SetOffline(k)
    \/ Restart
    \/ \E a \in Account : KeyExpires(a)

\* Timers and probes run; an attempt is over within its timeout, and one made
\* again and again while the network works succeeds in the end.
ConnectionFairness ==
    /\ WF_connVars(TimerFires) /\ WF_connVars(OpenFails \/ \E k \in Conn : OpenSucceeds(k))
    /\ WF_connVars(ProbeSucceeds) /\ WF_connVars(ApiCallRefreshes)
    /\ SF_connVars(\E k \in Conn : OpenSucceeds(k))
    /\ \A k \in Conn : WF_connVars(SetOnline(k)) /\ WF_connVars(Ping(k)) /\ WF_connVars(SetOffline(k))
    /\ \A a \in Account : WF_connVars(KeyExpires(a))

ConnectionSpec == ConnectionInit /\ [][ConnectionNext]_connVars /\ ConnectionFairness

(***************************************************************************)
(* Properties                                                              *)
(***************************************************************************)

ConnectionTypeOK ==
    /\ net \in BOOLEAN /\ online \in BOOLEAN /\ tokenOk \in BOOLEAN
    /\ timer \in BOOLEAN /\ closed \in BOOLEAN
    /\ acct \in Account \cup {NoAcct} /\ trying \in Account \cup {NoAcct}
    /\ chan \in Conn \cup {NoConn}
    /\ other \subseteq Conn
    /\ stage \in [Conn -> {"none", "accepted", "open"}]
    /\ user \in [Conn -> Account \cup {NoAcct}]
    /\ presence \subseteq Account

\* The socket comes back: signed in, with the network up and an access token
\* that lasts, the app is connected again in the end.
Reconnects ==
    (acct # NoAcct /\ net /\ tokenOk)
    ~> (chan # NoConn \/ acct = NoAcct \/ ~net \/ ~tokenOk)

\* Presence follows the connections.  Another connection of the user that closes, or
\* an earlier one closing late, clears the presence key, and one that stays open sets
\* it again; a user without a connection is shown offline in the end, also when the
\* backend went away before it could clear the key.
PresenceFollows ==
    /\ \A k \in Conn : (stage[k] = "open" /\ k \in Held)
                      ~> (user[k] \in presence \/ k \notin Held)
    /\ \A a \in Account : (~\E k \in Held : user[k] = a)
                         ~> (a \notin presence \/ \E k \in Held : user[k] = a)
================================================================================
