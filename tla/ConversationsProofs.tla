-------------------------- MODULE ConversationsProofs --------------------------
(***************************************************************************)
(* Theorems of Groups and of Inbox.  For any number of users and of        *)
(* requests open at the same time a group keeps its types, and users who   *)
(* wait for an answer before their next request never give it a second     *)
(* owner; for any number of chats, messages and loads the list of          *)
(* conversations comes to agree with the backend.                          *)
(***************************************************************************)
EXTENDS Groups, Inbox, Integers, TLAPS

Request == [op : {"none", "add", "remove", "transfer", "promote", "demote", "delete"},
            by : GroupUser \cup {NoMember}, on : GroupUser \cup {NoMember},
            creator : GroupUser \cup {NoMember}, was : Role \cup {"none"}, stale : BOOLEAN]

(***************************************************************************)
(* The inductive invariant                                                 *)
(***************************************************************************)

\* The group, and the open requests: each is a user's, on a user.
Typed ==
    /\ role \in [GroupUser -> Role \cup {"none"}]
    /\ creator \in GroupUser
    /\ groupOpen \in BOOLEAN /\ inviteOn \in BOOLEAN /\ super \in BOOLEAN
    /\ gReq \in [GroupReq -> Request]
    /\ \A q \in GroupReq : gReq[q].op # "none" => gReq[q].by \in GroupUser /\ gReq[q].on \in GroupUser

\* Each user has at most one request open.
Serial ==
    \A q, r \in GroupReq : gReq[q].op # "none" /\ gReq[q].by = gReq[r].by => q = r

\* A transfer under way was asked for by the creator of the group, who is still
\* its creator: another transfer would be the same user's.
TransfersHold ==
    \A q \in GroupReq :
        gReq[q].op = "transfer" =>
            /\ gReq[q].creator = gReq[q].by /\ gReq[q].on # gReq[q].by
            /\ ~gReq[q].stale => creator = gReq[q].by

OnlyCreator == \A u \in GroupUser : role[u] = "owner" => u = creator

Owners == oneByOne => Serial /\ TransfersHold /\ OnlyCreator

GInv == Typed /\ Owners

(***************************************************************************)
(* Types                                                                   *)
(***************************************************************************)

\* A request that is over is NoGroupReq; the others differ only in being stale.
LEMMA DoneKeeps ==
    ASSUME Typed, NEW q \in GroupReq, NEW S \in SUBSET GroupUser, GroupDone(q, S)
    PROVE  /\ gReq' \in [GroupReq -> Request]
           /\ gReq'[q].op = "none" /\ gReq'[q].by = NoMember
           /\ \A r \in GroupReq \ {q} :
                 /\ gReq'[r].op = gReq[r].op /\ gReq'[r].by = gReq[r].by
                 /\ gReq'[r].on = gReq[r].on /\ gReq'[r].creator = gReq[r].creator
                 /\ ~gReq'[r].stale => ~gReq[r].stale
           /\ \A r \in GroupReq :
                 gReq'[r].op # "none" => gReq'[r].by \in GroupUser /\ gReq'[r].on \in GroupUser
<1>1. NoGroupReq \in Request
  BY DEF NoGroupReq, Request
<1>2. ASSUME NEW r \in GroupReq
      PROVE  LET late == gReq[r].stale \/ (gReq[r].on \in S /\ gReq[r].was # "none")
                             \/ (gReq[r].op = "transfer" /\ gReq[r].by \in S)
             IN  [gReq[r] EXCEPT !.stale = late] \in Request
  BY ZenonT(60) DEF Typed, Request
<1>3. gReq' \in [GroupReq -> Request]
  BY <1>1, <1>2 DEF GroupDone
<1>4. gReq'[q].op = "none" /\ gReq'[q].by = NoMember
  BY DEF GroupDone, NoGroupReq
<1>5. \A r \in GroupReq \ {q} :
          /\ gReq'[r].op = gReq[r].op /\ gReq'[r].by = gReq[r].by
          /\ gReq'[r].on = gReq[r].on /\ gReq'[r].creator = gReq[r].creator
          /\ ~gReq'[r].stale => ~gReq[r].stale
  BY DEF GroupDone, Typed, Request
<1> QED BY <1>3, <1>4, <1>5 DEF Typed

\* A request that is loaded is well typed, and the others are what they were.
LEMMA LoadKeeps ==
    ASSUME GInv, NEW q \in GroupReq, NEW u \in GroupUser, NEW v \in GroupUser,
           NEW op \in {"add", "remove", "transfer", "promote", "demote", "delete"},
           GroupLoad(q, op, u, v), op = "transfer" => role[u] = "owner" /\ u # v
    PROVE  GInv'
<1> DEFINE new == [op |-> op, by |-> u, on |-> v, creator |-> creator, was |-> role[v],
                   stale |-> FALSE]
<1>1. /\ new \in Request
      /\ gReq' = [gReq EXCEPT ![q] = new]
      /\ UNCHANGED <<role, creator, groupOpen, inviteOn, super, oneByOne>>
  BY DEF GroupLoad, GInv, Typed, Request
<1>2. /\ gReq'[q].op = op /\ gReq'[q].by = u /\ gReq'[q].on = v /\ gReq'[q].creator = creator
      /\ \A r \in GroupReq \ {q} : gReq'[r] = gReq[r]
  BY <1>1 DEF GInv, Typed
<1> HIDE DEF new
<1>3. Typed'
  BY <1>1, <1>2 DEF GInv, Typed
<1>4. ASSUME oneByOne PROVE Serial' /\ TransfersHold' /\ OnlyCreator'
  <2>1. \A r \in GroupReq : gReq[r].by # u
    BY <1>4 DEF GroupLoad
  <2>2. Serial'
    BY <1>2, <1>4, <2>1 DEF GInv, Owners, Serial
  <2>3. OnlyCreator'
    BY <1>1, <1>4 DEF GInv, Owners, OnlyCreator
  <2>4. TransfersHold'
    BY <1>1, <1>2, <1>4 DEF GInv, Owners, OnlyCreator, TransfersHold
  <2> QED BY <2>2, <2>3, <2>4
<1> QED BY <1>1, <1>3, <1>4 DEF GInv, Owners

(***************************************************************************)
(* Ends of requests                                                        *)
(***************************************************************************)

\* A request that ends without handing the group over makes nobody an owner.
LEMMA EndKeeps ==
    ASSUME GInv, NEW q \in GroupReq, NEW S \in SUBSET GroupUser, GroupDone(q, S),
           role' \in [GroupUser -> Role \cup {"none"}],
           \A u \in GroupUser : role'[u] = "owner" => role[u] = "owner",
           groupOpen' \in BOOLEAN, UNCHANGED <<creator, inviteOn, super, oneByOne>>
    PROVE  GInv'
<1>1. Typed'
  BY DoneKeeps DEF GInv, Typed
<1>2. ASSUME oneByOne PROVE Serial' /\ TransfersHold' /\ OnlyCreator'
  <2>1. Serial'
    BY <1>2, DoneKeeps, GroupAssumption DEF GInv, Typed, Owners, Serial
  <2>2. TransfersHold'
    BY <1>2, DoneKeeps DEF GInv, Typed, Owners, TransfersHold
  <2>3. OnlyCreator'
    BY <1>2 DEF GInv, Typed, Owners, OnlyCreator
  <2> QED BY <2>1, <2>2, <2>3
<1> QED BY <1>1, <1>2 DEF GInv, Owners

\* The old owner stops being one in the transaction that makes the new one.
LEMMA TransferKeeps ==
    ASSUME GInv, NEW q \in GroupReq, Transfer(q)
    PROVE  GInv'
<1> DEFINE by == gReq[q].by
           on == gReq[q].on
<1>1. /\ gReq[q].op = "transfer" /\ ~gReq[q].stale
      /\ role' = [role EXCEPT ![by] = "admin",
                              ![on] = IF gReq[q].was = "owner" THEN @ ELSE "owner"]
      /\ creator' = IF gReq[q].creator = on THEN creator ELSE on
      /\ GroupDone(q, {}) /\ UNCHANGED <<groupOpen, inviteOn, super, oneByOne>>
  BY DEF Transfer
<1>2. by \in GroupUser /\ on \in GroupUser
  BY <1>1 DEF GInv, Typed
<1>3. role' \in [GroupUser -> Role \cup {"none"}] /\ creator' \in GroupUser
  BY <1>1, <1>2 DEF GInv, Typed, Role
<1>4. Typed'
  BY <1>1, <1>3, DoneKeeps DEF GInv, Typed
<1>5. ASSUME oneByOne PROVE Serial' /\ TransfersHold' /\ OnlyCreator'
  <2>1. Serial /\ TransfersHold /\ OnlyCreator
    BY <1>5 DEF GInv, Owners
  <2>2. creator = by /\ gReq[q].creator = by /\ on # by
    BY <1>1, <2>1 DEF TransfersHold
  <2>3. creator' = on
    BY <1>1, <2>2
  <2>4. Serial'
    BY <1>1, <2>1, DoneKeeps, GroupAssumption DEF GInv, Typed, Serial
  <2>5. OnlyCreator'
    BY <1>1, <1>2, <2>1, <2>2, <2>3 DEF GInv, Typed, OnlyCreator
  <2>6. ASSUME NEW r \in GroupReq, gReq'[r].op = "transfer"
        PROVE  gReq[r].stale /\ gReq'[r].stale /\ r # q
    <3>1. r # q /\ gReq[r].op = "transfer" /\ gReq[r].by # by
      BY <1>1, <2>1, <2>6, DoneKeeps DEF GInv, Serial
    <3>2. gReq[r].stale
      BY <2>1, <2>2, <3>1 DEF TransfersHold
    <3> QED BY <1>1, <3>1, <3>2, DoneKeeps DEF GInv, Typed
  <2>7. TransfersHold'
    BY <1>1, <2>1, <2>6, DoneKeeps DEF GInv, TransfersHold
  <2> QED BY <2>4, <2>5, <2>7
<1> QED BY <1>1, <1>4, <1>5 DEF GInv, Owners

(***************************************************************************)
(* The theorems                                                            *)
(***************************************************************************)

LEMMA GInvInit == GroupInit => GInv
<1> SUFFICES ASSUME GroupInit PROVE GInv
  OBVIOUS
<1>1. PICK u \in GroupUser, others \in SUBSET GroupUser :
          /\ u \notin others /\ creator = u
          /\ role = [v \in GroupUser |-> IF v = u THEN "owner"
                                         ELSE IF v \in others THEN "member" ELSE "none"]
  BY DEF GroupInit
<1>2. gReq \in [GroupReq -> Request] /\ \A q \in GroupReq : gReq[q].op = "none"
  BY DEF GroupInit, NoGroupReq, Request
<1> QED BY <1>1, <1>2 DEF GroupInit, GInv, Typed, Role, Owners, Serial, TransfersHold, OnlyCreator

LEMMA GInvNext == GInv /\ [GroupNext]_groupVars => GInv'
<1> SUFFICES ASSUME GInv, [GroupNext]_groupVars PROVE GInv'
  OBVIOUS
<1>1. ASSUME NEW q \in GroupReq, NEW u \in GroupUser, NEW v \in GroupUser,
             \/ AddLoad(q, u, v) \/ JoinLoad(q, u) \/ RemoveLoad(q, u, v) \/ LeaveLoad(q, u)
             \/ TransferLoad(q, u, v) \/ PromoteLoad(q, u, v) \/ DemoteLoad(q, u, v)
             \/ DeleteLoad(q, u)
      PROVE  GInv'
  BY <1>1, LoadKeeps DEF AddLoad, JoinLoad, RemoveLoad, LeaveLoad, TransferLoad, PromoteLoad,
                         DemoteLoad, DeleteLoad
<1>2. ASSUME NEW q \in GroupReq, GroupFails(q) PROVE GInv'
  BY <1>2, EndKeeps DEF GroupFails, GInv, Typed
<1>3. ASSUME NEW q \in GroupReq, AddMember(q) PROVE GInv'
  <2>1. role' \in [GroupUser -> Role \cup {"none"}]
        /\ \A u \in GroupUser : role'[u] = "owner" => role[u] = "owner"
    BY <1>3 DEF AddMember, GInv, Typed, Role
  <2> QED BY <1>3, <2>1, EndKeeps DEF AddMember, GInv, Typed
<1>4. ASSUME NEW q \in GroupReq, RemoveMember(q) PROVE GInv'
  <2>1. gReq[q].on \in GroupUser
    BY <1>4 DEF RemoveMember, GInv, Typed
  <2>2. role' \in [GroupUser -> Role \cup {"none"}]
        /\ \A u \in GroupUser : role'[u] = "owner" => role[u] = "owner"
    BY <1>4 DEF RemoveMember, GInv, Typed
  <2>3. CASE gReq[q].stale
    BY <1>4, <2>2, <2>3, EndKeeps DEF RemoveMember, GInv, Typed
  <2>4. CASE ~gReq[q].stale
    BY <1>4, <2>1, <2>2, <2>4, EndKeeps DEF RemoveMember, GInv, Typed
  <2> QED BY <2>3, <2>4
<1>5. ASSUME NEW q \in GroupReq, Transfer(q) PROVE GInv'
  BY <1>5, TransferKeeps
<1>6. ASSUME NEW q \in GroupReq, SetRole(q) PROVE GInv'
  <2>1. role' \in [GroupUser -> Role \cup {"none"}]
        /\ \A u \in GroupUser : role'[u] = "owner" => role[u] = "owner"
    BY <1>6 DEF SetRole, GInv, Typed, Role
  <2> QED BY <1>6, <2>1, EndKeeps DEF SetRole, GInv, Typed
<1>7. ASSUME NEW q \in GroupReq, DeleteGroup(q) PROVE GInv'
  BY <1>7, EndKeeps DEF DeleteGroup, GInv, Typed, Role
<1>8. ASSUME NEW u \in GroupUser, NEW on \in BOOLEAN, SetInvite(u, on) PROVE GInv'
  BY <1>8 DEF SetInvite, GInv, Typed, Owners, Serial, TransfersHold, OnlyCreator
<1>9. CASE MarkSuper
  BY <1>9 DEF MarkSuper, GInv, Typed, Owners, Serial, TransfersHold, OnlyCreator
<1>10. CASE UNCHANGED groupVars
  BY <1>10 DEF groupVars, GInv, Typed, Owners, Serial, TransfersHold, OnlyCreator
<1> QED BY <1>1, <1>2, <1>3, <1>4, <1>5, <1>6, <1>7, <1>8, <1>9, <1>10 DEF GroupNext

\* The inductive invariant holds of every group, for any number of users and of
\* overlapping requests (services/group_admin.py).
THEOREM GroupInvariant == GroupSpec => []GInv
  BY GInvInit, GInvNext, PTL DEF GroupSpec

\* The roles, the creator and the open requests keep their types.
THEOREM GroupTypeCorrect == GroupSpec => []GroupTypeOK
<1>1. GInv => GroupTypeOK
  BY DEF GInv, Typed, GroupTypeOK, Request
<1> QED BY <1>1, GroupInvariant, PTL

\* When each user waits for an answer before the next request, a group never has
\* a second owner, and created_by names the one it has: transfer_ownership is the
\* only request that makes an owner, and two of them are two requests of one user.
THEOREM GroupOneOwner == GroupSpec => []OneOwner
<1>1. GInv => OneOwner
  BY DEF GInv, Owners, OnlyCreator, OneOwner
<1> QED BY <1>1, GroupInvariant, PTL

(***************************************************************************)
(* Inbox: the list and what is on its way to it.                           *)
(***************************************************************************)

InboxSnap == [chats : SUBSET InboxChat, unread : [InboxChat -> Nat]]
InboxLoad == [n : Nat, filter : InboxFilter, stage : {"connect", "asked", "served"},
              snap : InboxSnap, clean : BOOLEAN]
ChatEvent == [chat : InboxChat, n : Nat]

InboxTypes ==
    /\ sentTo \in [InboxChat -> Nat] /\ readTo \in [InboxChat -> Nat] /\ badge \in [InboxChat -> Nat]
    /\ hidden \subseteq InboxChat /\ listed \subseteq InboxChat
    /\ onWire \in Seq(ChatEvent)
    /\ cached \in InboxSnap
    /\ filter \in InboxFilter /\ loadSeq \in Nat \ {0}
    /\ active \in InboxChat \cup {NoInboxChat}
    /\ loads \subseteq InboxLoad
    /\ reading \subseteq ChatEvent
    /\ hiding \subseteq [chat : InboxChat, served : BOOLEAN]
    /\ loading \in BOOLEAN /\ agrees \in BOOLEAN /\ leftOver \in BOOLEAN

OnWire(c, k) == \E i \in DOMAIN onWire : onWire[i].chat = c /\ onWire[i].n = k

\* Events come in the order of their messages; nothing is read before it is sent.
WireInOrder ==
    /\ \A i \in DOMAIN onWire : onWire[i].n <= sentTo[onWire[i].chat]
    /\ \A i, j \in DOMAIN onWire :
          i < j /\ onWire[i].chat = onWire[j].chat => onWire[i].n < onWire[j].n
    /\ \A r \in reading : r.n <= sentTo[r.chat]
    /\ \A c \in InboxChat : readTo[c] <= sentTo[c]

\* The newest load is of the filter of now; an answer is of its filter, and what the
\* backend would answer now, with no event on its way, if nothing overtook it.
LoadsKnown ==
    \A l \in loads :
        /\ l.n <= loadSeq
        /\ l.n = loadSeq => l.filter = filter
        /\ l.stage = "served" =>
              /\ l.filter \in {"chats", "groups"} => \A c \in l.snap.chats : Matches(l.filter, c, 1)
              /\ l.clean => l.snap = ListChats(l.filter) /\ onWire = <<>>

\* One chat is hidden at a time.
HidesServed ==
    /\ \A h \in hiding : h.served => h.chat \in hidden
    /\ \A g, h \in hiding : g = h

\* No load on its way will replace the list.
Settled == \A l \in loads : l.n # 0 /\ l.n # loadSeq

\* A badge counts what was sent and not read, but for the events on their way.
InStep(c) ==
    /\ Matches(filter, c, Unread(c))
    /\ badge[c] + readTo[c] <= sentTo[c]
    /\ \A k \in Nat : OnWire(c, k) <=> badge[c] + readTo[c] < k /\ k <= sentTo[c]

Shown ==
    agrees /\ ~leftOver /\ Settled =>
        /\ \A c \in InboxChat : c \in listed /\ c \notin hidden /\ c # active => InStep(c)
        /\ \A c \in InboxChat : c \notin listed /\ c \notin hidden /\ c # active =>
              (Matches(filter, c, Unread(c)) => \E k \in Nat : OnWire(c, k))
        /\ \A c \in InboxChat : c \in listed /\ c \in hidden =>
              \E h \in hiding : h.served /\ h.chat = c

OfFilter ==
    (\A l \in loads : l.n # loadSeq) /\ filter \in {"chats", "groups"} /\ ~leftOver =>
        \A c \in listed : Matches(filter, c, 1)

Spins == loading => \E l \in loads : l.n = loadSeq

InboxInv ==
    /\ InboxTypes /\ WireInOrder /\ LoadsKnown /\ HidesServed /\ Shown /\ OfFilter /\ Spins

\* Only the filter "unread" looks at what is unread.
LEMMA MatchesUnread ==
    ASSUME NEW f, NEW c, NEW u \in Int, NEW v \in Int
    PROVE  /\ f # "unread" => Matches(f, c, u) = Matches(f, c, v)
           /\ f = "unread" => (Matches(f, c, u) <=> u > 0)
<1> QED BY DEF Matches

LEMMA UnreadInt ==
    ASSUME InboxTypes, NEW c \in InboxChat
    PROVE  Unread(c) \in Int
<1> QED BY DEF InboxTypes, Unread

LEMMA ListChatsSnap ==
    ASSUME InboxTypes, WireInOrder, NEW f
    PROVE  /\ ListChats(f) \in InboxSnap
           /\ \A c \in InboxChat : /\ c \in ListChats(f).chats <=>
                                         c \notin hidden /\ Matches(f, c, Unread(c))
                                   /\ c \notin hidden => ListChats(f).unread[c] = Unread(c)
<1>1. ASSUME NEW c \in InboxChat
      PROVE  Unread(c) \in Nat
  BY DEF InboxTypes, WireInOrder, Unread
<1> QED BY <1>1 DEF ListChats, InboxSnap

LEMMA NewLoadTyped ==
    ASSUME NEW n \in Nat, NEW f \in InboxFilter, NEW s \in {"connect", "asked"}
    PROVE  /\ NewLoad(n, f, s) \in InboxLoad
           /\ NewLoad(n, f, s).n = n /\ NewLoad(n, f, s).filter = f /\ NewLoad(n, f, s).stage = s
<1>1. NoSnap \in InboxSnap
  BY DEF NoSnap, InboxSnap
<1> QED BY <1>1 DEF NewLoad, InboxLoad

LEMMA SpoiledLoads ==
    ASSUME InboxTypes
    PROVE  /\ Spoiled \subseteq InboxLoad
           /\ \A k \in Spoiled : \E l \in loads :
                 /\ k.n = l.n /\ k.filter = l.filter /\ k.stage = l.stage /\ k.snap = l.snap
                 /\ k.stage = "served" => ~k.clean
           /\ \A l \in loads : \E k \in Spoiled : k.n = l.n
<1>1. ASSUME NEW l \in InboxLoad, NEW b \in BOOLEAN
      PROVE  LET k == [l EXCEPT !.clean = b] IN
             /\ k \in InboxLoad
             /\ k.n = l.n /\ k.filter = l.filter /\ k.stage = l.stage /\ k.snap = l.snap /\ k.clean = b
  BY DEF InboxLoad
<1>2. ASSUME NEW l \in loads
      PROVE  l \in InboxLoad /\ (l.stage # "served") \in BOOLEAN
  BY DEF InboxTypes
<1>3. ASSUME NEW l \in loads
      PROVE  LET k == [l EXCEPT !.clean = l.stage # "served"] IN
             /\ k \in InboxLoad
             /\ k.n = l.n /\ k.filter = l.filter /\ k.stage = l.stage /\ k.snap = l.snap
             /\ k.clean = (l.stage # "served")
  <2> DEFINE b == l.stage # "served"
  <2>1. l \in InboxLoad /\ b \in BOOLEAN
    BY <1>2
  <2> HIDE DEF b
  <2>2. LET k == [l EXCEPT !.clean = b] IN
             /\ k \in InboxLoad
             /\ k.n = l.n /\ k.filter = l.filter /\ k.stage = l.stage /\ k.snap = l.snap /\ k.clean = b
    BY <1>1, <2>1
  <2> QED BY <2>2 DEF b
<1>4. Spoiled \subseteq InboxLoad
  BY <1>3 DEF Spoiled
<1>5. ASSUME NEW l \in loads
      PROVE  \E k \in Spoiled : k.n = l.n
  BY <1>3 DEF Spoiled
<1>6. ASSUME NEW k \in Spoiled
      PROVE  \E l \in loads :
                 /\ k.n = l.n /\ k.filter = l.filter /\ k.stage = l.stage /\ k.snap = l.snap
                 /\ k.stage = "served" => ~k.clean
  <2>1. PICK l \in loads : k = [l EXCEPT !.clean = l.stage # "served"]
    BY DEF Spoiled
  <2> QED BY <1>3, <2>1
<1> QED BY <1>4, <1>5, <1>6

LEMMA InboxBegins == InboxInit => InboxInv
<1> SUFFICES ASSUME InboxInit PROVE InboxInv
  OBVIOUS
<1> USE InboxAssumption DEF InboxAssumption
<1>1. NewLoad(1, filter, "connect") \in InboxLoad /\ NewLoad(1, filter, "connect").n = 1
      /\ NewLoad(1, filter, "connect").filter = filter
      /\ NewLoad(1, filter, "connect").stage = "connect"
  BY NewLoadTyped DEF InboxInit
<1>2. NoSnap \in InboxSnap /\ [NoSnap EXCEPT !.chats = InboxChat] \in InboxSnap
  BY DEF NoSnap, InboxSnap
<1>3. <<>> \in Seq(ChatEvent)
  OBVIOUS
<1>4. InboxTypes
  <2>1. loads = {NewLoad(1, filter, "connect")} /\ loads \subseteq InboxLoad
    BY <1>1 DEF InboxInit
  <2>2. onWire \in Seq(ChatEvent) /\ cached \in InboxSnap
    BY <1>2, <1>3 DEF InboxInit
  <2>3. /\ sentTo \in [InboxChat -> Nat] /\ readTo \in [InboxChat -> Nat]
        /\ badge \in [InboxChat -> Nat]
        /\ hidden \subseteq InboxChat /\ listed \subseteq InboxChat
        /\ reading \subseteq ChatEvent /\ hiding \subseteq [chat : InboxChat, served : BOOLEAN]
    BY DEF InboxInit
  <2>4. filter \in InboxFilter
    BY DEF InboxInit
  <2>5. /\ loadSeq \in Nat \ {0}
        /\ active \in InboxChat \cup {NoInboxChat}
    BY DEF InboxInit
  <2>6. loading \in BOOLEAN /\ agrees \in BOOLEAN /\ leftOver \in BOOLEAN
    BY DEF InboxInit
  <2> QED BY <2>1, <2>2, <2>3, <2>4, <2>5, <2>6 DEF InboxTypes
<1>5. WireInOrder /\ HidesServed /\ Shown /\ OfFilter
  BY DEF InboxInit, WireInOrder, HidesServed, Shown, OfFilter
<1>6. LoadsKnown /\ Spins
  BY <1>1 DEF InboxInit, LoadsKnown, Spins
<1> QED BY <1>4, <1>5, <1>6 DEF InboxInv

\* The list stays as it is, and so does what the backend has.
LEMMA ShownStays ==
    ASSUME Shown,
           UNCHANGED <<sentTo, readTo, hidden, onWire, listed, badge, filter>>,
           agrees' => agrees, ~leftOver' => ~leftOver, Settled' => Settled,
           \A c \in InboxChat : c # active' => c # active,
           \A h \in hiding : h.served => h \in hiding'
    PROVE  Shown'
<1>1. \A c \in InboxChat : /\ Unread(c)' = Unread(c)
                           /\ InStep(c)' = InStep(c)
                           /\ \A k \in Nat : OnWire(c, k)' = OnWire(c, k)
  BY DEF InStep, Unread, OnWire, Matches
<1>2. \A c \in InboxChat : Matches(filter', c, Unread(c)') = Matches(filter, c, Unread(c))
  BY <1>1
<1>3. SUFFICES ASSUME agrees', ~leftOver', Settled'
      PROVE  /\ \A c \in InboxChat : c \in listed' /\ c \notin hidden' /\ c # active' => InStep(c)'
             /\ \A c \in InboxChat : c \notin listed' /\ c \notin hidden' /\ c # active' =>
                   (Matches(filter', c, Unread(c)') => \E k \in Nat : OnWire(c, k)')
             /\ \A c \in InboxChat : c \in listed' /\ c \in hidden' =>
                   \E h \in hiding' : h.served /\ h.chat = c
  BY DEF Shown
<1>4. agrees /\ ~leftOver /\ Settled
  BY <1>3
<1>5. /\ \A c \in InboxChat : c \in listed /\ c \notin hidden /\ c # active => InStep(c)
      /\ \A c \in InboxChat : c \notin listed /\ c \notin hidden /\ c # active =>
            (Matches(filter, c, Unread(c)) => \E k \in Nat : OnWire(c, k))
      /\ \A c \in InboxChat : c \in listed /\ c \in hidden =>
            \E h \in hiding : h.served /\ h.chat = c
  BY <1>4 DEF Shown
<1> QED BY <1>1, <1>2, <1>5

\* Loads that were there, in a world that did not change.
LEMMA LoadsStay ==
    ASSUME LoadsKnown, loads' \subseteq loads,
           UNCHANGED <<sentTo, readTo, hidden, onWire, filter, loadSeq>>
    PROVE  LoadsKnown'
<1>1. \A f : ListChats(f)' = ListChats(f)
  BY DEF ListChats, Unread
<1> QED BY <1>1 DEF LoadsKnown, Matches

\* A load of the newest number begins: it will replace the list.
LEMMA LoadBegins ==
    ASSUME InboxInv, NEW f \in InboxFilter, Load(f), filter' = f,
           UNCHANGED <<cached, sentTo, readTo, hidden, onWire, listed, loading, reading>>,
           badge' \in [InboxChat -> Nat], active' \in InboxChat \cup {NoInboxChat},
           agrees' \in BOOLEAN, leftOver' \in BOOLEAN, hiding' \subseteq hiding
    PROVE  InboxInv'
<1> DEFINE new == NewLoad(loadSeq + 1, f, "connect")
<1>1. loadSeq \in Nat \ {0} /\ loadSeq' = loadSeq + 1 /\ loadSeq' \in Nat \ {0}
  BY DEF Load, InboxInv, InboxTypes
<1>2. new \in InboxLoad /\ new.n = loadSeq' /\ new.filter = f /\ new.stage = "connect"
  BY <1>1, NewLoadTyped
<1>3. loads' = loads \cup {new}
  BY DEF Load
<1> HIDE DEF new
<1>4. InboxTypes'
  BY <1>1, <1>2, <1>3 DEF InboxInv, InboxTypes
<1>5. WireInOrder' /\ HidesServed'
  BY DEF InboxInv, WireInOrder, HidesServed
<1>6. \A g : ListChats(g)' = ListChats(g)
  BY DEF ListChats, Unread
<1>7. \A l \in loads : l.n \in Nat /\ l.n <= loadSeq
  BY DEF InboxInv, InboxTypes, LoadsKnown, InboxLoad
<1>8. LoadsKnown'
  <2> SUFFICES ASSUME NEW l \in loads'
               PROVE  /\ l.n <= loadSeq'
                      /\ l.n = loadSeq' => l.filter = f
                      /\ l.stage = "served" =>
                            /\ l.filter \in {"chats", "groups"} =>
                                  \A c \in l.snap.chats : Matches(l.filter, c, 1)
                            /\ l.clean => l.snap = ListChats(l.filter)' /\ onWire' = <<>>
    BY DEF LoadsKnown, Matches
  <2>1. CASE l = new
    BY <1>1, <1>2, <2>1
  <2>2. CASE l \in loads
    <3>1. l.n \in Nat /\ l.n <= loadSeq /\ l.n # loadSeq'
      BY <1>1, <1>7, <2>2
    <3>2. l.stage = "served" =>
             /\ l.filter \in {"chats", "groups"} => \A c \in l.snap.chats : Matches(l.filter, c, 1)
             /\ l.clean => l.snap = ListChats(l.filter) /\ onWire = <<>>
      BY <2>2 DEF InboxInv, LoadsKnown
    <3> QED BY <1>1, <1>6, <3>1, <3>2
  <2> QED BY <1>3, <2>1, <2>2
<1>9. new \in loads' /\ new.n = loadSeq'
  BY <1>2, <1>3
<1>10. Shown' /\ OfFilter' /\ Spins'
  BY <1>9 DEF Shown, Settled, OfFilter, Spins
<1> QED BY <1>4, <1>5, <1>8, <1>10 DEF InboxInv

\* A soft load is under way: it will replace the list.
LEMMA SoftBegins ==
    ASSUME InboxInv, SoftLoad, UNCHANGED <<sentTo, readTo, hidden, filter, loadSeq, loading>>,
           onWire' = onWire \/ onWire # <<>>
    PROVE  /\ loads' \subseteq InboxLoad
           /\ LoadsKnown' /\ Shown' /\ Spins'
           /\ loads \subseteq loads'
<1> DEFINE new == NewLoad(0, filter, "asked")
<1>1. new \in InboxLoad /\ new.n = 0 /\ new.filter = filter /\ new.stage = "asked"
  BY NewLoadTyped DEF InboxInv, InboxTypes
<1>2. loads' = loads \cup {new} /\ loadSeq \in Nat \ {0}
  BY DEF SoftLoad, InboxInv, InboxTypes
<1> HIDE DEF new
<1>3. \A g : ListChats(g)' = ListChats(g)
  BY DEF ListChats, Unread
<1>4. LoadsKnown'
  <2> SUFFICES ASSUME NEW l \in loads'
               PROVE  /\ l.n <= loadSeq
                      /\ l.n = loadSeq => l.filter = filter
                      /\ l.stage = "served" =>
                            /\ l.filter \in {"chats", "groups"} =>
                                  \A c \in l.snap.chats : Matches(l.filter, c, 1)
                            /\ l.clean => l.snap = ListChats(l.filter)' /\ onWire' = <<>>
    BY DEF LoadsKnown, Matches
  <2>1. CASE l = new
    BY <1>1, <1>2, <2>1
  <2>2. CASE l \in loads
    BY <1>3, <2>2 DEF InboxInv, LoadsKnown
  <2> QED BY <1>2, <2>1, <2>2
<1>5. new \in loads' /\ new.n = 0
  BY <1>1, <1>2
<1>6. Shown'
  BY <1>5 DEF Shown, Settled
<1>7. Spins'
  BY <1>2 DEF InboxInv, Spins
<1> QED BY <1>1, <1>2, <1>4, <1>6, <1>7 DEF InboxInv, InboxTypes

\* Something changed at the backend: the loads are spoiled.
LEMMA SpoiledKnown ==
    ASSUME InboxInv, loads' = Spoiled, UNCHANGED <<filter, loadSeq, loading>>
    PROVE  /\ loads' \subseteq InboxLoad
           /\ LoadsKnown' /\ Spins'
           /\ Settled' => Settled
           /\ (\A l \in loads' : l.n # loadSeq) => \A l \in loads : l.n # loadSeq
<1>1. /\ loads' \subseteq InboxLoad
      /\ \A k \in loads' : \E l \in loads :
            /\ k.n = l.n /\ k.filter = l.filter /\ k.stage = l.stage /\ k.snap = l.snap
            /\ k.stage = "served" => ~k.clean
      /\ \A l \in loads : \E k \in loads' : k.n = l.n
  BY SpoiledLoads DEF InboxInv
<1>2. LoadsKnown'
  <2> SUFFICES ASSUME NEW k \in loads'
               PROVE  /\ k.n <= loadSeq
                      /\ k.n = loadSeq => k.filter = filter
                      /\ k.stage = "served" =>
                            /\ k.filter \in {"chats", "groups"} =>
                                  \A c \in k.snap.chats : Matches(k.filter, c, 1)
                            /\ ~k.clean
    BY DEF LoadsKnown, Matches
  <2>1. PICK l \in loads :
            /\ k.n = l.n /\ k.filter = l.filter /\ k.stage = l.stage /\ k.snap = l.snap
            /\ k.stage = "served" => ~k.clean
    BY <1>1
  <2>2. /\ l.n <= loadSeq
        /\ l.n = loadSeq => l.filter = filter
        /\ l.stage = "served" =>
              (l.filter \in {"chats", "groups"} => \A c \in l.snap.chats : Matches(l.filter, c, 1))
    BY DEF InboxInv, LoadsKnown
  <2> QED BY <2>1, <2>2
<1>3. Spins'
  <2> SUFFICES ASSUME loading
               PROVE  \E k \in loads' : k.n = loadSeq
    BY DEF Spins
  <2>1. PICK l \in loads : l.n = loadSeq
    BY DEF InboxInv, Spins
  <2> QED BY <1>1, <2>1
<1>4. Settled' => Settled
  <2> SUFFICES ASSUME Settled', NEW l \in loads
               PROVE  l.n # 0 /\ l.n # loadSeq
    BY DEF Settled
  <2>1. PICK k \in loads' : k.n = l.n
    BY <1>1
  <2> QED BY <2>1 DEF Settled
<1>5. (\A l \in loads' : l.n # loadSeq) => \A l \in loads : l.n # loadSeq
  BY <1>1
<1> QED BY <1>1, <1>2, <1>3, <1>4, <1>5

LEMMA ChangeFilterInbox ==
    ASSUME InboxInv, NEW f \in InboxFilter, ChangeFilter(f)
    PROVE  InboxInv'
<1>1. Load(f) /\ filter' = f
  BY DEF ChangeFilter
<1> QED BY <1>1, LoadBegins DEF ChangeFilter, InboxInv, InboxTypes

LEMMA PullRefreshInbox ==
    ASSUME InboxInv, PullRefresh
    PROVE  InboxInv'
<1>1. Load(filter) /\ filter' = filter /\ filter \in InboxFilter
  BY DEF PullRefresh, InboxInv, InboxTypes
<1> QED BY <1>1, LoadBegins DEF PullRefresh, InboxInv, InboxTypes

LEMMA BackInbox ==
    ASSUME InboxInv, Back
    PROVE  InboxInv'
<1>1. Load(filter) /\ filter' = filter /\ filter \in InboxFilter
  BY DEF Back, InboxInv, InboxTypes
<1>2. badge' \in [InboxChat -> Nat] /\ active' \in InboxChat \cup {NoInboxChat} /\ agrees' \in BOOLEAN
  BY DEF Back, InboxInv, InboxTypes
<1> QED BY <1>1, <1>2, LoadBegins DEF Back, InboxInv, InboxTypes

LEMMA BulkHideAnsweredInbox ==
    ASSUME InboxInv, NEW h \in hiding, BulkHideAnswered(h)
    PROVE  InboxInv'
<1>1. Load(filter) /\ filter' = filter /\ filter \in InboxFilter
  BY DEF BulkHideAnswered, InboxInv, InboxTypes
<1>2. hiding' \subseteq hiding /\ agrees' \in BOOLEAN
  BY DEF BulkHideAnswered
<1> QED BY <1>1, <1>2, LoadBegins DEF BulkHideAnswered, InboxInv, InboxTypes

LEMMA TabRefreshInbox ==
    ASSUME InboxInv, TabRefresh
    PROVE  InboxInv'
<1>1. /\ SoftLoad
      /\ UNCHANGED <<cached, sentTo, readTo, hidden, onWire, listed, badge, filter, loading, loadSeq,
                     active, reading, hiding, agrees, leftOver>>
  BY DEF TabRefresh
<1>2. loads' \subseteq InboxLoad /\ LoadsKnown' /\ Shown' /\ Spins' /\ loads \subseteq loads'
  BY <1>1, SoftBegins
<1>3. InboxTypes'
  BY <1>1, <1>2 DEF InboxInv, InboxTypes
<1>4. WireInOrder' /\ HidesServed'
  BY <1>1 DEF InboxInv, WireInOrder, HidesServed
<1>5. OfFilter'
  BY <1>1, <1>2 DEF InboxInv, OfFilter, Matches
<1> QED BY <1>2, <1>3, <1>4, <1>5 DEF InboxInv

\* What the list, the loads and the world do not depend on.
LEMMA ListStays ==
    ASSUME InboxInv,
           UNCHANGED <<cached, sentTo, readTo, hidden, onWire, listed, badge, filter, loading, loadSeq,
                       loads, leftOver>>,
           active' \in InboxChat \cup {NoInboxChat}, active # active' => active = NoInboxChat,
           agrees' \in BOOLEAN, agrees' => agrees,
           reading' \subseteq ChatEvent, \A r \in reading' : r.n <= sentTo[r.chat],
           hiding' \subseteq [chat : InboxChat, served : BOOLEAN],
           \A h \in hiding' : h.served => h \in hiding,
           \A g, h \in hiding' : g = h,
           agrees' => \A h \in hiding : h.served => h \in hiding'
    PROVE  InboxInv'
<1> USE InboxAssumption DEF InboxAssumption
<1>1. InboxTypes'
  BY DEF InboxInv, InboxTypes
<1>2. WireInOrder' /\ HidesServed'
  BY DEF InboxInv, WireInOrder, HidesServed
<1>3. LoadsKnown'
  BY LoadsStay DEF InboxInv
<1>4. OfFilter' /\ Spins' /\ (Settled' => Settled)
  BY DEF InboxInv, OfFilter, Spins, Settled, Matches
<1>5. CASE agrees'
  <2>1. \A h \in hiding : h.served => h \in hiding'
    BY <1>5
  <2>2. \A c \in InboxChat : c # active' => c # active
    OBVIOUS
  <2> QED BY <1>1, <1>2, <1>3, <1>4, <2>1, <2>2, ShownStays DEF InboxInv
<1>6. CASE ~agrees'
  BY <1>1, <1>2, <1>3, <1>4, <1>6 DEF InboxInv, Shown
<1> QED BY <1>5, <1>6

LEMMA OpenConversationInbox ==
    ASSUME InboxInv, NEW c \in InboxChat, OpenConversation(c)
    PROVE  InboxInv'
<1>1. /\ active = NoInboxChat /\ active' = c
      /\ UNCHANGED <<cached, sentTo, readTo, hidden, onWire, listed, badge, filter, loading, loadSeq,
                     loads, reading, hiding, agrees, leftOver>>
  BY DEF OpenConversation
<1>2. /\ agrees' \in BOOLEAN /\ reading' \subseteq ChatEvent
      /\ hiding' \subseteq [chat : InboxChat, served : BOOLEAN]
      /\ \A r \in reading' : r.n <= sentTo[r.chat]
      /\ \A f, g \in hiding' : f = g
  BY <1>1 DEF InboxInv, InboxTypes, WireInOrder, HidesServed
<1> QED BY <1>1, <1>2, ListStays

LEMMA ChatLoadsInbox ==
    ASSUME InboxInv, ChatLoads
    PROVE  InboxInv'
<1>1. /\ active \in InboxChat
      /\ reading' = reading \cup {[chat |-> active, n |-> sentTo[active]]}
      /\ UNCHANGED <<cached, sentTo, readTo, hidden, onWire, listed, badge, filter, loading, loadSeq,
                     loads, active, hiding, agrees, leftOver>>
  BY DEF ChatLoads, InboxInv, InboxTypes
<1>2. sentTo[active] \in Nat /\ [chat |-> active, n |-> sentTo[active]] \in ChatEvent
  BY <1>1 DEF InboxInv, InboxTypes, ChatEvent
<1>3. /\ agrees' \in BOOLEAN /\ reading' \subseteq ChatEvent
      /\ hiding' \subseteq [chat : InboxChat, served : BOOLEAN]
      /\ \A r \in reading' : r.n <= sentTo[r.chat]
      /\ \A f, g \in hiding' : f = g
  BY <1>1, <1>2 DEF InboxInv, InboxTypes, WireInOrder, HidesServed
<1>4. active' \in InboxChat \cup {NoInboxChat}
  BY <1>1
<1> QED BY <1>1, <1>3, <1>4, ListStays

LEMMA ReadFailsInbox ==
    ASSUME InboxInv, NEW r \in reading, ReadFails(r)
    PROVE  InboxInv'
<1>1. /\ reading' = reading \ {r}
      /\ UNCHANGED <<cached, sentTo, readTo, hidden, onWire, listed, badge, filter, loading, loadSeq,
                     loads, active, hiding, agrees, leftOver>>
  BY DEF ReadFails
<1>2. /\ agrees' \in BOOLEAN /\ reading' \subseteq ChatEvent
      /\ hiding' \subseteq [chat : InboxChat, served : BOOLEAN]
      /\ active' \in InboxChat \cup {NoInboxChat}
      /\ \A q \in reading' : q.n <= sentTo[q.chat]
      /\ \A f, g \in hiding' : f = g
  BY <1>1 DEF InboxInv, InboxTypes, WireInOrder, HidesServed
<1> QED BY <1>1, <1>2, ListStays

LEMMA HideInbox ==
    ASSUME InboxInv, NEW c \in InboxChat, Hide(c)
    PROVE  InboxInv'
<1>1. /\ hiding = {} /\ hiding' = {[chat |-> c, served |-> FALSE]}
      /\ UNCHANGED <<cached, sentTo, readTo, hidden, onWire, listed, badge, filter, loading, loadSeq,
                     loads, active, reading, agrees, leftOver>>
  BY DEF Hide
<1>2. /\ agrees' \in BOOLEAN /\ reading' \subseteq ChatEvent
      /\ active' \in InboxChat \cup {NoInboxChat}
      /\ \A q \in reading' : q.n <= sentTo[q.chat]
      /\ \A f, g \in hiding' : f = g
  BY <1>1 DEF InboxInv, InboxTypes, WireInOrder, HidesServed
<1>3. /\ hiding' \subseteq [chat : InboxChat, served : BOOLEAN]
      /\ \A h \in hiding' : ~h.served
  BY <1>1
<1> QED BY <1>1, <1>2, <1>3, ListStays

LEMMA HideFailsInbox ==
    ASSUME InboxInv, NEW h \in hiding, HideFails(h)
    PROVE  InboxInv'
<1>1. /\ hiding' = {} /\ agrees' = FALSE
      /\ UNCHANGED <<cached, sentTo, readTo, hidden, onWire, listed, badge, filter, loading, loadSeq,
                     loads, active, reading, leftOver>>
  BY DEF HideFails
<1>2. /\ agrees' \in BOOLEAN /\ reading' \subseteq ChatEvent
      /\ hiding' \subseteq [chat : InboxChat, served : BOOLEAN]
      /\ active' \in InboxChat \cup {NoInboxChat}
      /\ \A q \in reading' : q.n <= sentTo[q.chat]
      /\ \A f, g \in hiding' : f = g
  BY <1>1 DEF InboxInv, InboxTypes, WireInOrder, HidesServed
<1> QED BY <1>1, <1>2, ListStays

LEMMA HideAnsweredInbox ==
    ASSUME InboxInv, NEW h \in hiding, HideAnswered(h)
    PROVE  InboxInv'
<1>1. /\ h.served /\ hiding' = {} /\ listed' = listed \ {h.chat}
      /\ badge' = [badge EXCEPT ![h.chat] = 0]
      /\ UNCHANGED <<cached, sentTo, readTo, hidden, onWire, filter, loading, loadSeq, active, loads,
                     reading, agrees, leftOver>>
  BY DEF HideAnswered
<1>2. h.chat \in hidden
  BY <1>1 DEF InboxInv, HidesServed
<1>3. InboxTypes'
  BY <1>1 DEF InboxInv, InboxTypes
<1>4. WireInOrder' /\ HidesServed'
  BY <1>1 DEF InboxInv, WireInOrder, HidesServed
<1>5. LoadsKnown'
  BY <1>1, LoadsStay DEF InboxInv
<1>6. OfFilter' /\ Spins' /\ Settled' = Settled
  BY <1>1 DEF InboxInv, OfFilter, Spins, Settled, Matches
<1>7. ASSUME NEW c \in InboxChat, c # h.chat
      PROVE  InStep(c)' = InStep(c)
  <2>1. badge'[c] = badge[c]
    BY <1>1, <1>7 DEF InboxInv, InboxTypes
  <2> QED BY <1>1, <2>1 DEF InStep, Unread, OnWire, Matches
<1>8. \A c \in InboxChat : /\ Matches(filter, c, Unread(c))' = Matches(filter, c, Unread(c))
                           /\ \A k \in Nat : OnWire(c, k)' = OnWire(c, k)
  BY <1>1 DEF Unread, OnWire, Matches
<1>9. \A g \in hiding : g = h
  BY DEF InboxInv, HidesServed
<1>10. Shown'
  <2> SUFFICES ASSUME agrees', ~leftOver', Settled'
      PROVE  /\ \A c \in InboxChat : c \in listed' /\ c \notin hidden' /\ c # active' => InStep(c)'
             /\ \A c \in InboxChat : c \notin listed' /\ c \notin hidden' /\ c # active' =>
                   (Matches(filter, c, Unread(c))' => \E k \in Nat : OnWire(c, k)')
             /\ \A c \in InboxChat : c \in listed' /\ c \in hidden' =>
                   \E g \in hiding' : g.served /\ g.chat = c
    BY DEF Shown
  <2>1. agrees /\ ~leftOver /\ Settled
    BY <1>1, <1>6
  <2>2. /\ \A c \in InboxChat : c \in listed /\ c \notin hidden /\ c # active => InStep(c)
        /\ \A c \in InboxChat : c \notin listed /\ c \notin hidden /\ c # active =>
              (Matches(filter, c, Unread(c)) => \E k \in Nat : OnWire(c, k))
        /\ \A c \in InboxChat : c \in listed /\ c \in hidden =>
              \E g \in hiding : g.served /\ g.chat = c
    BY <2>1 DEF InboxInv, Shown
  <2>3. ASSUME NEW c \in InboxChat, c \in listed', c \notin hidden', c # active'
        PROVE  InStep(c)'
    BY <1>1, <1>2, <1>7, <2>2, <2>3
  <2>4. ASSUME NEW c \in InboxChat, c \notin listed', c \notin hidden', c # active',
               Matches(filter, c, Unread(c))'
        PROVE  \E k \in Nat : OnWire(c, k)'
    BY <1>1, <1>2, <1>8, <2>2, <2>4
  <2>5. ASSUME NEW c \in InboxChat, c \in listed', c \in hidden'
        PROVE  FALSE
    BY <1>1, <1>9, <2>2, <2>5
  <2> QED BY <2>3, <2>4, <2>5
<1> QED BY <1>3, <1>4, <1>5, <1>6, <1>10 DEF InboxInv

LEMMA HideServedInbox ==
    ASSUME InboxInv, NEW h \in hiding, HideServed(h)
    PROVE  InboxInv'
<1> DEFINE g == [h EXCEPT !.served = TRUE]
<1>1. /\ ~h.served /\ hidden' = hidden \cup {h.chat} /\ hiding' = {g} /\ loads' = Spoiled
      /\ UNCHANGED <<cached, sentTo, readTo, onWire, listed, badge, filter, loading, loadSeq, active,
                     reading, agrees, leftOver>>
  BY DEF HideServed
<1>2. g \in [chat : InboxChat, served : BOOLEAN] /\ g.served /\ g.chat = h.chat /\ h.chat \in InboxChat
  BY DEF InboxInv, InboxTypes
<1> HIDE DEF g
<1>3. /\ loads' \subseteq InboxLoad /\ LoadsKnown' /\ Spins' /\ (Settled' => Settled)
      /\ (\A l \in loads' : l.n # loadSeq) => \A l \in loads : l.n # loadSeq
  BY <1>1, SpoiledKnown
<1>4. InboxTypes'
  BY <1>1, <1>2, <1>3 DEF InboxInv, InboxTypes
<1>5. WireInOrder' /\ HidesServed'
  BY <1>1, <1>2 DEF InboxInv, WireInOrder, HidesServed
<1>6. OfFilter'
  BY <1>1, <1>3 DEF InboxInv, OfFilter, Matches
<1>7. \A c \in InboxChat : /\ InStep(c)' = InStep(c)
                           /\ Matches(filter, c, Unread(c))' = Matches(filter, c, Unread(c))
                           /\ \A k \in Nat : OnWire(c, k)' = OnWire(c, k)
  BY <1>1 DEF InStep, Unread, OnWire, Matches
<1>8. \A f \in hiding : f = h
  BY DEF InboxInv, HidesServed
<1>9. Shown'
  <2> SUFFICES ASSUME agrees', ~leftOver', Settled'
      PROVE  /\ \A c \in InboxChat : c \in listed' /\ c \notin hidden' /\ c # active' => InStep(c)'
             /\ \A c \in InboxChat : c \notin listed' /\ c \notin hidden' /\ c # active' =>
                   (Matches(filter, c, Unread(c))' => \E k \in Nat : OnWire(c, k)')
             /\ \A c \in InboxChat : c \in listed' /\ c \in hidden' =>
                   \E f \in hiding' : f.served /\ f.chat = c
    BY DEF Shown
  <2>1. agrees /\ ~leftOver /\ Settled
    BY <1>1, <1>3
  <2>2. /\ \A c \in InboxChat : c \in listed /\ c \notin hidden /\ c # active => InStep(c)
        /\ \A c \in InboxChat : c \notin listed /\ c \notin hidden /\ c # active =>
              (Matches(filter, c, Unread(c)) => \E k \in Nat : OnWire(c, k))
        /\ \A c \in InboxChat : c \in listed /\ c \in hidden =>
              \E f \in hiding : f.served /\ f.chat = c
    BY <2>1 DEF InboxInv, Shown
  <2>3. ASSUME NEW c \in InboxChat, c \in listed', c \in hidden'
        PROVE  \E f \in hiding' : f.served /\ f.chat = c
    <3>1. c = h.chat
      BY <1>1, <1>8, <2>2, <2>3
    <3> QED BY <1>1, <1>2, <3>1
  <2>4. ASSUME NEW c \in InboxChat, c \notin hidden'
        PROVE  c \notin hidden
    BY <1>1, <2>4
  <2> QED BY <1>1, <1>7, <2>2, <2>3, <2>4
<1> QED BY <1>3, <1>4, <1>5, <1>6, <1>9 DEF InboxInv

LEMMA ReadServedInbox ==
    ASSUME InboxInv, NEW r \in reading, ReadServed(r)
    PROVE  InboxInv'
<1>1. /\ readTo' = [readTo EXCEPT ![r.chat] = IF @ < r.n THEN r.n ELSE @]
      /\ reading' = reading \ {r} /\ loads' = Spoiled
      /\ agrees' = (agrees /\ (r.chat = active \/ r.n <= readTo[r.chat]))
      /\ UNCHANGED <<cached, sentTo, hidden, onWire, listed, badge, filter, loading, loadSeq, active,
                     hiding, leftOver>>
  BY DEF ReadServed
<1>2. r \in ChatEvent /\ r.chat \in InboxChat /\ r.n \in Nat /\ r.n <= sentTo[r.chat]
  BY DEF InboxInv, InboxTypes, WireInOrder, ChatEvent
<1>3. /\ loads' \subseteq InboxLoad /\ LoadsKnown' /\ Spins' /\ (Settled' => Settled)
      /\ (\A l \in loads' : l.n # loadSeq) => \A l \in loads : l.n # loadSeq
  BY <1>1, SpoiledKnown
<1>4. /\ readTo' \in [InboxChat -> Nat]
      /\ \A c \in InboxChat : c # r.chat => readTo'[c] = readTo[c]
      /\ r.n <= readTo[r.chat] => readTo'[r.chat] = readTo[r.chat]
      /\ \A c \in InboxChat : readTo'[c] <= sentTo[c]
  BY <1>1, <1>2 DEF InboxInv, InboxTypes, WireInOrder
<1>5. agrees' \in BOOLEAN /\ (agrees' => agrees)
  BY <1>1
<1>6. InboxTypes'
  BY <1>1, <1>3, <1>4, <1>5 DEF InboxInv, InboxTypes
<1>7. WireInOrder' /\ HidesServed'
  BY <1>1, <1>4 DEF InboxInv, WireInOrder, HidesServed
<1>8. OfFilter'
  BY <1>1, <1>3 DEF InboxInv, OfFilter, Matches
<1>9. Shown'
  <2> SUFFICES ASSUME agrees', ~leftOver', Settled'
      PROVE  /\ \A c \in InboxChat : c \in listed' /\ c \notin hidden' /\ c # active' => InStep(c)'
             /\ \A c \in InboxChat : c \notin listed' /\ c \notin hidden' /\ c # active' =>
                   (Matches(filter, c, Unread(c))' => \E k \in Nat : OnWire(c, k)')
             /\ \A c \in InboxChat : c \in listed' /\ c \in hidden' =>
                   \E f \in hiding' : f.served /\ f.chat = c
    BY DEF Shown
  <2>1. agrees /\ ~leftOver /\ Settled
    BY <1>1, <1>3
  <2>2. /\ \A c \in InboxChat : c \in listed /\ c \notin hidden /\ c # active => InStep(c)
        /\ \A c \in InboxChat : c \notin listed /\ c \notin hidden /\ c # active =>
              (Matches(filter, c, Unread(c)) => \E k \in Nat : OnWire(c, k))
        /\ \A c \in InboxChat : c \in listed /\ c \in hidden =>
              \E f \in hiding : f.served /\ f.chat = c
    BY <2>1 DEF InboxInv, Shown
  <2>3. ASSUME NEW c \in InboxChat, c # active
        PROVE  readTo'[c] = readTo[c]
    BY <1>1, <1>4, <2>3
  <2>4. ASSUME NEW c \in InboxChat, c # active
        PROVE  /\ InStep(c)' = InStep(c)
               /\ Matches(filter, c, Unread(c))' = Matches(filter, c, Unread(c))
               /\ \A k \in Nat : OnWire(c, k)' = OnWire(c, k)
    <3>1. readTo'[c] = readTo[c]
      BY <2>3, <2>4
    <3> QED BY <1>1, <3>1 DEF InStep, Unread, OnWire, Matches
  <2> QED BY <1>1, <2>2, <2>4
<1> QED BY <1>3, <1>6, <1>7, <1>8, <1>9 DEF InboxInv

LEMMA PeerSendsInbox ==
    ASSUME InboxInv, NEW c \in InboxChat, PeerSends(c)
    PROVE  InboxInv'
<1> DEFINE e == [chat |-> c, n |-> sentTo[c] + 1]
<1>1. /\ sentTo' = [sentTo EXCEPT ![c] = @ + 1] /\ onWire' = Append(onWire, e) /\ loads' = Spoiled
      /\ UNCHANGED <<cached, readTo, hidden, listed, badge, filter, loading, loadSeq, active, reading,
                     hiding, agrees, leftOver>>
  BY DEF PeerSends
<1>2. sentTo[c] \in Nat /\ e \in ChatEvent /\ e.chat = c /\ e.n = sentTo[c] + 1 /\ onWire \in Seq(ChatEvent)
  BY DEF InboxInv, InboxTypes, ChatEvent
<1> HIDE DEF e
<1>3. /\ sentTo' \in [InboxChat -> Nat] /\ sentTo'[c] = sentTo[c] + 1
      /\ \A d \in InboxChat : d # c => sentTo'[d] = sentTo[d]
      /\ \A d \in InboxChat : sentTo[d] <= sentTo'[d]
  BY <1>1, <1>2 DEF InboxInv, InboxTypes
<1>4. /\ onWire' \in Seq(ChatEvent) /\ Len(onWire') = Len(onWire) + 1 /\ Len(onWire) \in Nat
      /\ \A i \in DOMAIN onWire : onWire'[i] = onWire[i]
      /\ onWire'[Len(onWire')] = e
  BY <1>1, <1>2
<1>5. DOMAIN onWire = 1 .. Len(onWire) /\ DOMAIN onWire' = 1 .. Len(onWire')
  BY <1>2, <1>4
<1>6. \A i \in DOMAIN onWire' : i \in DOMAIN onWire \/ i = Len(onWire')
  BY <1>4, <1>5
<1>7. /\ loads' \subseteq InboxLoad /\ LoadsKnown' /\ Spins' /\ (Settled' => Settled)
      /\ (\A l \in loads' : l.n # loadSeq) => \A l \in loads : l.n # loadSeq
  BY <1>1, SpoiledKnown
<1>8. InboxTypes'
  BY <1>1, <1>3, <1>4, <1>7 DEF InboxInv, InboxTypes
<1>9. \A i \in DOMAIN onWire : /\ onWire[i] \in ChatEvent /\ onWire[i].chat \in InboxChat
                               /\ onWire[i].n \in Nat /\ onWire[i].n <= sentTo[onWire[i].chat]
  <2>1. \A i \in DOMAIN onWire : onWire[i] \in ChatEvent
    BY <1>2
  <2>2. \A x \in ChatEvent : x.chat \in InboxChat /\ x.n \in Nat
    BY DEF ChatEvent
  <2> QED BY <2>1, <2>2 DEF InboxInv, WireInOrder
<1>10. HidesServed' /\ OfFilter'
  BY <1>1, <1>7 DEF InboxInv, HidesServed, OfFilter, Matches
<1>11. WireInOrder'
  <2>1. ASSUME NEW i \in DOMAIN onWire'
        PROVE  onWire'[i].n <= sentTo'[onWire'[i].chat]
    <3>1. CASE i \in DOMAIN onWire
      <4>1. /\ onWire'[i] = onWire[i] /\ onWire[i].chat \in InboxChat /\ onWire[i].n \in Nat
            /\ onWire[i].n <= sentTo[onWire[i].chat]
        BY <1>4, <1>9, <3>1
      <4>2. /\ sentTo[onWire[i].chat] <= sentTo'[onWire[i].chat]
            /\ sentTo[onWire[i].chat] \in Nat /\ sentTo'[onWire[i].chat] \in Nat
        BY <1>3, <4>1 DEF InboxInv, InboxTypes
      <4> QED BY <4>1, <4>2
    <3>2. CASE i = Len(onWire')
      BY <1>2, <1>3, <1>4, <3>2
    <3> QED BY <1>6, <3>1, <3>2
  <2>2. ASSUME NEW i \in DOMAIN onWire', NEW j \in DOMAIN onWire', i < j,
               onWire'[i].chat = onWire'[j].chat
        PROVE  onWire'[i].n < onWire'[j].n
    <3>1. i \in DOMAIN onWire
      BY <1>4, <1>5, <2>2
    <3>2. CASE j \in DOMAIN onWire
      BY <1>4, <2>2, <3>1, <3>2 DEF InboxInv, WireInOrder
    <3>3. CASE j = Len(onWire')
      <4>1. onWire[i].chat = c /\ onWire[i].n <= sentTo[c] /\ onWire[i].n \in Nat
        BY <1>2, <1>4, <1>9, <2>2, <3>1, <3>3
      <4> QED BY <1>2, <1>4, <3>1, <3>3, <4>1
    <3> QED BY <1>6, <3>2, <3>3
  <2>3. ASSUME NEW r \in reading'
        PROVE  r.n <= sentTo'[r.chat]
    <3>1. r \in reading /\ r.chat \in InboxChat /\ r.n \in Nat /\ r.n <= sentTo[r.chat]
      BY <1>1 DEF InboxInv, InboxTypes, WireInOrder, ChatEvent
    <3>2. sentTo[r.chat] <= sentTo'[r.chat] /\ sentTo[r.chat] \in Nat /\ sentTo'[r.chat] \in Nat
      BY <1>3, <3>1 DEF InboxInv, InboxTypes
    <3> QED BY <3>1, <3>2
  <2>4. ASSUME NEW d \in InboxChat
        PROVE  readTo'[d] <= sentTo'[d]
    <3>1. /\ readTo'[d] = readTo[d] /\ readTo[d] <= sentTo[d] /\ sentTo[d] <= sentTo'[d]
          /\ readTo[d] \in Nat /\ sentTo[d] \in Nat /\ sentTo'[d] \in Nat
      BY <1>1, <1>3 DEF InboxInv, InboxTypes, WireInOrder
    <3> QED BY <3>1
  <2> QED BY <2>1, <2>2, <2>3, <2>4 DEF WireInOrder
<1>12. ASSUME NEW d \in InboxChat, NEW k \in Nat
       PROVE  OnWire(d, k)' <=> OnWire(d, k) \/ (d = c /\ k = sentTo[c] + 1)
  <2>1. ASSUME OnWire(d, k)'
        PROVE  OnWire(d, k) \/ (d = c /\ k = sentTo[c] + 1)
    <3>1. PICK i \in DOMAIN onWire' : onWire'[i].chat = d /\ onWire'[i].n = k
      BY <2>1 DEF OnWire
    <3> QED BY <1>2, <1>4, <1>6, <3>1 DEF OnWire
  <2>2. ASSUME OnWire(d, k)
        PROVE  OnWire(d, k)'
    <3>1. PICK i \in DOMAIN onWire : onWire[i].chat = d /\ onWire[i].n = k
      BY <2>2 DEF OnWire
    <3>2. i \in DOMAIN onWire'
      BY <1>4, <1>5
    <3> QED BY <1>4, <3>1, <3>2 DEF OnWire
  <2>3. ASSUME d = c, k = sentTo[c] + 1
        PROVE  OnWire(d, k)'
    <3>1. Len(onWire') \in DOMAIN onWire'
      BY <1>4, <1>5
    <3> QED BY <1>2, <1>4, <2>3, <3>1 DEF OnWire
  <2> QED BY <2>1, <2>2, <2>3
<1>13. ASSUME NEW d \in InboxChat, d # c
       PROVE  /\ InStep(d)' = InStep(d)
              /\ Matches(filter, d, Unread(d))' = Matches(filter, d, Unread(d))
              /\ \A k \in Nat : OnWire(d, k)' = OnWire(d, k)
  <2>1. sentTo'[d] = sentTo[d]
    BY <1>3, <1>13
  <2>2. \A k \in Nat : OnWire(d, k)' = OnWire(d, k)
    BY <1>12, <1>13 DEF OnWire
  <2>3. Matches(filter, d, Unread(d))' = Matches(filter, d, Unread(d))
    BY <1>1, <2>1 DEF Unread, Matches
  <2> QED BY <1>1, <2>1, <2>2, <2>3 DEF InStep
<1>14. ASSUME InStep(c)
       PROVE  InStep(c)'
  <2>1. /\ Matches(filter, c, Unread(c)) /\ badge[c] + readTo[c] <= sentTo[c]
        /\ \A k \in Nat : OnWire(c, k) <=> badge[c] + readTo[c] < k /\ k <= sentTo[c]
    BY <1>14 DEF InStep
  <2>2. badge[c] \in Nat /\ readTo[c] \in Nat /\ readTo[c] <= sentTo[c]
    BY DEF InboxInv, InboxTypes, WireInOrder
  <2>3. Unread(c) \in Int /\ Unread(c)' \in Int /\ Unread(c)' = Unread(c) + 1
    BY <1>1, <1>2, <1>3, <2>2 DEF Unread
  <2>4. Matches(filter, c, Unread(c))'
    <3>1. filter' = filter /\ Matches(filter, c, Unread(c)')
      BY <1>1, <2>1, <2>3, MatchesUnread
    <3> QED BY <3>1 DEF Matches
  <2>5. badge'[c] + readTo'[c] <= sentTo'[c]
    BY <1>1, <1>2, <1>3, <2>1, <2>2
  <2>6. ASSUME NEW k \in Nat
        PROVE  OnWire(c, k)' <=> badge'[c] + readTo'[c] < k /\ k <= sentTo'[c]
    <3>1. OnWire(c, k)' <=> OnWire(c, k) \/ k = sentTo[c] + 1
      BY <1>12
    <3>2. badge'[c] = badge[c] /\ readTo'[c] = readTo[c] /\ sentTo'[c] = sentTo[c] + 1
      BY <1>1, <1>3
    <3>3. OnWire(c, k) <=> badge[c] + readTo[c] < k /\ k <= sentTo[c]
      BY <2>1
    <3>4. \/ badge[c] + readTo[c] < k /\ k <= sentTo[c]
          \/ k = sentTo[c] + 1
          <=> badge[c] + readTo[c] < k /\ k <= sentTo[c] + 1
      BY <1>2, <2>1, <2>2
    <3> QED BY <3>1, <3>2, <3>3, <3>4
  <2> QED BY <2>4, <2>5, <2>6 DEF InStep
<1>15. \E k \in Nat : OnWire(c, k)'
  BY <1>2, <1>12
<1>16. Shown'
  <2> SUFFICES ASSUME agrees', ~leftOver', Settled'
      PROVE  /\ \A d \in InboxChat : d \in listed' /\ d \notin hidden' /\ d # active' => InStep(d)'
             /\ \A d \in InboxChat : d \notin listed' /\ d \notin hidden' /\ d # active' =>
                   (Matches(filter, d, Unread(d))' => \E k \in Nat : OnWire(d, k)')
             /\ \A d \in InboxChat : d \in listed' /\ d \in hidden' =>
                   \E f \in hiding' : f.served /\ f.chat = d
    BY DEF Shown
  <2>1. agrees /\ ~leftOver /\ Settled
    BY <1>1, <1>7
  <2>2. /\ \A d \in InboxChat : d \in listed /\ d \notin hidden /\ d # active => InStep(d)
        /\ \A d \in InboxChat : d \notin listed /\ d \notin hidden /\ d # active =>
              (Matches(filter, d, Unread(d)) => \E k \in Nat : OnWire(d, k))
        /\ \A d \in InboxChat : d \in listed /\ d \in hidden =>
              \E f \in hiding : f.served /\ f.chat = d
    BY <2>1 DEF InboxInv, Shown
  <2>3. ASSUME NEW d \in InboxChat, d \in listed, d \notin hidden, d # active
        PROVE  InStep(d)'
    BY <1>13, <1>14, <2>2, <2>3
  <2>4. ASSUME NEW d \in InboxChat, d \notin listed, d \notin hidden, d # active,
               Matches(filter, d, Unread(d))'
        PROVE  \E k \in Nat : OnWire(d, k)'
    <3>1. CASE d = c
      BY <1>15, <3>1
    <3>2. CASE d # c
      <4>1. \E k \in Nat : OnWire(d, k)
        BY <1>13, <2>2, <2>4, <3>2
      <4> QED BY <1>12, <4>1
    <3> QED BY <3>1, <3>2
  <2> QED BY <1>1, <2>2, <2>3, <2>4
<1> QED BY <1>7, <1>8, <1>10, <1>11, <1>16 DEF InboxInv

\* A load goes one step further.
LEMMA LoadGoesOn ==
    ASSUME InboxInv, NEW l \in loads, NEW k \in InboxLoad,
           k.n = l.n, k.filter = l.filter,
           k.stage = "served" =>
               /\ k.filter \in {"chats", "groups"} => \A c \in k.snap.chats : Matches(k.filter, c, 1)
               /\ k.clean => k.snap = ListChats(k.filter) /\ onWire = <<>>,
           loads' = (loads \ {l}) \cup {k},
           loading' \in BOOLEAN, loading' => loading \/ l.n = loadSeq,
           UNCHANGED <<cached, sentTo, readTo, hidden, onWire, listed, badge, filter, loadSeq, active,
                       reading, hiding, agrees, leftOver>>
    PROVE  InboxInv'
<1>1. loading' \in BOOLEAN /\ (loading' => loading \/ l.n = loadSeq)
  OBVIOUS
<1>2. InboxTypes'
  BY <1>1 DEF InboxInv, InboxTypes
<1>3. WireInOrder' /\ HidesServed'
  BY DEF InboxInv, WireInOrder, HidesServed
<1>4. \A f : ListChats(f)' = ListChats(f)
  BY DEF ListChats, Unread
<1>5. LoadsKnown'
  <2> SUFFICES ASSUME NEW q \in loads'
               PROVE  /\ q.n <= loadSeq
                      /\ q.n = loadSeq => q.filter = filter
                      /\ q.stage = "served" =>
                            /\ q.filter \in {"chats", "groups"} =>
                                  \A c \in q.snap.chats : Matches(q.filter, c, 1)
                            /\ q.clean => q.snap = ListChats(q.filter) /\ onWire = <<>>
    BY <1>4 DEF LoadsKnown, Matches
  <2>1. CASE q \in loads
    BY <2>1 DEF InboxInv, LoadsKnown
  <2>2. CASE q = k
    BY <2>2 DEF InboxInv, LoadsKnown
  <2> QED BY <2>1, <2>2
<1>6. /\ Settled' => Settled
      /\ (\A q \in loads' : q.n # loadSeq) => \A q \in loads : q.n # loadSeq
  BY DEF Settled
<1>7. Shown'
  BY <1>6, ShownStays DEF InboxInv
<1>8. OfFilter'
  BY <1>6 DEF InboxInv, OfFilter, Matches
<1>9. Spins'
  <2> SUFFICES ASSUME loading'
               PROVE  \E q \in loads' : q.n = loadSeq
    BY DEF Spins
  <2>1. \E q \in loads : q.n = loadSeq
    BY <1>1 DEF InboxInv, Spins
  <2> QED BY <2>1
<1> QED BY <1>2, <1>3, <1>5, <1>7, <1>8, <1>9 DEF InboxInv

LEMMA LoadAsksInbox ==
    ASSUME InboxInv, NEW l \in loads, LoadAsks(l)
    PROVE  InboxInv'
<1> DEFINE k == [l EXCEPT !.stage = "asked"]
<1>1. /\ l.n # 0 /\ l.n \in Nat /\ loading' = (loading \/ l.n = loadSeq)
      /\ loading' \in BOOLEAN /\ (loading' => loading \/ l.n = loadSeq)
      /\ UNCHANGED <<cached, sentTo, readTo, hidden, onWire, listed, badge, filter, loadSeq, active,
                     reading, hiding, agrees, leftOver>>
  BY DEF LoadAsks, InboxInv, InboxTypes, InboxLoad
<1>2. k \in InboxLoad /\ k.n = l.n /\ k.filter = l.filter /\ k.stage = "asked"
  BY DEF InboxInv, InboxTypes, InboxLoad
<1>3. CASE l.n = loadSeq
  <2>1. loads' = (loads \ {l}) \cup {k}
    BY <1>3 DEF LoadAsks
  <2> HIDE DEF k
  <2> QED BY <1>1, <1>2, <2>1, LoadGoesOn
<1>4. CASE l.n # loadSeq
  <2>1. loads' = loads \ {l} /\ (loading' => loading)
    BY <1>1, <1>4 DEF LoadAsks
  <2>2. loading' \in BOOLEAN
    BY <1>1
  <2>3. InboxTypes'
    BY <1>1, <2>1, <2>2 DEF InboxInv, InboxTypes
  <2>4. WireInOrder' /\ HidesServed'
    BY <1>1 DEF InboxInv, WireInOrder, HidesServed
  <2>5. LoadsKnown'
    BY <1>1, <2>1, LoadsStay DEF InboxInv
  <2>6. /\ Settled' => Settled
        /\ (\A q \in loads' : q.n # loadSeq) => \A q \in loads : q.n # loadSeq
    BY <1>1, <1>4, <2>1 DEF Settled
  <2>7. Shown'
    BY <1>1, <2>6, ShownStays DEF InboxInv
  <2>8. OfFilter' /\ Spins'
    BY <1>1, <1>4, <2>1, <2>6 DEF InboxInv, OfFilter, Spins, Matches
  <2> QED BY <2>3, <2>4, <2>5, <2>7, <2>8 DEF InboxInv
<1> QED BY <1>3, <1>4

LEMMA ListServedInbox ==
    ASSUME InboxInv, NEW l \in loads, ListServed(l)
    PROVE  InboxInv'
<1> DEFINE b == onWire = <<>> /\ reading = {}
<1>1. /\ loads' = (loads \ {l}) \cup
            {[l EXCEPT !.stage = "served", !.snap = ListChats(l.filter), !.clean = b]}
      /\ UNCHANGED <<cached, sentTo, readTo, hidden, onWire, listed, badge, filter, loading, loadSeq,
                     active, reading, hiding, agrees, leftOver>>
  BY DEF ListServed
<1>2. b \in BOOLEAN /\ (b => onWire = <<>>)
  OBVIOUS
<1>7. loading' \in BOOLEAN /\ (loading' => loading)
  BY <1>1 DEF InboxInv, InboxTypes
<1> HIDE DEF b
<1> DEFINE k == [l EXCEPT !.stage = "served", !.snap = ListChats(l.filter), !.clean = b]
<1>3. ListChats(l.filter) \in InboxSnap
  BY ListChatsSnap DEF InboxInv
<1>4. /\ k \in InboxLoad /\ k.n = l.n /\ k.filter = l.filter /\ k.stage = "served"
      /\ k.snap = ListChats(l.filter) /\ k.clean = b
  BY <1>2, <1>3 DEF InboxInv, InboxTypes, InboxLoad
<1> HIDE DEF k
<1>5. ASSUME k.filter \in {"chats", "groups"}, NEW c \in k.snap.chats
      PROVE  Matches(k.filter, c, 1)
  <2>1. c \in InboxChat
    BY <1>3, <1>4, <1>5 DEF InboxSnap
  <2>2. Matches(k.filter, c, Unread(c)) /\ Unread(c) \in Int
    BY <1>4, <1>5, <2>1, ListChatsSnap, UnreadInt DEF InboxInv
  <2> QED BY <1>5, <2>2, MatchesUnread
<1>6. loads' = (loads \ {l}) \cup {k}
  BY <1>1 DEF k
<1> QED BY <1>1, <1>2, <1>4, <1>5, <1>6, <1>7, LoadGoesOn

\* What the list is when an answer is shown, or was cached.
LEMMA AnswerTyped ==
    ASSUME NEW s \in InboxSnap, NEW x \in SUBSET s.chats
    PROVE  /\ x \subseteq InboxChat
           /\ [c \in InboxChat |-> IF c \in x THEN s.unread[c] ELSE 0] \in [InboxChat -> Nat]
<1> QED BY DEF InboxSnap

LEMMA ListAnsweredInbox ==
    ASSUME InboxInv, NEW l \in loads, ListAnswered(l)
    PROVE  InboxInv'
<1>1. /\ l.stage = "served" /\ loads' = loads \ {l} /\ loading' = (loading /\ l.n # loadSeq)
      /\ UNCHANGED <<sentTo, readTo, hidden, onWire, filter, loadSeq, active, reading, hiding>>
  BY DEF ListAnswered
<1>2. l \in InboxLoad /\ l.n \in Nat /\ l.snap \in InboxSnap /\ l.clean \in BOOLEAN
  BY DEF InboxInv, InboxTypes, InboxLoad
<1>3. /\ l.n = loadSeq => l.filter = filter
      /\ l.filter \in {"chats", "groups"} => \A c \in l.snap.chats : Matches(l.filter, c, 1)
      /\ l.clean => l.snap = ListChats(l.filter) /\ onWire = <<>>
  BY <1>1 DEF InboxInv, LoadsKnown
<1>4. WireInOrder' /\ HidesServed' /\ Spins'
  BY <1>1 DEF InboxInv, WireInOrder, HidesServed, Spins
<1>5. LoadsKnown' /\ loads' \subseteq InboxLoad /\ loading' \in BOOLEAN
  BY <1>1, LoadsStay DEF InboxInv, InboxTypes
<1>6. CASE Newest(l)
  <2>1. /\ listed' = l.snap.chats
        /\ badge' = [c \in InboxChat |-> IF c \in l.snap.chats THEN l.snap.unread[c] ELSE 0]
        /\ cached' = (IF l.n = 0 THEN cached ELSE l.snap)
        /\ agrees' = l.clean
        /\ leftOver' = (l.n = 0 /\ l.filter # filter)
    BY <1>6 DEF ListAnswered
  <2>2. listed' \subseteq InboxChat /\ badge' \in [InboxChat -> Nat] /\ cached' \in InboxSnap
    BY <1>2, <2>1, AnswerTyped DEF InboxInv, InboxTypes
  <2>3. agrees' \in BOOLEAN /\ leftOver' \in BOOLEAN
    BY <1>2, <2>1
  <2>4. InboxTypes'
    BY <1>1, <1>5, <2>2, <2>3 DEF InboxInv, InboxTypes
  <2>5. ~leftOver' => l.filter = filter
    BY <1>3, <1>6, <2>1 DEF Newest
  <2>6. OfFilter'
    BY <1>1, <1>3, <2>1, <2>5 DEF OfFilter, Matches
  <2>7. Shown'
    <3> SUFFICES ASSUME agrees', ~leftOver'
        PROVE  /\ \A c \in InboxChat : c \in listed' /\ c \notin hidden => InStep(c)'
               /\ \A c \in InboxChat : c \notin listed' /\ c \notin hidden =>
                     ~Matches(filter, c, Unread(c))'
               /\ \A c \in InboxChat : ~(c \in listed' /\ c \in hidden)
      BY <1>1 DEF Shown
    <3>1. l.snap = ListChats(filter) /\ onWire = <<>>
      BY <1>3, <2>1, <2>5
    <3>2. \A c \in InboxChat :
              /\ c \in listed' <=> c \notin hidden /\ Matches(filter, c, Unread(c))
              /\ c \in listed' => badge'[c] = Unread(c)
      BY <2>1, <3>1, ListChatsSnap DEF InboxInv
    <3>3. \A c \in InboxChat : Matches(filter, c, Unread(c))' = Matches(filter, c, Unread(c))
      BY <1>1 DEF Unread, Matches
    <3>4. ASSUME NEW c \in InboxChat, c \in listed'
          PROVE  InStep(c)'
      <4>1. badge'[c] + readTo[c] = sentTo[c]
        BY <3>2, <3>4 DEF Unread, InboxInv, InboxTypes
      <4>2. \A k \in Nat : ~OnWire(c, k)'
        BY <1>1, <3>1 DEF OnWire
      <4>3. sentTo[c] \in Nat /\ \A k \in Nat : ~(sentTo[c] < k /\ k <= sentTo[c])
        BY DEF InboxInv, InboxTypes
      <4>4. badge'[c] + readTo'[c] = sentTo'[c] /\ sentTo'[c] = sentTo[c]
        BY <1>1, <4>1
      <4> QED BY <3>2, <3>3, <3>4, <4>2, <4>3, <4>4 DEF InStep
    <3> QED BY <3>2, <3>3, <3>4
  <2> QED BY <1>4, <1>5, <2>4, <2>6, <2>7 DEF InboxInv
<1>7. CASE ~Newest(l)
  <2>1. UNCHANGED <<listed, badge, cached, agrees, leftOver>> /\ l.n # 0 /\ l.n # loadSeq
    BY <1>7 DEF ListAnswered, Newest
  <2>2. InboxTypes'
    BY <1>1, <1>5, <2>1 DEF InboxInv, InboxTypes
  <2>3. /\ Settled' => Settled
        /\ (\A q \in loads' : q.n # loadSeq) => \A q \in loads : q.n # loadSeq
    BY <1>1, <2>1 DEF Settled
  <2>4. Shown'
    BY <1>1, <2>1, <2>3, ShownStays DEF InboxInv
  <2>5. OfFilter'
    BY <1>1, <2>1, <2>3 DEF InboxInv, OfFilter, Matches
  <2> QED BY <1>4, <1>5, <2>2, <2>4, <2>5 DEF InboxInv
<1> QED BY <1>6, <1>7

LEMMA ListFailsInbox ==
    ASSUME InboxInv, NEW l \in loads, ListFails(l)
    PROVE  InboxInv'
<1>1. /\ loads' = loads \ {l} /\ loading' = (loading /\ l.n # loadSeq) /\ agrees' = FALSE
      /\ UNCHANGED <<cached, sentTo, readTo, hidden, onWire, filter, loadSeq, active, reading, hiding>>
  BY DEF ListFails
<1>2. l.n = loadSeq => l.filter = filter
  BY DEF InboxInv, LoadsKnown
<1>3. WireInOrder' /\ HidesServed' /\ Spins' /\ Shown'
  BY <1>1 DEF InboxInv, WireInOrder, HidesServed, Spins, Shown
<1>4. LoadsKnown' /\ loads' \subseteq InboxLoad /\ loading' \in BOOLEAN /\ agrees' \in BOOLEAN
  BY <1>1, LoadsStay DEF InboxInv, InboxTypes
<1>5. CASE l.n = loadSeq /\ cached.chats # {}
  <2> DEFINE x == {c \in cached.chats : Matches(l.filter, c, cached.unread[c])}
  <2>1. /\ listed' = x
        /\ badge' = [c \in InboxChat |-> IF c \in x THEN cached.unread[c] ELSE 0]
        /\ leftOver' = FALSE
    BY <1>5 DEF ListFails
  <2>2. listed' \subseteq InboxChat /\ badge' \in [InboxChat -> Nat]
    BY <2>1, AnswerTyped DEF InboxInv, InboxTypes
  <2>3. InboxTypes'
    BY <1>1, <1>4, <2>1, <2>2 DEF InboxInv, InboxTypes
  <2>4. ASSUME filter \in {"chats", "groups"}, NEW c \in x
        PROVE  Matches(filter, c, 1)
    <3>1. Matches(filter, c, cached.unread[c]) /\ cached.unread[c] \in Int
      BY <1>2, <1>5 DEF InboxInv, InboxTypes, InboxSnap
    <3> QED BY <2>4, <3>1, MatchesUnread
  <2>5. OfFilter'
    BY <1>1, <2>1, <2>4 DEF OfFilter, Matches
  <2> QED BY <1>3, <1>4, <2>3, <2>5 DEF InboxInv
<1>6. CASE ~(l.n = loadSeq /\ cached.chats # {})
  <2>1. UNCHANGED <<listed, badge>> /\ leftOver' = (leftOver \/ l.n = loadSeq)
    BY <1>6 DEF ListFails
  <2>2. leftOver' \in BOOLEAN /\ (~leftOver' => ~leftOver /\ l.n # loadSeq)
    BY <2>1
  <2>3. InboxTypes'
    BY <1>1, <1>4, <2>1, <2>2 DEF InboxInv, InboxTypes
  <2>4. OfFilter'
    BY <1>1, <2>1, <2>2 DEF InboxInv, OfFilter, Matches
  <2> QED BY <1>3, <1>4, <2>3, <2>4 DEF InboxInv
<1> QED BY <1>5, <1>6

\* The first event taken off the wire: the earliest of its chat.
LEMMA FirstEvent ==
    ASSUME InboxTypes, WireInOrder, onWire # <<>>, onWire' = Tail(onWire)
    PROVE  LET e == Head(onWire) IN
           /\ e \in ChatEvent /\ e.chat \in InboxChat /\ e.n \in Nat /\ e.n <= sentTo[e.chat]
           /\ onWire' \in Seq(ChatEvent)
           /\ OnWire(e.chat, e.n)
           /\ \A k \in Nat : OnWire(e.chat, k) => e.n <= k
           /\ \A c \in InboxChat, k \in Nat :
                 OnWire(c, k)' <=> OnWire(c, k) /\ ~(c = e.chat /\ k = e.n)
           /\ \A i \in DOMAIN onWire' : i + 1 \in DOMAIN onWire /\ onWire'[i] = onWire[i + 1]
<1> DEFINE e == Head(onWire)
<1>1. /\ onWire \in Seq(ChatEvent) /\ Len(onWire) \in Nat \ {0} /\ DOMAIN onWire = 1 .. Len(onWire)
      /\ e = onWire[1] /\ e \in ChatEvent /\ 1 \in DOMAIN onWire
  BY DEF InboxTypes
<1>2. /\ onWire' \in Seq(ChatEvent) /\ DOMAIN onWire' = 1 .. Len(onWire) - 1
      /\ \A i \in 1 .. Len(onWire) - 1 : onWire'[i] = onWire[i + 1]
  BY <1>1
<1>3. \A x \in ChatEvent : x.chat \in InboxChat /\ x.n \in Nat
  BY DEF ChatEvent
<1>4. \A i \in DOMAIN onWire : onWire[i] \in ChatEvent
  BY <1>1
<1>5. e.chat \in InboxChat /\ e.n \in Nat /\ e.n <= sentTo[e.chat]
  BY <1>1, <1>3 DEF WireInOrder
<1>6. \A i \in DOMAIN onWire' : i \in Nat /\ i >= 1 /\ i + 1 \in DOMAIN onWire /\ onWire'[i] = onWire[i + 1]
  BY <1>1, <1>2
<1> HIDE DEF e
<1>7. OnWire(e.chat, e.n)
  BY <1>1 DEF OnWire
<1>8. ASSUME NEW i \in DOMAIN onWire, i # 1, onWire[i].chat = e.chat
      PROVE  e.n < onWire[i].n
  <2>1. 1 < i
    BY <1>1, <1>8
  <2> QED BY <1>1, <1>8, <2>1 DEF WireInOrder
<1>9. ASSUME NEW k \in Nat, OnWire(e.chat, k)
      PROVE  e.n <= k
  <2>1. PICK i \in DOMAIN onWire : onWire[i].chat = e.chat /\ onWire[i].n = k
    BY <1>9 DEF OnWire
  <2>2. CASE i = 1
    BY <1>1, <1>5, <2>1, <2>2
  <2>3. CASE i # 1
    <3>1. e.n < k
      BY <1>8, <2>1, <2>3
    <3> QED BY <1>5, <3>1
  <2> QED BY <2>2, <2>3
<1>10. ASSUME NEW c \in InboxChat, NEW k \in Nat
       PROVE  OnWire(c, k)' <=> OnWire(c, k) /\ ~(c = e.chat /\ k = e.n)
  <2>1. ASSUME OnWire(c, k)'
        PROVE  OnWire(c, k) /\ ~(c = e.chat /\ k = e.n)
    <3>1. PICK i \in DOMAIN onWire' : onWire'[i].chat = c /\ onWire'[i].n = k
      BY <2>1 DEF OnWire
    <3>2. i + 1 \in DOMAIN onWire /\ onWire[i + 1].chat = c /\ onWire[i + 1].n = k /\ i + 1 # 1
      BY <1>6, <3>1
    <3>3. OnWire(c, k)
      BY <3>2 DEF OnWire
    <3>4. ASSUME c = e.chat, k = e.n
          PROVE  FALSE
      <4>1. e.n < k
        BY <1>8, <3>2, <3>4
      <4> QED BY <1>5, <3>4, <4>1
    <3> QED BY <3>3, <3>4
  <2>2. ASSUME OnWire(c, k), ~(c = e.chat /\ k = e.n)
        PROVE  OnWire(c, k)'
    <3>1. PICK i \in DOMAIN onWire : onWire[i].chat = c /\ onWire[i].n = k
      BY <2>2 DEF OnWire
    <3>2. i # 1
      BY <1>1, <2>2, <3>1
    <3>3. i - 1 \in 1 .. Len(onWire) - 1 /\ (i - 1) + 1 = i
      BY <1>1, <3>2
    <3>4. i - 1 \in DOMAIN onWire' /\ onWire'[i - 1] = onWire[i]
      BY <1>2, <3>3
    <3> QED BY <3>1, <3>4 DEF OnWire
  <2> QED BY <2>1, <2>2
<1> QED BY <1>1, <1>2, <1>5, <1>6, <1>7, <1>9, <1>10 DEF e

LEMMA EventArrivesInbox ==
    ASSUME InboxInv, EventArrives
    PROVE  InboxInv'
<1> USE InboxAssumption DEF InboxAssumption
<1>a. onWire # <<>> /\ onWire' = Tail(onWire)
  BY DEF EventArrives
<1>b. Head(onWire) \in ChatEvent /\ Head(onWire).chat \in InboxChat
  BY <1>a, FirstEvent DEF InboxInv
<1>c. PICK e \in ChatEvent : e = Head(onWire)
  BY <1>b
<1>d. PICK c \in InboxChat : c = e.chat
  BY <1>b, <1>c
<1> DEFINE kept == filter \in {"all", "unread"} \/ Matches(filter, c, 1)
<1>1. /\ onWire # <<>> /\ onWire' = Tail(onWire)
      /\ reading' = (IF active = c THEN reading \cup {e} ELSE reading)
      /\ agrees' = (agrees /\ e.n > readTo[c])
      /\ UNCHANGED <<cached, sentTo, readTo, hidden, filter, loading, loadSeq, active, hiding, leftOver>>
  BY <1>c, <1>d DEF EventArrives
<1>2. /\ e \in ChatEvent /\ c \in InboxChat /\ e.n \in Nat /\ e.n <= sentTo[c]
      /\ onWire' \in Seq(ChatEvent)
      /\ OnWire(c, e.n)
      /\ \A k \in Nat : OnWire(c, k) => e.n <= k
      /\ \A d \in InboxChat, k \in Nat : OnWire(d, k)' <=> OnWire(d, k) /\ ~(d = c /\ k = e.n)
      /\ \A i \in DOMAIN onWire' : i + 1 \in DOMAIN onWire /\ onWire'[i] = onWire[i + 1]
  BY <1>1, <1>c, <1>d, FirstEvent DEF InboxInv
<1>3. e.chat = c /\ agrees' \in BOOLEAN /\ (agrees' => agrees)
  BY <1>1, <1>d
<1> HIDE DEF kept
<1>4. reading' \subseteq ChatEvent /\ \A r \in reading' : r.n <= sentTo[r.chat]
  BY <1>1, <1>2, <1>3 DEF InboxInv, InboxTypes, WireInOrder
<1>5. WireInOrder'
  <2>1. ASSUME NEW i \in DOMAIN onWire'
        PROVE  onWire'[i].n <= sentTo[onWire'[i].chat]
    BY <1>2, <2>1 DEF InboxInv, WireInOrder
  <2>2. ASSUME NEW i \in DOMAIN onWire', NEW j \in DOMAIN onWire', i < j,
               onWire'[i].chat = onWire'[j].chat
        PROVE  onWire'[i].n < onWire'[j].n
    <3>1. i + 1 \in DOMAIN onWire /\ j + 1 \in DOMAIN onWire /\ i + 1 < j + 1
      BY <1>2, <2>2
    <3> QED BY <1>2, <2>2, <3>1 DEF InboxInv, WireInOrder
  <2>3. \A d \in InboxChat : readTo'[d] <= sentTo'[d]
    BY <1>1 DEF InboxInv, WireInOrder
  <2> QED BY <1>1, <1>4, <2>1, <2>2, <2>3 DEF WireInOrder
<1>6. HidesServed'
  BY <1>1 DEF InboxInv, HidesServed
<1>7. CASE c \notin listed
  <2>1. SoftLoad /\ UNCHANGED <<listed, badge>>
    BY <1>7, <1>c, <1>d DEF EventArrives
  <2>2. loads' \subseteq InboxLoad /\ LoadsKnown' /\ Shown' /\ Spins' /\ loads \subseteq loads'
    BY <1>1, <2>1, SoftBegins
  <2>3. InboxTypes'
    BY <1>1, <1>2, <1>3, <1>4, <2>1, <2>2 DEF InboxInv, InboxTypes
  <2>4. OfFilter'
    BY <1>1, <2>1, <2>2 DEF InboxInv, OfFilter, Matches
  <2> QED BY <1>5, <1>6, <2>2, <2>3, <2>4 DEF InboxInv
<1>8. CASE c \in listed
  <2>1. /\ listed' = (IF kept THEN listed ELSE listed \ {c})
        /\ badge' = [badge EXCEPT ![c] = IF ~kept \/ active = c THEN 0 ELSE @ + 1]
        /\ UNCHANGED loads
    BY <1>8, <1>c, <1>d DEF EventArrives, kept
  <2>2. listed' \subseteq listed /\ badge' \in [InboxChat -> Nat]
    BY <1>2, <2>1 DEF InboxInv, InboxTypes
  <2>3. InboxTypes'
    BY <1>1, <1>2, <1>3, <1>4, <2>1, <2>2 DEF InboxInv, InboxTypes
  <2>4. LoadsKnown'
    <3>1. \A f : ListChats(f)' = ListChats(f)
      BY <1>1 DEF ListChats, Unread
    <3> QED BY <1>1, <2>1, <3>1 DEF InboxInv, LoadsKnown, Matches
  <2>5. OfFilter' /\ Spins' /\ (Settled' => Settled)
    BY <1>1, <2>1, <2>2 DEF InboxInv, OfFilter, Spins, Settled, Matches
  <2>6. \A d \in InboxChat : Matches(filter, d, Unread(d))' = Matches(filter, d, Unread(d))
    BY <1>1 DEF Unread, Matches
  <2>7. ASSUME NEW d \in InboxChat, d # c
        PROVE  InStep(d)' = InStep(d)
    <3>1. badge'[d] = badge[d]
      BY <2>1, <2>7 DEF InboxInv, InboxTypes
    <3>2. \A k \in Nat : OnWire(d, k)' <=> OnWire(d, k)
      BY <1>2, <2>7
    <3> QED BY <1>1, <2>6, <3>1, <3>2 DEF InStep
  <2>8. ASSUME InStep(c), kept, active # c
        PROVE  InStep(c)'
    <3> DEFINE a == badge[c] + readTo[c]
    <3>1. /\ Matches(filter, c, Unread(c)) /\ a <= sentTo[c] /\ a \in Nat /\ sentTo[c] \in Nat
          /\ \A k \in Nat : OnWire(c, k) <=> a < k /\ k <= sentTo[c]
      BY <1>2, <2>8 DEF InStep, InboxInv, InboxTypes
    <3>2. badge'[c] + readTo'[c] = a + 1 /\ sentTo'[c] = sentTo[c]
      BY <1>1, <1>2, <2>1, <2>8 DEF InboxInv, InboxTypes
    <3> HIDE DEF a
    <3>3. a < e.n /\ e.n <= sentTo[c]
      BY <1>2, <3>1
    <3>4. OnWire(c, a + 1)
      BY <1>2, <3>1, <3>3
    <3>5. e.n = a + 1
      BY <1>2, <3>1, <3>3, <3>4
    <3>6. ASSUME NEW k \in Nat
          PROVE  OnWire(c, k)' <=> a + 1 < k /\ k <= sentTo[c]
      <4>1. OnWire(c, k)' <=> OnWire(c, k) /\ k # e.n
        BY <1>2
      <4>2. OnWire(c, k) <=> a < k /\ k <= sentTo[c]
        BY <3>1
      <4>3. a < k /\ k # a + 1 <=> a + 1 < k
        BY <3>1
      <4> QED BY <3>5, <4>1, <4>2, <4>3
    <3>7. a + 1 <= sentTo[c]
      BY <3>3, <3>5
    <3>8. Matches(filter, c, Unread(c))'
      BY <1>2, <2>6, <3>1
    <3> QED BY <3>2, <3>6, <3>7, <3>8 DEF InStep
  <2>9. ASSUME ~kept, Matches(filter, c, Unread(c))
        PROVE  FALSE
    <3>1. filter # "unread" /\ ~Matches(filter, c, 1)
      BY <2>9 DEF kept
    <3>2. Unread(c) \in Int
      BY <1>2, UnreadInt DEF InboxInv
    <3> QED BY <2>9, <3>1, <3>2, MatchesUnread
  <2>10. Shown'
    <3> SUFFICES ASSUME agrees', ~leftOver', Settled'
      PROVE  /\ \A d \in InboxChat : d \in listed' /\ d \notin hidden /\ d # active => InStep(d)'
             /\ \A d \in InboxChat : d \notin listed' /\ d \notin hidden /\ d # active =>
                   (Matches(filter, d, Unread(d))' => \E k \in Nat : OnWire(d, k)')
             /\ \A d \in InboxChat : d \in listed' /\ d \in hidden =>
                   \E f \in hiding : f.served /\ f.chat = d
      BY <1>1 DEF Shown
    <3>1. agrees /\ ~leftOver /\ Settled
      BY <1>1, <1>3, <2>5
    <3>2. /\ \A d \in InboxChat : d \in listed /\ d \notin hidden /\ d # active => InStep(d)
          /\ \A d \in InboxChat : d \notin listed /\ d \notin hidden /\ d # active =>
                (Matches(filter, d, Unread(d)) => \E k \in Nat : OnWire(d, k))
          /\ \A d \in InboxChat : d \in listed /\ d \in hidden =>
                \E f \in hiding : f.served /\ f.chat = d
      BY <3>1 DEF InboxInv, Shown
    <3>3. ASSUME NEW d \in InboxChat, d \in listed', d \notin hidden, d # active
          PROVE  InStep(d)'
      <4>1. InStep(d)
        BY <2>2, <3>2, <3>3
      <4>2. CASE d = c
        <5>1. kept
          BY <2>1, <3>3, <4>2
        <5> QED BY <2>8, <3>3, <4>1, <4>2, <5>1
      <4>3. CASE d # c
        BY <2>7, <4>1, <4>3
      <4> QED BY <4>2, <4>3
    <3>4. ASSUME NEW d \in InboxChat, d \notin listed', d \notin hidden, d # active,
                 Matches(filter, d, Unread(d))'
          PROVE  \E k \in Nat : OnWire(d, k)'
      <4>1. Matches(filter, d, Unread(d))
        BY <2>6, <3>4
      <4>2. d # c
        BY <1>8, <2>1, <2>9, <3>4, <4>1
      <4>3. d \notin listed
        BY <2>1, <3>4, <4>2
      <4>4. \E k \in Nat : OnWire(d, k)
        BY <3>2, <3>4, <4>1, <4>3
      <4> QED BY <1>2, <4>2, <4>4
    <3>5. ASSUME NEW d \in InboxChat, d \in listed', d \in hidden
          PROVE  \E f \in hiding : f.served /\ f.chat = d
      BY <2>2, <3>2, <3>5
    <3> QED BY <3>3, <3>4, <3>5
  <2> QED BY <1>5, <1>6, <2>3, <2>4, <2>5, <2>10 DEF InboxInv
<1> QED BY <1>7, <1>8

LEMMA InboxNextKeeps == InboxInv /\ [InboxNext]_inboxVars => InboxInv'
<1> SUFFICES ASSUME InboxInv, [InboxNext]_inboxVars
             PROVE  InboxInv'
  OBVIOUS
<1>1. ASSUME NEW c \in InboxChat, PeerSends(c) PROVE InboxInv'
  BY <1>1, PeerSendsInbox
<1>2. ASSUME NEW l \in loads, LoadAsks(l) PROVE InboxInv'
  BY <1>2, LoadAsksInbox
<1>3. ASSUME NEW l \in loads, ListServed(l) PROVE InboxInv'
  BY <1>3, ListServedInbox
<1>4. ASSUME NEW l \in loads, ListAnswered(l) PROVE InboxInv'
  BY <1>4, ListAnsweredInbox
<1>5. ASSUME NEW l \in loads, ListFails(l) PROVE InboxInv'
  BY <1>5, ListFailsInbox
<1>6. ASSUME NEW f \in InboxFilter, ChangeFilter(f) PROVE InboxInv'
  BY <1>6, ChangeFilterInbox
<1>7. ASSUME PullRefresh PROVE InboxInv'
  BY <1>7, PullRefreshInbox
<1>8. ASSUME TabRefresh PROVE InboxInv'
  BY <1>8, TabRefreshInbox
<1>9. ASSUME EventArrives PROVE InboxInv'
  BY <1>9, EventArrivesInbox
<1>10. ASSUME NEW c \in InboxChat, OpenConversation(c) PROVE InboxInv'
  BY <1>10, OpenConversationInbox
<1>11. ASSUME ChatLoads PROVE InboxInv'
  BY <1>11, ChatLoadsInbox
<1>12. ASSUME NEW r \in reading, ReadServed(r) PROVE InboxInv'
  BY <1>12, ReadServedInbox
<1>13. ASSUME NEW r \in reading, ReadFails(r) PROVE InboxInv'
  BY <1>13, ReadFailsInbox
<1>14. ASSUME Back PROVE InboxInv'
  BY <1>14, BackInbox
<1>15. ASSUME NEW c \in InboxChat, Hide(c) PROVE InboxInv'
  BY <1>15, HideInbox
<1>16. ASSUME NEW h \in hiding, HideServed(h) PROVE InboxInv'
  BY <1>16, HideServedInbox
<1>17. ASSUME NEW h \in hiding, HideAnswered(h) PROVE InboxInv'
  BY <1>17, HideAnsweredInbox
<1>18. ASSUME NEW h \in hiding, BulkHideAnswered(h) PROVE InboxInv'
  BY <1>18, BulkHideAnsweredInbox
<1>19. ASSUME NEW h \in hiding, HideFails(h) PROVE InboxInv'
  BY <1>19, HideFailsInbox
<1>20. ASSUME UNCHANGED inboxVars PROVE InboxInv'
  <2>1. /\ agrees' \in BOOLEAN /\ reading' \subseteq ChatEvent
        /\ hiding' \subseteq [chat : InboxChat, served : BOOLEAN]
        /\ active' \in InboxChat \cup {NoInboxChat}
        /\ \A q \in reading' : q.n <= sentTo[q.chat]
        /\ \A f, g \in hiding' : f = g
    BY <1>20 DEF inboxVars, InboxInv, InboxTypes, WireInOrder, HidesServed
  <2> QED BY <1>20, <2>1, ListStays DEF inboxVars
<1> QED BY <1>1, <1>2, <1>3, <1>4, <1>5, <1>6, <1>7, <1>8, <1>9, <1>10, <1>11, <1>12, <1>13, <1>14,
   <1>15, <1>16, <1>17, <1>18, <1>19, <1>20 DEF InboxNext

\* Once nothing is on its way the list is what the backend would answer, and its
\* badges count what is unread, unless something overtook the answer it came from;
\* a spinner has its load; chats of another filter do not stay: InboxShows is an
\* invariant.
THEOREM InboxAgrees == InboxSpec => []InboxShows
<1>1. InboxInv => InboxShows
  <2> SUFFICES ASSUME InboxInv PROVE InboxShows
    OBVIOUS
  <2>1. loading => \E l \in loads : l.n = loadSeq
    BY DEF InboxInv, Spins
  <2>2. ASSUME Quiet, agrees, ~leftOver
        PROVE  /\ listed = ListChats(filter).chats
               /\ \A c \in listed : badge[c] = Unread(c)
    <3> USE InboxAssumption DEF InboxAssumption
    <3>1. loads = {} /\ hiding = {} /\ onWire = <<>> /\ active = NoInboxChat
      BY <2>2 DEF Quiet
    <3>2. Settled /\ \A c \in InboxChat : c # active
      BY <3>1 DEF Settled
    <3>3. \A c, k : ~OnWire(c, k)
      BY <3>1 DEF OnWire
    <3>4. /\ \A c \in InboxChat : c \in listed /\ c \notin hidden => InStep(c)
          /\ \A c \in InboxChat : c \notin listed /\ c \notin hidden => ~Matches(filter, c, Unread(c))
          /\ \A c \in InboxChat : ~(c \in listed /\ c \in hidden)
      BY <2>2, <3>1, <3>2, <3>3 DEF InboxInv, Shown
    <3>5. listed \subseteq InboxChat
      BY DEF InboxInv, InboxTypes
    <3>6. \A c \in InboxChat : c \in listed <=> c \notin hidden /\ Matches(filter, c, Unread(c))
      BY <3>4 DEF InStep
    <3>7. listed = ListChats(filter).chats
      <4>1. ListChats(filter).chats \subseteq InboxChat
        BY ListChatsSnap DEF InboxInv, InboxSnap
      <4> QED BY <3>5, <3>6, <4>1, ListChatsSnap DEF InboxInv
    <3>8. ASSUME NEW c \in listed
          PROVE  badge[c] = Unread(c)
      <4>1. badge[c] \in Nat /\ readTo[c] \in Nat /\ sentTo[c] \in Nat
        BY <3>5 DEF InboxInv, InboxTypes
      <4>2. /\ badge[c] + readTo[c] <= sentTo[c]
            /\ OnWire(c, sentTo[c]) <=> badge[c] + readTo[c] < sentTo[c] /\ sentTo[c] <= sentTo[c]
        BY <3>4, <3>5, <4>1 DEF InStep
      <4> QED BY <3>3, <4>1, <4>2 DEF Unread
    <3> QED BY <3>7, <3>8
  <2>3. ASSUME \A l \in loads : l.n = 0, filter \in {"chats", "groups"}, ~leftOver
        PROVE  \A c \in listed : Matches(filter, c, 1)
    <3>1. \A l \in loads : l.n # loadSeq
      BY <2>3 DEF InboxInv, InboxTypes
    <3> QED BY <2>3, <3>1 DEF InboxInv, OfFilter
  <2> QED BY <2>1, <2>2, <2>3 DEF InboxShows
<1> QED BY <1>1, InboxBegins, InboxNextKeeps, PTL DEF InboxSpec
================================================================================
