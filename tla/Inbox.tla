---------------------------------- MODULE Inbox ----------------------------------
(***************************************************************************)
(* The list of conversations of one user (messages_screen.dart): loaded    *)
(* for the chosen filter with a sequence number, reloaded softly without   *)
(* one by a tab or an event (main_screen.dart, realtime_sync_service.dart),*)
(* changed in place by new_message events, by opening and leaving a chat,  *)
(* and by hiding one.  The backend counts what is unread and not hidden.   *)
(* Every call runs while the others, and the events, go on.                *)
(***************************************************************************)
EXTENDS Naturals, Sequences, SequencesExt, FiniteSets

CONSTANTS InboxChat, GroupChat,  \* the chats; those that are groups
          InboxFilter,           \* MessagesListFilter
          NoInboxChat,
          MaxSent, MaxLoads   \* bounds: messages, and loads of both kinds

ASSUME InboxAssumption ==
    /\ GroupChat \subseteq InboxChat /\ NoInboxChat \notin InboxChat
    /\ {"all"} \subseteq InboxFilter /\ InboxFilter \subseteq {"all", "unread", "chats", "groups"}

VARIABLES
    sentTo,      \* messages sent to each chat by its others, all of them
    readTo,      \* of those, the ones with a message_reads row
    hidden,      \* chat_hidden of Redis
    onWire,      \* new_message events on their way
    listed, badge,       \* state.conversations: the chats, and unread of each
    cached,      \* OfflineChatStore: the last answer of a _load, of any filter
    filter, loading, loadSeq, active,
    loads,       \* calls of listChats: by _load (with their number) and softly (0)
    reading,     \* calls of markRead
    hiding,      \* calls of hideChat: before and after the backend served them
    agrees,      \* history: the list last came from an answer that nothing overtook
    leftOver,     \* history: it is of a filter left meanwhile: it came softly,
                 \* or nothing could replace it
    reloads      \* soft reloads, for the bound

inboxVars == <<sentTo, readTo, hidden, onWire, listed, badge, cached, filter, loading, loadSeq, active,
               loads, reading, hiding, agrees, leftOver, reloads>>

NoSnap == [chats |-> {}, unread |-> [c \in InboxChat |-> 0]]

NewLoad(n, f, stage) == [n |-> n, filter |-> f, stage |-> stage, snap |-> NoSnap, clean |-> TRUE]

InboxInit ==
    /\ sentTo = [c \in InboxChat |-> 0] /\ readTo = [c \in InboxChat |-> 0]
    /\ hidden = {} /\ onWire = <<>>
    /\ listed = {} /\ badge = [c \in InboxChat |-> 0]
    /\ cached \in {NoSnap, [NoSnap EXCEPT !.chats = InboxChat]}
    /\ filter = "all" /\ loading = TRUE
    /\ loadSeq = 1 /\ active = NoInboxChat
    /\ loads = {NewLoad(1, filter, "connect")}
    /\ reading = {} /\ hiding = {} /\ agrees = FALSE /\ leftOver = FALSE /\ reloads = 0

\* _unread_count
Unread(c) == sentTo[c] - readTo[c]

Matches(f, c, unread) == CASE f = "groups" -> c \in GroupChat
                           [] f = "chats"  -> c \notin GroupChat
                           [] f = "unread" -> unread > 0
                           [] OTHER        -> TRUE

\* list_chats: what is not hidden, of the type asked for; sorted by unread, only those
\* that have some.
ListChats(f) == [chats  |-> {c \in InboxChat \ hidden : Matches(f, c, Unread(c))},
                 unread |-> [c \in InboxChat |-> IF c \in hidden THEN 0 ELSE Unread(c)]]

\* Something changed that the snapshots taken do not show.
Spoiled == {[l EXCEPT !.clean = l.stage # "served"] : l \in loads}

\* A message of another member: stored, and its event sent.
PeerSends(c) ==
    /\ FoldFunction(LAMBDA x, y : x + y, 0, sentTo) < MaxSent
    /\ sentTo' = [sentTo EXCEPT ![c] = @ + 1]
    /\ onWire' = Append(onWire, [chat |-> c, n |-> sentTo[c] + 1])
    /\ loads' = Spoiled
    /\ UNCHANGED <<cached, readTo, hidden, listed, badge, filter, loading, loadSeq, active, reading,
                   hiding, agrees, leftOver, reloads>>

\* _load: a new number and the filter of now, then the connection.
Load(f) ==
    /\ loadSeq + reloads < MaxLoads
    /\ loadSeq' = loadSeq + 1
    /\ loads' = loads \cup {NewLoad(loadSeq + 1, f, "connect")}

\* A soft reload takes no number and asks at once.
SoftLoad ==
    /\ loadSeq + reloads < MaxLoads
    /\ reloads' = reloads + 1
    /\ loads' = loads \cup {NewLoad(0, filter, "asked")}

\* Connected: only the newest load goes on.
LoadAsks(l) ==
    /\ l.n # 0 /\ l.stage = "connect"
    /\ loads' = IF l.n = loadSeq THEN (loads \ {l}) \cup {[l EXCEPT !.stage = "asked"]}
                ELSE loads \ {l}
    /\ loading' = (loading \/ l.n = loadSeq)
    /\ UNCHANGED <<cached, sentTo, readTo, hidden, onWire, listed, badge, filter, loadSeq, active,
                   reading, hiding, agrees, leftOver, reloads>>

ListServed(l) ==
    /\ l.stage = "asked"
    /\ loads' = (loads \ {l}) \cup
          {[l EXCEPT !.stage = "served", !.snap = ListChats(l.filter),
                     !.clean = onWire = <<>> /\ reading = {}]}
    /\ UNCHANGED <<cached, sentTo, readTo, hidden, onWire, listed, badge, filter, loading, loadSeq,
                   active, reading, hiding, agrees, leftOver, reloads>>

\* Mutated form: any answer is shown.
NewestAny(l) == TRUE

\* An answer is shown if no newer load began; a soft one always.
Newest(l) == l.n \in {0, loadSeq}

ListAnswered(l) ==
    /\ l.stage = "served"
    /\ loads' = loads \ {l}
    /\ IF Newest(l)
       THEN /\ listed' = l.snap.chats
            /\ badge' = [c \in InboxChat |-> IF c \in listed' THEN l.snap.unread[c] ELSE 0]
            /\ cached' = IF l.n = 0 THEN cached ELSE l.snap
            /\ agrees' = l.clean
            /\ leftOver' = (l.n = 0 /\ l.filter # filter)
       ELSE UNCHANGED <<listed, badge, cached, agrees, leftOver>>
    /\ loading' = (loading /\ l.n # loadSeq)
    /\ UNCHANGED <<sentTo, readTo, hidden, onWire, filter, loadSeq, active, reading, hiding, reloads>>

\* A failed load shows what was cached, filtered anew, or leaves the list if
\* nothing was; a failed soft one leaves it.
ListFails(l) ==
    /\ l.stage = "asked"
    /\ loads' = loads \ {l}
    /\ IF l.n = loadSeq /\ cached.chats # {}
       THEN /\ listed' = {c \in cached.chats : Matches(l.filter, c, cached.unread[c])}
            /\ badge' = [c \in InboxChat |-> IF c \in listed' THEN cached.unread[c] ELSE 0]
            /\ leftOver' = FALSE
       ELSE /\ UNCHANGED <<listed, badge>>
            /\ leftOver' = (leftOver \/ l.n = loadSeq)
    /\ agrees' = FALSE
    /\ loading' = (loading /\ l.n # loadSeq)
    /\ UNCHANGED <<cached, sentTo, readTo, hidden, onWire, filter, loadSeq, active, reading, hiding,
                   reloads>>

\* ChangeMessagesFilter
ChangeFilter(f) ==
    /\ active = NoInboxChat /\ f # filter
    /\ filter' = f
    /\ Load(f)
    /\ UNCHANGED <<cached, sentTo, readTo, hidden, onWire, listed, badge, loading, active, reading,
                   hiding, agrees, leftOver, reloads>>

\* RefreshConversations
PullRefresh ==
    /\ active = NoInboxChat
    /\ Load(filter)
    /\ UNCHANGED <<cached, sentTo, readTo, hidden, onWire, listed, badge, filter, loading, active, reading,
                   hiding, agrees, leftOver, reloads>>

\* A tap on the tab reloads softly.
TabRefresh ==
    /\ active = NoInboxChat
    /\ SoftLoad
    /\ UNCHANGED <<cached, sentTo, readTo, hidden, onWire, listed, badge, filter, loading, loadSeq,
                   active, reading, hiding, agrees, leftOver>>

\* _onNewMessage.  In the open chat it is read at once; a chat the filter does not
\* show is dropped; one that is not listed is fetched softly.
EventArrives ==
    LET c == Head(onWire).chat IN
    /\ onWire # <<>>
    /\ onWire' = Tail(onWire)
    /\ IF c \in listed
       THEN LET shown == filter \in {"all", "unread"} \/ Matches(filter, c, 1) IN
            /\ listed' = IF shown THEN listed ELSE listed \ {c}
            /\ badge' = [badge EXCEPT ![c] = IF ~shown \/ active = c THEN 0 ELSE @ + 1]
            /\ UNCHANGED <<loads, reloads>>
       ELSE SoftLoad /\ UNCHANGED <<listed, badge>>
    /\ reading' = IF active = c THEN reading \cup {Head(onWire)} ELSE reading
    /\ agrees' = (agrees /\ Head(onWire).n > readTo[c])
    /\ UNCHANGED <<cached, sentTo, readTo, hidden, filter, loading, loadSeq, active, hiding, leftOver>>

\* OpenConversation: the chat is pushed; its own load marks what it shows as read.
OpenConversation(c) ==
    /\ active = NoInboxChat /\ c \in listed
    /\ active' = c
    /\ UNCHANGED <<cached, sentTo, readTo, hidden, onWire, listed, badge, filter, loading, loadSeq,
                   loads, reading, hiding, agrees, leftOver, reloads>>

ChatLoads ==
    /\ active # NoInboxChat /\ Unread(active) > 0
    /\ reading' = reading \cup {[chat |-> active, n |-> sentTo[active]]}
    /\ UNCHANGED <<cached, sentTo, readTo, hidden, onWire, listed, badge, filter, loading, loadSeq,
                   active, loads, hiding, agrees, leftOver, reloads>>

ReadServed(r) ==
    /\ readTo' = [readTo EXCEPT ![r.chat] = IF @ < r.n THEN r.n ELSE @]
    /\ reading' = reading \ {r}
    /\ loads' = Spoiled
    /\ agrees' = (agrees /\ (r.chat = active \/ r.n <= readTo[r.chat]))
    /\ UNCHANGED <<cached, sentTo, hidden, onWire, listed, badge, filter, loading, loadSeq, active,
                   hiding, leftOver, reloads>>

ReadFails(r) ==
    /\ reading' = reading \ {r}
    /\ UNCHANGED <<cached, sentTo, readTo, hidden, onWire, listed, badge, filter, loading, loadSeq, active,
                   loads, hiding, agrees, leftOver, reloads>>

\* Leaving the chat clears its badge, and the list is loaded.
Back ==
    /\ active # NoInboxChat
    /\ active' = NoInboxChat
    /\ badge' = [badge EXCEPT ![active] = 0]
    /\ agrees' = FALSE
    /\ Load(filter)
    /\ UNCHANGED <<cached, sentTo, readTo, hidden, onWire, listed, filter, loading, reading, hiding,
                   leftOver, reloads>>

\* deleteChat of the long press: the backend hides it, then it leaves the list;
\* BulkHideSelected loads the list instead.
Hide(c) ==
    /\ active = NoInboxChat /\ c \in listed \ hidden /\ hiding = {}
    /\ hiding' = {[chat |-> c, served |-> FALSE]}
    /\ UNCHANGED <<cached, sentTo, readTo, hidden, onWire, listed, badge, filter, loading, loadSeq,
                   active, loads, reading, agrees, leftOver, reloads>>

HideServed(h) ==
    /\ ~h.served
    /\ hidden' = hidden \cup {h.chat}
    /\ hiding' = {[h EXCEPT !.served = TRUE]}
    /\ loads' = Spoiled
    /\ UNCHANGED <<cached, sentTo, readTo, onWire, listed, badge, filter, loading, loadSeq, active, reading,
                   agrees, leftOver, reloads>>

HideAnswered(h) ==
    /\ h.served
    /\ hiding' = {}
    /\ listed' = listed \ {h.chat}
    /\ badge' = [badge EXCEPT ![h.chat] = 0]
    /\ UNCHANGED <<cached, sentTo, readTo, hidden, onWire, filter, loading, loadSeq, active, loads, reading,
                   agrees, leftOver, reloads>>

BulkHideAnswered(h) ==
    /\ h.served
    /\ hiding' = {}
    /\ agrees' = FALSE
    /\ Load(filter)
    /\ UNCHANGED <<cached, sentTo, readTo, hidden, onWire, listed, badge, filter, loading, active, reading,
                   leftOver, reloads>>

HideFails(h) ==
    /\ hiding' = {}
    /\ agrees' = FALSE
    /\ UNCHANGED <<cached, sentTo, readTo, hidden, onWire, listed, badge, filter, loading, loadSeq,
                   active, loads, reading, leftOver, reloads>>

InboxNext ==
    \/ \E c \in InboxChat : PeerSends(c)
    \/ \E l \in loads : LoadAsks(l)
    \/ \E l \in loads : ListServed(l)
    \/ \E l \in loads : ListAnswered(l)
    \/ \E l \in loads : ListFails(l)
    \/ \E f \in InboxFilter : ChangeFilter(f)
    \/ PullRefresh
    \/ TabRefresh
    \/ EventArrives
    \/ \E c \in InboxChat : OpenConversation(c)
    \/ ChatLoads
    \/ \E r \in reading : ReadServed(r)
    \/ \E r \in reading : ReadFails(r)
    \/ Back
    \/ \E c \in InboxChat : Hide(c)
    \/ \E h \in hiding : HideServed(h)
    \/ \E h \in hiding : HideAnswered(h)
    \/ \E h \in hiding : BulkHideAnswered(h)
    \/ \E h \in hiding : HideFails(h)

InboxSpec == InboxInit /\ [][InboxNext]_inboxVars

(***************************************************************************)
(* Properties                                                              *)
(***************************************************************************)

Quiet == loads = {} /\ reading = {} /\ hiding = {} /\ onWire = <<>> /\ active = NoInboxChat

\* Once nothing is on its way, the list is what the backend would answer for the
\* chosen filter, badge by badge, if nothing overtook the answer it came from:
\* the events applied in place add up to the same.  A spinner that turns has a
\* load of the newest number behind it; and whatever overtook an answer, the
\* chats of another filter are not left in the list, but by a soft reload, or
\* when nothing was cached to replace them.
InboxShows ==
    /\ loading => \E l \in loads : l.n = loadSeq
    /\ Quiet /\ agrees /\ ~leftOver =>
          /\ listed = ListChats(filter).chats
          /\ \A c \in listed : badge[c] = Unread(c)
    /\ (\A l \in loads : l.n = 0) /\ filter \in {"chats", "groups"} /\ ~leftOver =>
          \A c \in listed : Matches(filter, c, 1)
================================================================================
