---------------------------- MODULE ChatBubbles -----------------------------
(***************************************************************************)
(* The open chat screen above ChatSend: the bubbles of the user's own      *)
(* messages.  A bubble carries the client id while it is pending and the   *)
(* server id afterwards, and four callbacks turn one into the other: the   *)
(* composer's answer (chat_screen.dart), the flush's answer                *)
(* (offline_outbox_service.dart), the new_message event                    *)
(* (realtime_sync_service.dart) and the reload of the chat.  The event is  *)
(* published before the backend commits, so it may come before the answer, *)
(* or for a row that is rolled back.                                       *)
(***************************************************************************)
EXTENDS ChatSend

VARIABLES
    open,       \* the chat is on the screen
    pend,       \* bubbles under the client id of each message
    shown,      \* bubbles under each server id
    live,       \* composer calls started by the screen that is open
    echoes,     \* new_message events on their way to the device
    load,       \* the reload under way, and the rows in its answer
    cache       \* rows kept on disk by the last reload

screen == <<open, pend, shown, live, load>>
bubbleVars == <<vars, screen, echoes, cache>>

\* The n-th insert of a message gets a server id of its own.
Row == Message \X (0 .. MaxRollback)
RowOf(m) == <<m, burnt[m]>>

NoBubbles == [m \in Message |-> 0]
NoRows == [x \in Row |-> 0]

NoLoad == [step |-> "none", rows |-> {}]

BubbleInit ==
    /\ Init
    /\ open = FALSE /\ load = NoLoad /\ live = {}
    /\ pend = NoBubbles /\ shown = NoRows
    /\ echoes = {} /\ cache = {}

\* Replace the pending bubble of m by row x.
Resolve(m, x) ==
    /\ pend' = [pend EXCEPT ![m] = @ - 1]
    /\ shown' = [shown EXCEPT ![x] = @ + 1]

Add(x) == shown' = [shown EXCEPT ![x] = @ + 1] /\ UNCHANGED pend

\* The composer's answer and the event look for either id and take the first
\* bubble they meet.
Merge(m, x) ==
    \/ pend[m] > 0 /\ Resolve(m, x)
    \/ shown[x] > 0 /\ UNCHANGED <<pend, shown>>
    \/ pend[m] = 0 /\ shown[x] = 0 /\ Add(x)

\* _applySentToUi looks for the client id alone.
ApplySent(m, x) == IF pend[m] > 0 THEN Resolve(m, x) ELSE Add(x)

\* An optimistic bubble for a message sent off.
BubbleWrite(m) ==
    /\ open
    /\ \/ Write(m) /\ live' = live \cup {m}
       \/ WriteOffline(m) /\ UNCHANGED live
    /\ pend' = [pend EXCEPT ![m] = @ + 1]
    /\ UNCHANGED <<open, shown, load, echoes, cache>>

\* The backend publishes new_message when the insert is flushed.
BubbleServe(r) ==
    /\ Serve(r)
    /\ echoes' = IF request'[r].step = "inserted" /\ request[r].step = "looked"
                 THEN echoes \cup {RowOf(request[r].msg)} ELSE echoes
    /\ UNCHANGED <<screen, cache>>

\* _onNewMessage.
Echo(x) ==
    /\ x \in echoes
    /\ echoes' = echoes \ {x}
    /\ IF open THEN Merge(x[1], x) ELSE UNCHANGED <<pend, shown>>
    /\ UNCHANGED <<vars, open, live, load, cache>>

\* The composer's callback writes to the screen that made the call.
BubbleComposer(m) ==
    /\ \/ /\ ComposerOk(m)
          /\ IF m \in live THEN Merge(m, RowOf(m)) ELSE UNCHANGED <<pend, shown>>
       \/ /\ ComposerRefused(m)
          /\ pend' = IF m \in live THEN [pend EXCEPT ![m] = 0] ELSE pend
          /\ UNCHANGED shown
       \/ ComposerFails(m) /\ UNCHANGED <<pend, shown>>
    /\ live' = live \ {m}
    /\ UNCHANGED <<open, load, echoes, cache>>

\* The flush writes to whatever screen of the chat is open.
BubbleFlush ==
    /\ \/ /\ FlushOk
          /\ IF open THEN ApplySent(Head(batch), RowOf(Head(batch)))
             ELSE UNCHANGED <<pend, shown>>
       \/ /\ FlushRefused
          /\ pend' = [pend EXCEPT ![Head(batch)] = 0]
          /\ UNCHANGED shown
       \/ /\ ProbeOk \/ ProbeFails \/ PassOver \/ FlushSend \/ FlushFails
          /\ UNCHANGED <<pend, shown>>
    /\ UNCHANGED <<open, live, load, echoes, cache>>

\* Deleting a pending bubble.
BubbleDiscard(m) ==
    /\ pend[m] > 0
    /\ Discard(m)
    /\ pend' = [pend EXCEPT ![m] = 0]
    /\ UNCHANGED <<open, shown, live, load, echoes, cache>>

(***************************************************************************)
(* Leaving, opening and loading the chat                                   *)
(***************************************************************************)

Clear == open' = FALSE /\ pend' = NoBubbles /\ shown' = NoRows /\ live' = {} /\ load' = NoLoad

Leave == open /\ Clear /\ UNCHANGED <<vars, echoes, cache>>

\* initState flushes the outbox and loads the messages.
Enter ==
    /\ ~open
    /\ Trigger
    /\ open' = TRUE /\ load' = [NoLoad EXCEPT !.step = "asked"]
    /\ UNCHANGED <<pend, shown, live, echoes, cache>>

LoadAnswered ==
    /\ load.step = "asked"
    /\ load' = [step |-> "answered",
                rows |-> {RowOf(m) : m \in {n \in Message : stored[n] > 0}}]
    /\ UNCHANGED <<vars, open, pend, shown, live, echoes, cache>>

\* _loadMessages: the rows, the outbox, and the other bubbles on the screen.
LoadApplied ==
    /\ load.step = "answered"
    /\ shown' = [x \in Row |-> IF x \in load.rows THEN 1 ELSE shown[x]]
    /\ pend' = [m \in Message |-> IF m \in Queued THEN 1 ELSE pend[m]]
    /\ cache' = load.rows
    /\ load' = NoLoad
    /\ UNCHANGED <<vars, open, live, echoes>>

\* It fails: the rows on disk and the outbox, if there are any.
LoadFails ==
    /\ load # NoLoad
    /\ IF cache = {} /\ outbox = <<>> THEN UNCHANGED <<pend, shown>>
       ELSE /\ shown' = [x \in Row |-> IF x \in cache THEN 1 ELSE 0]
            /\ pend' = [m \in Message |-> IF m \in Queued THEN 1 ELSE 0]
    /\ load' = NoLoad
    /\ UNCHANGED <<vars, open, live, echoes, cache>>

BubbleKill == Kill /\ Clear /\ echoes' = {} /\ UNCHANGED cache

BubbleNext ==
    \/ \E m \in Message : BubbleWrite(m) \/ BubbleComposer(m) \/ BubbleDiscard(m)
    \/ \E r \in Request : BubbleServe(r)
    \/ \E x \in Row : Echo(x)
    \/ Trigger /\ UNCHANGED <<screen, echoes, cache>>
    \/ BubbleFlush \/ BubbleKill
    \/ Leave \/ Enter \/ LoadAnswered \/ LoadApplied \/ LoadFails

BubbleSpec == BubbleInit /\ [][BubbleNext]_bubbleVars

(***************************************************************************)
(* Properties                                                              *)
(***************************************************************************)

\* When the answer and the event for a message have both arrived, in whichever
\* order, the user sees one bubble of it: neither a second copy nor a pending
\* bubble beside the sent one.
NoDuplicateBubble ==
    \A x \in Row :
        call[x[1]] = None /\ x[1] \notin Queued /\ x \notin echoes
            => pend[x[1]] + shown[x] <= 1

=============================================================================
