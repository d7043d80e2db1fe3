------------------------------ MODULE MessageLife ------------------------------
(***************************************************************************)
(* A message after it was stored: the background jobs that transcribe and  *)
(* translate it (services/messages.py), its edit, deletion and the         *)
(* clearing of the history (message_features.py), and its bubble on the    *)
(* recipient's open chat (realtime_sync_service.dart,                      *)
(* chat_message_item.dart).  A direct chat, the recipient has another      *)
(* language than the sender.                                               *)
(*                                                                         *)
(* A job loads the message, waits for a remote service and writes what it  *)
(* was asked to; nothing is locked.  Events are published before the       *)
(* commit, and a screen applies them as they come.  A bubble shows a text  *)
(* (a number, 0 for none), translated or not.                              *)
(***************************************************************************)
EXTENDS Naturals

CONSTANTS LifeMsg,
          LifeJob,       \* background tasks running at the same time
          MaxText,       \* bound: texts of a message, edits included
          MaxOpen,       \* bound: times the recipient opens the chat
          NoMsg

ASSUME LifeAssumption == NoMsg \notin LifeMsg /\ MaxText \in Nat \ {0}

VARIABLES
    type,     \* messages.type: text or voice
    body,     \* text_original
    stt,      \* meta.transcription_status
    gone,     \* deleted_for_everyone
    tr,       \* the row of message_translations in the recipient's language
    job,      \* background tasks
    edit,     \* the sender's open edit request
    calm,     \* do edits and jobs of the same message keep clear of each other
    bubble,   \* the recipient's screen
    alarm,    \* the transcript section of the bubble: its timer, or away when it
              \* is not mounted
    open,     \* is the recipient's chat open
    aged,     \* 45 seconds have passed since the message was created, on the clock
              \* of the recipient's device, which may be ahead of the server's
    hidden,   \* message_hides of the recipient
    opened    \* counter for the bound

lifeVars == <<type, body, stt, gone, tr, job, edit, calm, bubble, alarm, aged, hidden, open, opened>>
rowVars == <<body, stt, gone, tr>>
screenVars == <<bubble, alarm>>

NoTr == [of |-> 0, ok |-> FALSE]
NoJob == [kind |-> "none", msg |-> NoMsg, text |-> 0, row |-> "none", gone |-> FALSE]
NoEdit == [msg |-> NoMsg, row |-> FALSE]
NoBubble == [show |-> "none", text |-> 0]
TrJob(m, v) == [NoJob EXCEPT !.kind = "tr", !.msg = m, !.text = v]

Idle == {j \in LifeJob : job[j].kind = "none"}
OpenOn(m) == {j \in LifeJob : job[j].msg = m}

(***************************************************************************)
(* The bubble                                                              *)
(***************************************************************************)

\* What a message looks like: without text it is empty when it is deleted or not
\* a voice, has failed when its transcription did or is late, is pending else.
Mapped(m, v, status, del, late) ==
    IF del \/ (v = 0 /\ type[m] = "text") THEN [show |-> "blank", text |-> 0]
    ELSE IF v # 0 THEN [show |-> "plain", text |-> v]
    ELSE IF status = "failed" \/ late THEN [show |-> "failed", text |-> 0]
    ELSE [show |-> "pending", text |-> 0]

\* Mutated form: only a timer that is still to ring is set.
ArmedIfYoung(b, late) == IF b.show = "pending" /\ ~late THEN "on" ELSE "off"

\* The timer of the bubble's transcript section, armed again at each change; a
\* bubble already 45 seconds old has timed out.
Armed(b, late) == IF b.show # "pending" THEN "off" ELSE IF late THEN "rang" ELSE "on"

\* The screen shows b for m, if the chat is open.
Shows(m, b) ==
    IF ~open THEN UNCHANGED screenVars
    ELSE /\ bubble' = [bubble EXCEPT ![m] = b]
         /\ alarm' = [alarm EXCEPT ![m] =
                IF b = bubble[m] \/ (@ = "away" /\ bubble[m] # NoBubble) THEN @
                ELSE Armed(b, aged[m])]

Vanishes(m) ==
    /\ bubble' = [bubble EXCEPT ![m] = NoBubble]
    /\ alarm' = [alarm EXCEPT ![m] = "away"]

Shimmers(m) == bubble[m].show = "pending" /\ alarm[m] \in {"on", "off"}

(***************************************************************************)
(* Initial states: messages that were just stored, with their jobs         *)
(***************************************************************************)

LifeInit ==
    /\ type \in [LifeMsg -> {"text", "voice"}]
    /\ body = [m \in LifeMsg |-> IF type[m] = "text" THEN 1 ELSE 0]
    /\ stt = [m \in LifeMsg |-> IF type[m] = "voice" THEN "pending" ELSE "none"]
    /\ gone = [m \in LifeMsg |-> FALSE]
    /\ tr = [m \in LifeMsg |-> NoTr]
    /\ LET f == CHOOSE g \in [LifeMsg -> LifeJob] : \A m, n \in LifeMsg : g[m] = g[n] => m = n
           first(m) == IF type[m] = "text" THEN TrJob(m, 1)
                       ELSE [NoJob EXCEPT !.kind = "stt", !.msg = m] IN
       job = [j \in LifeJob |-> IF \E m \in LifeMsg : f[m] = j
                                THEN first(CHOOSE m \in LifeMsg : f[m] = j) ELSE NoJob]
    /\ edit = NoEdit
    /\ calm \in BOOLEAN
    /\ bubble = [m \in LifeMsg |-> NoBubble]
    /\ alarm = [m \in LifeMsg |-> "away"]
    /\ aged \in [LifeMsg -> BOOLEAN]
    /\ hidden = {}
    /\ open = FALSE
    /\ opened = 0

(***************************************************************************)
(* finish_voice_transcription_job                                          *)
(***************************************************************************)

Goes(j) == job' = [job EXCEPT ![j] = NoJob]
Becomes(j, kind) == job' = [job EXCEPT ![j].kind = kind]

\* It loads the message, and downloads and transcribes the recording.
TranscribeStarts(j) ==
    /\ job[j].kind = "stt"
    /\ job' = [job EXCEPT ![j].kind = "listening", ![j].gone = gone[job[j].msg]]
    /\ UNCHANGED <<rowVars, screenVars, type, edit, calm, aged, hidden, open, opened>>

\* _mark_voice_transcription_failed on a message loaded with text v: the status,
\* and the message again to everybody.
MarksFailed(m, v, del) ==
    /\ stt' = [stt EXCEPT ![m] = "failed"]
    /\ Shows(m, Mapped(m, v, "failed", del, aged[m]))
    /\ UNCHANGED <<body, gone, tr>>

\* No recording, no answer, or an empty transcript.
TranscribeFails(j) ==
    /\ job[j].kind = "listening"
    /\ MarksFailed(job[j].msg, 0, job[j].gone)
    /\ Goes(j)
    /\ UNCHANGED <<type, edit, calm, aged, hidden, open, opened>>

\* The moderator refuses the transcript: the message is deleted for everyone,
\* committed, then announced.
TranscribeRefused(j) ==
    LET m == job[j].msg IN
    /\ job[j].kind = "listening"
    /\ gone' = [gone EXCEPT ![m] = TRUE]
    /\ body' = [body EXCEPT ![m] = 0]
    /\ Vanishes(m)
    /\ Goes(j)
    /\ UNCHANGED <<stt, tr, type, edit, calm, aged, hidden, open, opened>>

\* The transcript is written and published, then committed; the translations
\* follow.  The commit may fail, or its answer be lost: both raise.
TranscribeDone(j) ==
    LET m == job[j].msg IN
    /\ job[j].kind = "listening"
    /\ Shows(m, Mapped(m, 1, "done", job[j].gone, aged[m]))
    /\ \E outcome \in {"committed", "failed", "unheard"} :
          /\ IF outcome = "failed" THEN UNCHANGED <<body, stt>>
             ELSE body' = [body EXCEPT ![m] = 1] /\ stt' = [stt EXCEPT ![m] = "done"]
          /\ Becomes(j, IF outcome = "committed" THEN "follow" ELSE "mark")
    /\ UNCHANGED <<gone, tr, type, edit, calm, aged, hidden, open, opened>>

TranscribeRaises(j) ==
    /\ job[j].kind = "listening"
    /\ Becomes(j, "mark")
    /\ UNCHANGED <<rowVars, screenVars, type, edit, calm, aged, hidden, open, opened>>

\* Mutated form: whatever it finds.
MarkAlways(j) ==
    /\ job[j].kind = "mark"
    /\ MarksFailed(job[j].msg, 0, gone[job[j].msg])
    /\ Goes(j)
    /\ UNCHANGED <<type, edit, calm, aged, hidden, open, opened>>

\* After an exception a second session marks a message without text as failed.
MarkAfterError(j) ==
    LET m == job[j].msg IN
    /\ job[j].kind = "mark"
    /\ IF body[m] = 0 THEN MarksFailed(m, 0, gone[m]) ELSE UNCHANGED <<rowVars, screenVars>>
    /\ Goes(j)
    /\ UNCHANGED <<type, edit, calm, aged, hidden, open, opened>>

\* A third session loads the transcript and runs the translation.
FollowUp(j) ==
    LET m == job[j].msg IN
    /\ job[j].kind = "follow"
    /\ job' = [job EXCEPT ![j] = IF body[m] = 0 THEN NoJob ELSE TrJob(m, body[m])]
    /\ UNCHANGED <<rowVars, screenVars, type, edit, calm, aged, hidden, open, opened>>

(***************************************************************************)
(* finish_message_translation_job                                          *)
(***************************************************************************)

\* A done translation ends the job; a failed one is written over.
TranslateStarts(j) ==
    LET m == job[j].msg IN
    /\ job[j].kind = "tr"
    /\ calm => edit.msg # m
    /\ IF tr[m].ok THEN Goes(j)
       ELSE job' = [job EXCEPT ![j].kind = "asking", ![j].gone = gone[m],
                               ![j].row = IF tr[m] = NoTr THEN "new" ELSE "old"]
    /\ UNCHANGED <<rowVars, screenVars, type, edit, calm, aged, hidden, open, opened>>

\* The answer, or the original text when there is none, is written.  A second row
\* in the language and an update of a row that is gone are errors, rolled back.
\* A translation is published as the message again.
TranslateEnds(j, ok) ==
    LET m == job[j].msg
        written == IF job[j].row = "new" THEN tr[m] = NoTr ELSE job[j].row = "old" IN
    /\ job[j].kind = "asking"
    /\ IF written
       THEN /\ tr' = [tr EXCEPT ![m] = [of |-> job[j].text, ok |-> ok]]
            /\ IF ok THEN Shows(m, IF job[j].gone THEN Mapped(m, 0, "none", TRUE, FALSE)
                                   ELSE [show |-> "translated", text |-> job[j].text])
               ELSE UNCHANGED screenVars
       ELSE UNCHANGED <<tr, screenVars>>
    /\ Goes(j)
    /\ UNCHANGED <<body, stt, gone, type, edit, calm, aged, hidden, open, opened>>

\* The server restarts: its background tasks are lost.
JobsLost ==
    /\ \E j \in LifeJob : job[j].kind # "none"
    /\ job' = [j \in LifeJob |-> NoJob]
    /\ UNCHANGED <<rowVars, screenVars, type, edit, calm, aged, hidden, open, opened>>

(***************************************************************************)
(* Edit, delete, clear                                                     *)
(***************************************************************************)

\* edit_message loads the sender's text and its translations.
EditStarts(m) ==
    /\ edit = NoEdit /\ type[m] = "text" /\ ~gone[m] /\ body[m] < MaxText
    /\ calm => OpenOn(m) = {}
    /\ edit' = [msg |-> m, row |-> tr[m] # NoTr]
    /\ UNCHANGED <<rowVars, screenVars, type, job, calm, aged, hidden, open, opened>>

\* The row of a translation it loaded is deleted under the job that loaded it too.
Loses(m) == [j \in LifeJob |-> IF job[j].msg = m /\ job[j].row = "old"
                               THEN [job[j] EXCEPT !.row = "lost"] ELSE job[j]]

\* Mutated form: the translations are kept.
EditKeepsTranslation(ok) ==
    LET m == edit.msg
        v == body[m] + 1 IN
    /\ edit # NoEdit
    /\ IF bubble[m] = NoBubble THEN UNCHANGED screenVars ELSE Shows(m, [show |-> "plain", text |-> v])
    /\ IF ok
       THEN /\ Idle # {}
            /\ body' = [body EXCEPT ![m] = v]
            /\ LET j == CHOOSE i \in Idle : TRUE IN job' = [job EXCEPT ![j] = TrJob(m, v)]
            /\ UNCHANGED tr
       ELSE UNCHANGED <<body, tr, job>>
    /\ edit' = NoEdit
    /\ UNCHANGED <<stt, gone, type, calm, aged, hidden, open, opened>>

\* The new text is published to the bubbles there are, then committed, and its
\* translation asked for.  A commit that fails leaves the bubble edited.
EditEnds(ok) ==
    LET m == edit.msg
        v == body[m] + 1 IN
    /\ edit # NoEdit
    /\ IF bubble[m] = NoBubble THEN UNCHANGED screenVars ELSE Shows(m, [show |-> "plain", text |-> v])
    /\ IF ok
       THEN /\ Idle # {}
            /\ body' = [body EXCEPT ![m] = v]
            /\ tr' = IF edit.row THEN [tr EXCEPT ![m] = NoTr] ELSE tr
            /\ LET j == CHOOSE i \in Idle : TRUE
                   rest == IF edit.row THEN Loses(m) ELSE job IN
               job' = [rest EXCEPT ![j] = TrJob(m, v)]
       ELSE UNCHANGED <<body, tr, job>>
    /\ edit' = NoEdit
    /\ UNCHANGED <<stt, gone, type, calm, aged, hidden, open, opened>>

\* delete_message for everyone: announced, then committed.
DeleteForEveryone(m) ==
    /\ ~gone[m]
    /\ gone' = [gone EXCEPT ![m] = TRUE]
    /\ Vanishes(m)
    /\ UNCHANGED <<body, stt, tr, type, job, edit, calm, aged, hidden, open, opened>>

\* delete_message for the one who asks: the recipient, who then has a row of
\* message_hides, or the sender.  Either way both are told, and a screen that is
\* told drops the bubble.
DeleteForMe(m, by) ==
    /\ ~gone[m]
    /\ hidden' = IF by = "recipient" THEN hidden \cup {m} ELSE hidden
    /\ Vanishes(m)
    /\ UNCHANGED <<rowVars, type, job, edit, calm, aged, open, opened>>

\* clear_chat_history for everyone empties every message; the screen is cleared.
ClearHistory ==
    /\ gone' = [m \in LifeMsg |-> TRUE]
    /\ body' = [m \in LifeMsg |-> IF gone[m] THEN body[m] ELSE 0]
    /\ stt' = [m \in LifeMsg |-> IF gone[m] THEN stt[m] ELSE "none"]
    /\ bubble' = [m \in LifeMsg |-> NoBubble]
    /\ alarm' = [m \in LifeMsg |-> "away"]
    /\ UNCHANGED <<tr, type, job, edit, calm, aged, hidden, open, opened>>

\* For the recipient alone: everything is hidden, nobody is told.
ClearMine ==
    /\ hidden' = hidden \cup {m \in LifeMsg : ~gone[m]}
    /\ UNCHANGED <<rowVars, screenVars, type, job, edit, calm, aged, open, opened>>

(***************************************************************************)
(* The recipient's screen                                                  *)
(***************************************************************************)

Listed == {m \in LifeMsg : ~gone[m] /\ m \notin hidden}
Loaded(m) == IF tr[m].ok THEN [show |-> "translated", text |-> tr[m].of]
             ELSE Mapped(m, body[m], stt[m], FALSE, aged[m])

\* list_messages: what is stored, and a job for a text that has no translation.
OpenChat ==
    LET missing == {m \in Listed : body[m] # 0 /\ ~tr[m].ok} IN
    /\ ~open /\ opened < MaxOpen
    /\ calm => edit = NoEdit
    /\ open' = TRUE /\ opened' = opened + 1
    /\ bubble' = [m \in LifeMsg |-> IF m \in Listed THEN Loaded(m) ELSE NoBubble]
    /\ alarm' = [m \in LifeMsg |-> IF m \in Listed THEN Armed(Loaded(m), aged[m]) ELSE "away"]
    /\ IF missing = {} THEN UNCHANGED job
       ELSE /\ Idle # {}
            /\ \E m \in missing :
                  job' = [job EXCEPT ![CHOOSE j \in Idle : TRUE] = TrJob(m, body[m])]
    /\ UNCHANGED <<rowVars, type, edit, calm, aged, hidden>>

CloseChat ==
    /\ open /\ open' = FALSE
    /\ bubble' = [m \in LifeMsg |-> NoBubble]
    /\ alarm' = [m \in LifeMsg |-> "away"]
    /\ UNCHANGED <<rowVars, type, job, edit, calm, aged, hidden, opened>>

\* The list builds the bubbles that are in sight.
ScrollAway(m) ==
    /\ bubble[m] # NoBubble /\ alarm[m] # "away"
    /\ alarm' = [alarm EXCEPT ![m] = "away"]
    /\ UNCHANGED <<rowVars, bubble, type, job, edit, calm, aged, hidden, open, opened>>

ScrollBack(m) ==
    /\ bubble[m] # NoBubble /\ alarm[m] = "away"
    /\ alarm' = [alarm EXCEPT ![m] = Armed(bubble[m], aged[m])]
    /\ UNCHANGED <<rowVars, bubble, type, job, edit, calm, aged, hidden, open, opened>>

\* 45 seconds after it was created, and the timer that was set for that moment.
Ages(m) ==
    /\ ~aged[m]
    /\ aged' = [aged EXCEPT ![m] = TRUE]
    /\ UNCHANGED <<rowVars, screenVars, type, job, edit, calm, hidden, open, opened>>

TimerRings(m) ==
    /\ aged[m] /\ alarm[m] = "on"
    /\ alarm' = [alarm EXCEPT ![m] = "rang"]
    /\ UNCHANGED <<rowVars, bubble, type, job, edit, calm, aged, hidden, open, opened>>

LifeNext ==
    \/ \E j \in LifeJob :
          \/ TranscribeStarts(j) \/ TranscribeFails(j) \/ TranscribeRefused(j)
          \/ TranscribeDone(j) \/ TranscribeRaises(j) \/ MarkAfterError(j) \/ FollowUp(j)
          \/ TranslateStarts(j)
          \/ \E ok \in BOOLEAN : TranslateEnds(j, ok)
    \/ JobsLost
    \/ \E m \in LifeMsg :
          \/ EditStarts(m) \/ DeleteForEveryone(m)
          \/ \E by \in {"sender", "recipient"} : DeleteForMe(m, by)
          \/ ScrollAway(m) \/ ScrollBack(m) \/ Ages(m) \/ TimerRings(m)
    \/ \E ok \in BOOLEAN : EditEnds(ok)
    \/ ClearHistory \/ ClearMine \/ OpenChat \/ CloseChat

\* Time passes and a timer that is set rings.
LifeFairness == \A m \in LifeMsg : WF_lifeVars(Ages(m)) /\ WF_lifeVars(TimerRings(m))

LifeSpec == LifeInit /\ [][LifeNext]_lifeVars /\ LifeFairness

(***************************************************************************)
(* Properties                                                              *)
(***************************************************************************)

LifeTypeOK ==
    /\ type \in [LifeMsg -> {"text", "voice"}]
    /\ body \in [LifeMsg -> 0..MaxText]
    /\ stt \in [LifeMsg -> {"none", "pending", "done", "failed"}]
    /\ gone \in [LifeMsg -> BOOLEAN] /\ aged \in [LifeMsg -> BOOLEAN]
    /\ tr \in [LifeMsg -> [of : 0..MaxText, ok : BOOLEAN]]
    /\ job \in [LifeJob -> [kind : {"none", "stt", "listening", "mark", "follow", "tr", "asking"},
                            msg : LifeMsg \cup {NoMsg}, text : 0..MaxText,
                            row : {"none", "new", "old", "lost"}, gone : BOOLEAN]]
    /\ alarm \in [LifeMsg -> {"away", "off", "on", "rang"}]
    /\ bubble \in [LifeMsg -> [show : {"none", "blank", "plain", "translated", "pending", "failed"},
                               text : 0..MaxText]]
    /\ hidden \subseteq LifeMsg

\* The status of a voice message agrees with its transcript, whatever fails around
\* the commit that writes both: one that was stored is never marked as failed.
TranscriptKept ==
    \A m \in LifeMsg : type[m] = "voice" /\ ~gone[m] =>
        (stt[m] = "done" <=> body[m] # 0)

\* After an edit that no job overlaps, the recipient reads no translation of an
\* older text.
TranslationFollowsEdit ==
    calm => \A m \in LifeMsg : tr[m].ok => tr[m].of = body[m] \/ gone[m]

\* The texts a chat shows belong together: a transcript with its status, a
\* translation with its text.
TextsAgree == TranscriptKept /\ TranslationFollowsEdit

\* The shimmer of a voice message ends, even if its job is lost or its event
\* never comes, and however the bubble is scrolled.
ShimmerEnds == \A m \in LifeMsg : Shimmers(m) ~> ~Shimmers(m)
================================================================================
