--------------------------------- MODULE Jonli ---------------------------------
(***************************************************************************)
(* Hold-to-talk interpreting (jonli_screen.dart): press, record, release,  *)
(* upload, play, with the recorder it shares (voice_recorder_service.dart) *)
(* and the live sessions of the backend (services/live.py).                *)
(*                                                                         *)
(* Everything runs on one thread; a handler gives way at each await, so a  *)
(* variable tells where each handler waits.  Stops of the recorder are     *)
(* answered in the order they were asked for, and only the first finds a   *)
(* recording.  The two speakers are alike.  What the backend keeps of a    *)
(* turn is told by its answer.                                             *)
(***************************************************************************)
EXTENDS Naturals, Sequences, SequencesExt, FiniteSets

CONSTANTS Turn,       \* client turn ids, used again once free
          MaxUser,    \* bound: presses of the button, retries, photos, changes of
                      \* language and leaves of the tab
          NoTurn

ASSUME JonliAssumption == NoTurn \notin Turn /\ MaxUser \in Nat

VARIABLES
    finger,    \* a finger is on the button
    want,      \* _holdDesired
    hold,      \* where _beginHold waits (_starting); no when it does not run
    release,   \* where _finishHold waits (_stopping), and its turn
    again,     \* the same for _retryTurn
    photo,     \* for _runCameraTranslate
    reset,     \* and for _resetSession or OpenHistory
    busy, mode,
    watch,     \* the max-hold timer is set
    recording, \* VoiceRecorderService.isRecording
    closing,   \* who waits for a stop of the recorder
    session,   \* is there a session id
    turns,     \* the bubbles
    mine,      \* _pendingClientTurnId
    refused,   \* turns whose upload was answered with a request to buy premium, or
               \* not tried for want of a session
    single,    \* does the user do one thing at a time
    disposed,  \* the screen was disposed of
    acts       \* counter for the bound

chains == <<hold, release, again, photo, reset>>
flags == <<finger, want, single, disposed, acts>>
shown == <<turns, mine, refused>>
jonliVars == <<chains, flags, shown, busy, mode, watch, recording, closing, session>>

Off == [at |-> "no", turn |-> NoTurn]
Used == {t \in Turn : turns[t] # "none"} \cup {mine, release.turn, again.turn, photo.turn} \cup refused
Fresh == CHOOSE t \in Turn : t \notin Used
Show(t, s) == [turns EXCEPT ![t] = s]
Dropped(t) == IF t = NoTurn THEN turns ELSE Show(t, "none")

JonliInit ==
    /\ finger = FALSE /\ want = FALSE
    /\ hold = "no" /\ reset = "no"
    /\ release = Off /\ again = Off /\ photo = Off
    /\ busy = FALSE /\ mode = "idle" /\ watch = FALSE
    /\ recording = FALSE /\ closing = <<>>
    /\ session = FALSE
    /\ turns = [t \in Turn |-> "none"] /\ mine = NoTurn /\ refused = {}
    /\ single \in BOOLEAN
    /\ disposed = FALSE /\ acts = 0

(***************************************************************************)
(* Pressing: _beginHold                                                    *)
(***************************************************************************)

\* _beginHold until its first await.
Press ==
    /\ ~finger /\ ~disposed /\ acts < MaxUser
    /\ finger' = TRUE /\ acts' = acts + 1
    /\ IF busy \/ mode = "on" THEN UNCHANGED <<want, hold>>
       ELSE /\ want' = TRUE
            /\ hold' = IF hold # "no" \/ release.at # "no" THEN hold
                       ELSE IF session THEN "player" ELSE "session"
    /\ UNCHANGED <<release, again, photo, reset, single, disposed, shown, busy, mode, watch,
                   recording, closing, session>>

\* Mutated form: without the timer.
ShowsUntimed ==
    /\ mode' = "on" /\ mine' = Fresh /\ turns' = Show(Fresh, "pending")
    /\ hold' = "no" /\ UNCHANGED <<watch, refused>>

\* The screen shows the recording and a bubble for it, and sets the timer.
ShowsRecording ==
    /\ mode' = "on" /\ mine' = Fresh /\ turns' = Show(Fresh, "pending")
    /\ watch' = TRUE
    /\ hold' = "no" /\ UNCHANGED refused

\* The player is silent, or has stopped.  A recorder that still runs counts as
\* started.
AsksForMic ==
    /\ hold = "player"
    /\ IF ~want THEN hold' = "no" /\ UNCHANGED <<shown, mode, watch>>
       ELSE IF recording THEN ShowsRecording
       ELSE hold' = "mic" /\ UNCHANGED <<shown, mode, watch>>
    /\ UNCHANGED <<release, again, photo, reset, flags, busy, recording, closing, session>>

\* The recorder starts; a finger that is gone cancels it.
MicStarts ==
    /\ hold = "mic"
    /\ recording' = TRUE
    /\ IF want THEN ShowsRecording /\ UNCHANGED closing
       ELSE /\ hold' = "undo" /\ closing' = Append(closing, "undo")
            /\ UNCHANGED <<shown, mode, watch>>
    /\ UNCHANGED <<release, again, photo, reset, flags, busy, session>>

MicDenied ==
    /\ hold = "mic" /\ hold' = "no"
    /\ UNCHANGED <<release, again, photo, reset, flags, shown, busy, mode, watch, recording,
                   closing, session>>

(***************************************************************************)
(* Releasing: _finishHold and _processRelease                              *)
(***************************************************************************)

\* Waits for the recorder; without a recording the bubble goes at once.
FinishHold ==
    IF release.at # "no" \/ (mode = "idle" /\ ~recording)
    THEN UNCHANGED <<release, watch, closing, mode, shown>>
    ELSE /\ watch' = FALSE
         /\ IF recording
            THEN /\ release' = [Off EXCEPT !.at = "stop"]
                 /\ closing' = Append(closing, "release")
                 /\ UNCHANGED <<mode, shown>>
            ELSE /\ mode' = "idle" /\ turns' = Dropped(mine) /\ mine' = NoTurn
                 /\ UNCHANGED <<release, closing, refused>>

\* StopSpeaking.
Lift ==
    /\ finger /\ ~disposed /\ finger' = FALSE
    /\ want' = FALSE
    /\ IF hold # "no" THEN UNCHANGED <<release, watch, closing, mode, shown>> ELSE FinishHold
    /\ UNCHANGED <<hold, again, photo, reset, single, disposed, acts, busy, recording, session>>

\* The timer finds 45 seconds recorded.
Tick ==
    /\ watch /\ mode = "on" /\ release.at = "no" /\ recording
    /\ FinishHold
    /\ UNCHANGED <<hold, again, photo, reset, flags, busy, recording, session>>

\* _uploadTurn for turn t by a handler c: without a session it gives up.
Uploads(t) == IF session THEN [at |-> "upload", turn |-> t] ELSE Off

\* Mutated form: the bubble of a recording that is too short stays.
StoppedKeepsBubble(good) ==
    LET t == IF mine = NoTurn THEN Fresh ELSE mine IN
    /\ mode' = "idle" /\ mine' = NoTurn
    /\ release' = IF good THEN Uploads(t) ELSE Off
    /\ IF good /\ session THEN turns' = Show(t, "pending") /\ busy' = TRUE
       ELSE UNCHANGED <<turns, busy>>
    /\ refused' = IF good /\ ~session THEN refused \cup {t} ELSE refused

\* The recording is there and good, or is too short or too quiet.
Stopped(good) ==
    LET t == IF mine = NoTurn THEN Fresh ELSE mine IN
    /\ mode' = "idle" /\ mine' = NoTurn
    /\ IF good
       THEN /\ release' = Uploads(t)
            /\ IF session THEN turns' = Show(t, "pending") /\ busy' = TRUE /\ UNCHANGED refused
               ELSE refused' = refused \cup {t} /\ UNCHANGED <<turns, busy>>
       ELSE release' = Off /\ turns' = Dropped(mine) /\ UNCHANGED <<busy, refused>>

(***************************************************************************)
(* Leaving and discarding                                                  *)
(***************************************************************************)

Closes(who) == IF recording THEN Append(closing, who) ELSE closing

\* Mutated form: the screen goes idle and leaves the recorder alone.
PauseQuietly ==
    /\ ~disposed /\ acts < MaxUser /\ (single => ~finger)
    /\ mode = "on" \/ session
    /\ want' = FALSE /\ watch' = FALSE /\ busy' = FALSE /\ mode' = "idle"
    /\ turns' = Dropped(mine) /\ mine' = NoTurn
    /\ acts' = acts + 1
    /\ UNCHANGED <<chains, finger, single, disposed, refused, recording, closing, session>>

\* _pauseLiveSession: the user goes to another tab.
Pause ==
    /\ ~disposed /\ acts < MaxUser /\ (single => ~finger)
    /\ mode = "on" \/ session
    /\ want' = FALSE /\ watch' = FALSE /\ busy' = FALSE /\ mode' = "idle"
    /\ turns' = Dropped(mine) /\ mine' = NoTurn
    /\ closing' = Closes("pause")
    /\ acts' = acts + 1
    /\ UNCHANGED <<chains, finger, single, disposed, refused, recording, session>>

\* The end of a reset's first part: the old session is ended, or there is none.
Renewed(s) == IF s THEN "end" ELSE "session"

\* _resetSession after a change of languages, _abortRecording first.
Reset ==
    /\ ~disposed /\ acts < MaxUser /\ (single => ~finger) /\ reset = "no"
    /\ want' = FALSE /\ watch' = FALSE /\ acts' = acts + 1
    /\ closing' = Closes("reset")
    /\ IF recording THEN reset' = "cancel" /\ UNCHANGED <<mode, turns>>
       ELSE /\ mode' = "idle" /\ reset' = Renewed(session)
            /\ turns' = IF session THEN turns ELSE [t \in Turn |-> "none"]
    /\ UNCHANGED <<hold, release, again, photo, finger, single, disposed, mine, refused,
                   busy, recording, session>>

SessionEnded ==
    /\ reset = "end" /\ reset' = "session"
    /\ session' = FALSE
    /\ turns' = [t \in Turn |-> "none"]
    /\ UNCHANGED <<hold, release, again, photo, flags, mine, refused, busy, mode, watch,
                   recording, closing>>

\* dispose: the recorder is cancelled if it runs, the session ended.
Dispose ==
    /\ ~disposed /\ disposed' = TRUE
    /\ watch' = FALSE /\ session' = FALSE
    /\ closing' = Closes("dispose")
    /\ UNCHANGED <<chains, finger, want, single, acts, shown, busy, mode, recording>>

(***************************************************************************)
(* The recorder stops                                                      *)
(***************************************************************************)

\* The one who waited longest goes on; a recording is found by the first.
RecorderStops ==
    LET who == Head(closing) IN
    /\ closing # <<>> /\ closing' = Tail(closing)
    /\ recording' = FALSE
    /\ CASE who = "release" ->
              /\ \E good \in {TRUE, FALSE} : (good => recording) /\ Stopped(good)
              /\ UNCHANGED <<hold, photo, reset>>
         [] who = "undo" ->
              hold' = "no" /\ UNCHANGED <<release, photo, reset, shown, mode, busy>>
         [] who = "reset" ->
              /\ turns' = IF session THEN Dropped(mine) ELSE [t \in Turn |-> "none"]
              /\ mine' = NoTurn /\ mode' = "idle" /\ reset' = Renewed(session)
              /\ UNCHANGED <<hold, release, photo, busy, refused>>
         [] who = "photo" ->
              /\ turns' = Dropped(mine) /\ mine' = NoTurn /\ mode' = "idle"
              /\ photo' = [Off EXCEPT !.at = IF session THEN "pick" ELSE "session"]
              /\ UNCHANGED <<hold, release, reset, busy, refused>>
         [] OTHER -> UNCHANGED <<hold, release, photo, reset, shown, mode, busy>>
    /\ UNCHANGED <<again, flags, watch, session>>

(***************************************************************************)
(* Sessions: _ensureSession by each handler that waits for one             *)
(***************************************************************************)

At == [hold |-> hold, again |-> again.at, photo |-> photo.at, reset |-> reset]

\* startSession answers; the turns of the session are loaded next.
SessionStarts(who) ==
    /\ At[who] = "session"
    /\ session' = TRUE
    /\ hold' = IF who = "hold" THEN "turns" ELSE hold
    /\ again' = IF who = "again" THEN [again EXCEPT !.at = "turns"] ELSE again
    /\ photo' = IF who = "photo" THEN [photo EXCEPT !.at = "turns"] ELSE photo
    /\ reset' = IF who = "reset" THEN "turns" ELSE reset
    /\ UNCHANGED <<release, flags, shown, busy, mode, watch, recording, closing>>

\* The handler that waited goes on with bubbles f, if there is a session: perhaps
\* one that another handler started.
GoesOn(who, f) ==
    /\ hold' = IF who # "hold" THEN hold ELSE IF want /\ session THEN "player" ELSE "no"
    /\ again' = IF who = "again" THEN Uploads(again.turn) ELSE again
    /\ photo' = IF who # "photo" THEN photo
                ELSE [Off EXCEPT !.at = IF session THEN "pick" ELSE "no"]
    /\ reset' = IF who = "reset" THEN "no" ELSE reset
    /\ busy' = (busy \/ (who = "again" /\ session))
    /\ turns' = IF who = "again" /\ session THEN [f EXCEPT ![again.turn] = "pending"] ELSE f
    /\ UNCHANGED <<release, flags, mine, refused, mode, watch, recording, closing, session>>

SessionFails(who) == At[who] = "session" /\ GoesOn(who, turns)

\* What the backend may have: turns that were sent to it, their answers heard or not.
Sent == {t \in Turn : turns[t] \in {"done", "failed"} \/ t \in {release.turn, again.turn, photo.turn}}

\* The bubbles become the turns the backend has, if it answers.
TurnsAnswer(who) ==
    /\ At[who] = "turns"
    /\ \/ GoesOn(who, turns)
       \/ \E kept \in SUBSET Sent :
             GoesOn(who, [t \in Turn |-> IF t \in kept THEN "done" ELSE "none"])

\* The history is opened: it needs a session, too.  One at a time with a reset.
OpenHistory ==
    /\ ~disposed /\ acts < MaxUser /\ (single => ~finger) /\ ~session /\ reset = "no"
    /\ reset' = "session" /\ acts' = acts + 1
    /\ UNCHANGED <<hold, release, again, photo, finger, want, single, disposed, shown, busy, mode,
                   watch, recording, closing, session>>

(***************************************************************************)
(* Uploads: the turn of a release, a retry, a photo                        *)
(***************************************************************************)

\* What an answer makes of the bubble: done, failed (a photo: unread, for it cannot
\* be retried), or nothing was understood.  A request to buy premium leaves it.
Settles(t, result) ==
    /\ turns' = CASE result = "refused" -> turns
                  [] result = "unheard" -> Show(t, "none")
                  [] OTHER -> Show(t, result)
    /\ refused' = IF result = "refused" THEN refused \cup {t} ELSE refused
    /\ busy' = FALSE

\* The answer is played; only then does _finishHold end.
ReleaseAnswered ==
    /\ release.at = "upload"
    /\ \E result \in {"done", "failed", "unheard", "refused"} :
          /\ Settles(release.turn, result)
          /\ \/ release' = Off
             \/ result = "done" /\ release' = [Off EXCEPT !.at = "play"]
    /\ UNCHANGED <<hold, again, photo, reset, flags, mine, mode, watch, recording, closing, session>>

PlayEnds ==
    /\ \/ release.at = "play" /\ release' = Off /\ UNCHANGED again
       \/ again.at = "play" /\ again' = Off /\ UNCHANGED release
    /\ busy' = FALSE
    /\ UNCHANGED <<hold, photo, reset, flags, shown, mode, watch, recording, closing, session>>

\* _retryTurn of a failed bubble with a recording.
RetryTurn(t) ==
    /\ ~disposed /\ acts < MaxUser /\ (single => ~finger)
    /\ turns[t] = "failed" /\ ~busy /\ again.at = "no"
    /\ acts' = acts + 1
    /\ again' = IF session THEN Uploads(t) ELSE [at |-> "session", turn |-> t]
    /\ IF session THEN turns' = Show(t, "pending") /\ busy' = TRUE ELSE UNCHANGED <<turns, busy>>
    /\ UNCHANGED <<hold, release, photo, reset, finger, want, single, disposed, mine, refused,
                   mode, watch, recording, closing, session>>

RetryAnswered ==
    /\ again.at = "upload"
    /\ \E result \in {"done", "failed", "unheard", "refused"} :
          /\ Settles(again.turn, result)
          /\ \/ again' = Off
             \/ result = "done" /\ again' = [Off EXCEPT !.at = "play"]
    /\ UNCHANGED <<hold, release, photo, reset, flags, mine, mode, watch, recording, closing, session>>

\* _runCameraTranslate: a recording under way is discarded.
Photo ==
    /\ ~disposed /\ acts < MaxUser /\ (single => ~finger) /\ ~busy /\ photo.at = "no"
    /\ acts' = acts + 1
    /\ IF mode = "on"
       THEN /\ want' = FALSE /\ watch' = FALSE /\ closing' = Closes("photo")
            /\ mode' = IF recording THEN mode ELSE "idle"
            /\ photo' = [Off EXCEPT !.at = IF recording THEN "cancel"
                                           ELSE IF session THEN "pick" ELSE "session"]
       ELSE /\ photo' = [Off EXCEPT !.at = IF session THEN "pick" ELSE "session"]
            /\ UNCHANGED <<want, watch, closing, mode>>
    /\ UNCHANGED <<hold, release, again, reset, finger, single, disposed, shown, busy,
                   recording, session>>

Picked(file) ==
    /\ photo.at = "pick"
    /\ IF file THEN /\ photo' = [at |-> "upload", turn |-> Fresh]
                    /\ turns' = Show(Fresh, "pending") /\ busy' = TRUE
       ELSE photo' = Off /\ UNCHANGED <<turns, busy>>
    /\ UNCHANGED <<hold, release, again, reset, flags, mine, refused, mode, watch, recording,
                   closing, session>>

PhotoAnswered ==
    /\ photo.at = "upload" /\ photo' = Off
    /\ \E result \in {"done", "unread"} : Settles(photo.turn, result)
    /\ UNCHANGED <<hold, release, again, reset, flags, mine, mode, watch, recording, closing, session>>

JonliNext ==
    \/ Press \/ AsksForMic \/ MicStarts \/ MicDenied
    \/ Lift \/ Tick \/ RecorderStops
    \/ Pause \/ Reset \/ SessionEnded \/ OpenHistory \/ Dispose
    \/ \E who \in {"hold", "again", "photo", "reset"} :
          SessionStarts(who) \/ SessionFails(who) \/ TurnsAnswer(who)
    \/ \E file \in BOOLEAN : Picked(file)
    \/ ReleaseAnswered \/ PlayEnds
    \/ \E t \in Turn : RetryTurn(t)
    \/ RetryAnswered \/ Photo \/ PhotoAnswered

JonliSpec == JonliInit /\ [][JonliNext]_jonliVars

(***************************************************************************)
(* Properties                                                              *)
(***************************************************************************)

JonliTypeOK ==
    /\ {finger, want, busy, watch, recording, session, single, disposed} \subseteq BOOLEAN
    /\ mode \in {"idle", "on"}
    /\ hold \in {"no", "session", "turns", "player", "mic", "undo"}
    /\ reset \in {"no", "cancel", "end", "session", "turns"}
    /\ release \in [at : {"no", "stop", "upload", "play"}, turn : Turn \cup {NoTurn}]
    /\ again \in [at : {"no", "session", "turns", "upload", "play"}, turn : Turn \cup {NoTurn}]
    /\ photo \in [at : {"no", "cancel", "session", "turns", "pick", "upload"}, turn : Turn \cup {NoTurn}]
    /\ closing \in Seq({"release", "pause", "undo", "reset", "photo", "dispose"})
    /\ turns \in [Turn -> {"none", "pending", "failed", "unread", "done"}]
    /\ mine \in Turn \cup {NoTurn} /\ refused \subseteq Turn

\* Whatever is tapped, left or disposed of while the recorder starts or stops: a
\* microphone that is on is about to be stopped, or the screen shows it and the
\* timer that ends a hold is set.
MicAccounted == recording => closing # <<>> \/ (mode = "on" /\ watch)

\* For a user who does one thing at a time: a bubble that shows progress has a
\* recording or an upload behind it.  An upload that is answered with a request
\* to buy premium, or finds no session, leaves its bubble.
NoOrphanTurn ==
    single /\ ~disposed => \A t \in Turn : turns[t] = "pending" =>
        t \in {mine, release.turn, again.turn, photo.turn} \cup refused
================================================================================
