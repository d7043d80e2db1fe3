------------------------------- MODULE VoiceNote --------------------------------
(***************************************************************************)
(* Voice and video notes of the chat: the button that is held, slid and    *)
(* lifted (chat_composer.dart), the handlers of the screen, which give way *)
(* at each await (chat_screen.dart), and the two recorders                 *)
(* (voice_recorder_service.dart, video_note_recorder_service.dart).        *)
(*                                                                         *)
(* A recording is named by the press that started it.  The screen compares *)
(* _recordStartGen after a start; here a start is fresh until it changes.  *)
(* A recorder answers its calls in the order they were made.  How the      *)
(* camera is set up and given back is left out.                            *)
(***************************************************************************)
EXTENDS Naturals, Sequences, SequencesExt, FiniteSets

CONSTANTS MaxHold,   \* bound: presses that start a recording
          MaxTouch   \* bound: what else the user does

ASSUME VoiceAssumption == MaxHold \in Nat /\ MaxTouch \in Nat

Hold == 1 .. MaxHold
Device == {"voice", "video"}

VARIABLES
    gesture,     \* the button: _holding, _lockedLocal, _cancelledLocal
    medium,      \* composerMediaMode
    noteShown,   \* state.recording
    noteLocked,  \* state.recordingLocked
    starts,      \* StartRecording handlers waiting for a device
    on,          \* the recording a device makes, 0 when it is off
    stops,       \* who waits for a device to stop
    finishing,   \* the recording _finishVoice or _finishVideoNote works on
    sending,     \* state.sending, and who set it
    fate,        \* what became of each recording
    slid,        \* recordings the user slid away or cancelled
    holds, touches,
    patient,     \* does the user change the medium only while no recorder
                 \* starts or stops
    opened       \* the screen is shown

noteVars == <<gesture, medium, noteShown, noteLocked, starts, on, stops, finishing, sending, fate,
              slid, holds, touches, patient, opened>>

NotFinishing == [at |-> "no", hold |-> 0]

NoteInit ==
    /\ gesture = "none" /\ medium = "voice"
    /\ noteShown = FALSE /\ noteLocked = FALSE
    /\ starts = [d \in Device |-> <<>>] /\ stops = [d \in Device |-> <<>>]
    /\ on = [d \in Device |-> 0]
    /\ finishing = NotFinishing /\ sending = "no"
    /\ fate = [h \in Hold |-> "none"] /\ slid = {}
    /\ holds = 0 /\ touches = 0 /\ opened = TRUE
    /\ patient \in BOOLEAN

Touches == opened /\ touches < MaxTouch /\ touches' = touches + 1

\* _recordStartGen changes.
Stale == [d \in Device |-> [i \in DOMAIN starts[d] |-> [starts[d][i] EXCEPT !.fresh = FALSE]]]

\* The button is there: not while the chat sends, and not once the recording is locked.
ButtonShown == opened /\ (sending = "no" \/ noteShown) /\ ~(noteShown /\ noteLocked)

(***************************************************************************)
(* Handlers, up to their first await                                       *)
(***************************************************************************)

\* StartRecording, unless one is made, finished or something is being sent.
StartRecording ==
    IF noteShown \/ sending # "no" \/ finishing # NotFinishing \/ holds = MaxHold
    THEN UNCHANGED <<starts, holds>>
    ELSE /\ holds' = holds + 1
         /\ starts' = [Stale EXCEPT ![medium] = Append(@, [hold |-> holds + 1, fresh |-> TRUE])]

\* What is stopped for the device d: a device that is off answers at once.
Stop(d, who) == stops' = IF on[d] = 0 THEN stops ELSE [stops EXCEPT ![d] = Append(@, who)]

\* The recording the user means: the one that starts or runs, unless it is finished.
Current ==
    IF finishing # NotFinishing THEN {}
    ELSE ({on[medium]} \ {0}) \cup {s.hold : s \in {x \in Range(starts[medium]) : x.fresh}}

\* Mutated form: a start that is under way goes on.
CancelOnlyStops ==
    /\ starts' = starts
    /\ slid' = slid \cup Current
    /\ Stop(medium, "cancel")
    /\ IF on[medium] = 0 THEN noteShown' = FALSE /\ noteLocked' = FALSE
       ELSE UNCHANGED <<noteShown, noteLocked>>

CancelRecording ==
    /\ starts' = Stale
    /\ slid' = slid \cup Current
    /\ Stop(medium, "cancel")
    /\ IF on[medium] = 0 THEN noteShown' = FALSE /\ noteLocked' = FALSE
       ELSE UNCHANGED <<noteShown, noteLocked>>

\* FinishRecording.  Without a recording the user reads that it was too short.
FinishRecording ==
    IF ~noteShown \/ finishing # NotFinishing
    THEN UNCHANGED <<noteShown, noteLocked, stops, finishing>>
    ELSE /\ Stop(medium, "finish")
         /\ IF on[medium] = 0 THEN noteShown' = FALSE /\ noteLocked' = FALSE /\ UNCHANGED finishing
            ELSE finishing' = [NotFinishing EXCEPT !.at = "stop"] /\ UNCHANGED <<noteShown, noteLocked>>

(***************************************************************************)
(* The button                                                              *)
(***************************************************************************)

PressButton ==
    /\ ButtonShown /\ gesture = "none" /\ holds < MaxHold
    /\ gesture' = "held"
    /\ StartRecording
    /\ UNCHANGED <<medium, noteShown, noteLocked, on, stops, finishing, sending, fate, slid, touches,
                   patient, opened>>

SlideAway ==
    /\ Touches /\ gesture = "held" /\ ~noteLocked
    /\ gesture' = "cancelled"
    /\ CancelRecording
    /\ UNCHANGED <<medium, on, finishing, sending, fate, holds, patient, opened>>

SlideUp ==
    /\ Touches /\ gesture = "held" /\ ~noteLocked
    /\ gesture' = "locked" /\ noteLocked' = noteShown
    /\ UNCHANGED <<medium, noteShown, starts, on, stops, finishing, sending, fate, slid, holds,
                   patient, opened>>

LiftFinger ==
    /\ gesture # "none" /\ gesture' = "none"
    /\ IF gesture = "held" THEN FinishRecording
       ELSE UNCHANGED <<noteShown, noteLocked, stops, finishing>>
    /\ UNCHANGED <<medium, starts, on, sending, fate, slid, holds, touches, patient, opened>>

\* didUpdateWidget: the composer is built anew while nothing is recorded, and the
\* button forgets the finger.
Rebuilt ==
    /\ ~noteShown /\ gesture # "none" /\ gesture' = "none"
    /\ UNCHANGED <<medium, noteShown, noteLocked, starts, on, stops, finishing, sending, fate, slid,
                   holds, touches, patient, opened>>

\* The buttons of a locked recording.
SendLocked ==
    /\ opened /\ noteShown /\ noteLocked /\ gesture' = gesture
    /\ finishing = NotFinishing /\ FinishRecording
    /\ UNCHANGED <<medium, starts, on, sending, fate, slid, holds, touches, patient, opened>>

CancelLocked ==
    /\ Touches /\ noteShown /\ noteLocked
    /\ CancelRecording
    /\ UNCHANGED <<gesture, medium, on, finishing, sending, fate, holds, patient, opened>>

\* ToggleComposerMediaMode; leaving video gives the camera back.
Toggle ==
    /\ Touches /\ ButtonShown /\ gesture = "none"
    /\ ~noteShown /\ finishing = NotFinishing
    /\ patient => \A d \in Device : starts[d] = <<>> /\ stops[d] = <<>>
    /\ medium' = IF medium = "voice" THEN "video" ELSE "voice"
    /\ IF medium = "video" THEN Stop("video", "release") ELSE UNCHANGED stops
    /\ UNCHANGED <<gesture, noteShown, noteLocked, starts, on, finishing, sending, fate, slid,
                   holds, patient, opened>>

\* A video note of 60 seconds finishes itself.
HitMaxDuration ==
    /\ on["video"] # 0 /\ medium = "video" /\ noteShown /\ finishing = NotFinishing
    /\ FinishRecording
    /\ UNCHANGED <<gesture, medium, starts, on, sending, fate, slid, holds, touches, patient, opened>>

\* Back, which while selecting or searching only ends that; or the system's back
\* gesture, which runs no handler.
Back(how) ==
    /\ Touches
    /\ opened' = (how = "selecting")
    /\ starts' = IF how = "system" THEN starts ELSE Stale
    /\ stops' = IF how # "button" THEN stops
                ELSE [d \in Device |-> IF on[d] = 0 THEN stops[d] ELSE Append(stops[d], "release")]
    /\ gesture' = IF opened' THEN gesture ELSE "none"
    /\ UNCHANGED <<medium, noteShown, noteLocked, on, finishing, sending, fate, slid, holds, patient>>

(***************************************************************************)
(* The recorders answer                                                    *)
(***************************************************************************)

\* Mutated form: a start that is no longer wanted is left running.
DeviceStartedLeft(d) ==
    LET s == Head(starts[d]) IN
    /\ starts[d] # <<>> /\ starts' = [starts EXCEPT ![d] = Tail(@)]
    /\ on' = [on EXCEPT ![d] = IF @ = 0 \/ stops[d] # <<>> THEN s.hold ELSE @]
    /\ noteShown' = (noteShown \/ s.fresh) /\ noteLocked' = (noteLocked /\ ~s.fresh)
    /\ UNCHANGED <<gesture, medium, stops, finishing, sending, fate, slid, holds, touches, patient, opened>>

\* The device records.  A voice recorder that still ran counts as started; a camera
\* that did is refused.  A start that is no longer wanted stops it again.
DeviceStarted(d) ==
    LET s == Head(starts[d])
        refused == d = "video" /\ on[d] # 0
    IN
    /\ starts[d] # <<>> /\ starts' = [starts EXCEPT ![d] = Tail(@)]
    /\ on' = [on EXCEPT ![d] = IF @ = 0 \/ (d = "voice" /\ stops[d] # <<>>) THEN s.hold ELSE @]
    /\ IF s.fresh
       THEN /\ noteShown' = (noteShown \/ ~refused) /\ noteLocked' = (noteLocked /\ refused)
            /\ stops' = stops
       ELSE stops' = [stops EXCEPT ![d] = Append(@, "undo")] /\ UNCHANGED <<noteShown, noteLocked>>
    /\ UNCHANGED <<gesture, medium, finishing, sending, fate, slid, holds, touches, patient, opened>>

\* Not permitted, or no camera.
DeviceDenied(d) ==
    LET s == Head(starts[d]) IN
    /\ starts[d] # <<>> /\ starts' = [starts EXCEPT ![d] = Tail(@)]
    /\ IF s.fresh THEN UNCHANGED stops ELSE Stop(d, "undo")
    /\ UNCHANGED <<gesture, medium, noteShown, noteLocked, on, finishing, sending, fate, slid, holds,
                   touches, patient, opened>>

\* tryEnqueueOutbox, or the user is told that the outbox is full.
Enqueues(h) == \E f \in {"queued", "told"} : fate' = [fate EXCEPT ![h] = f]

\* The finish gets its file: while something else is sent, or offline, it goes into
\* the outbox; else it is uploaded.
Recorded(h) ==
    \/ /\ finishing' = NotFinishing /\ Enqueues(h) /\ UNCHANGED sending
    \/ /\ sending = "no" /\ sending' = "note"
       /\ finishing' = [at |-> "upload", hold |-> h]
       /\ fate' = [fate EXCEPT ![h] = "uploading"]

\* The device stops, for the one who waited longest; a file is there for the first.
DeviceStopped(d) ==
    LET who == Head(stops[d]) IN
    /\ stops[d] # <<>> /\ stops' = [stops EXCEPT ![d] = Tail(@)]
    /\ on' = [on EXCEPT ![d] = 0]
    /\ IF who \in {"cancel", "finish"} THEN noteShown' = FALSE /\ noteLocked' = FALSE
       ELSE UNCHANGED <<noteShown, noteLocked>>
    /\ IF who # "finish" THEN UNCHANGED <<finishing, sending, fate>>
       ELSE \/ finishing' = NotFinishing /\ UNCHANGED <<sending, fate>>
            \/ on[d] # 0 /\ Recorded(on[d])
    /\ UNCHANGED <<gesture, medium, starts, slid, holds, touches, patient, opened>>

(***************************************************************************)
(* The upload, the call, and the outbox                                    *)
(***************************************************************************)

Becomes(h, f) == fate' = [fate EXCEPT ![h] = f]

\* uploadMedia: refused, which the user is told, or for the outbox when the network
\* failed.
UploadAnswered ==
    /\ finishing.at = "upload"
    /\ \/ finishing' = [finishing EXCEPT !.at = "send"] /\ UNCHANGED <<fate, sending>>
       \/ /\ finishing' = NotFinishing /\ sending' = "no"
          /\ Becomes(finishing.hold, "told") \/ Enqueues(finishing.hold)
    /\ UNCHANGED <<gesture, medium, noteShown, noteLocked, starts, on, stops, slid, holds, touches,
                   patient, opened>>

\* sendVoice or sendMessage, alike.
CallAnswered ==
    /\ finishing.at = "send" /\ finishing' = NotFinishing /\ sending' = "no"
    /\ \/ Becomes(finishing.hold, "sent") \/ Becomes(finishing.hold, "told")
       \/ Enqueues(finishing.hold)
    /\ UNCHANGED <<gesture, medium, noteShown, noteLocked, starts, on, stops, slid, holds, touches,
                   patient, opened>>

\* The flush of the outbox sends it, or tells the user that it cannot.
Flushed(h) ==
    /\ fate[h] = "queued"
    /\ \E f \in {"sent", "told"} : fate' = [fate EXCEPT ![h] = f]
    /\ UNCHANGED <<gesture, medium, noteShown, noteLocked, starts, on, stops, finishing, sending, slid,
                   holds, touches, patient, opened>>

\* Another message is sent by the same screen.
OtherSend ==
    /\ \/ opened /\ sending = "no" /\ sending' = "other"
       \/ sending = "other" /\ sending' = "no"
    /\ UNCHANGED <<gesture, medium, noteShown, noteLocked, starts, on, stops, finishing, fate, slid,
                   holds, touches, patient, opened>>

NoteNext ==
    \/ PressButton \/ SlideAway \/ SlideUp \/ LiftFinger \/ Rebuilt \/ SendLocked \/ CancelLocked
    \/ Toggle \/ HitMaxDuration \/ \E how \in {"button", "selecting", "system"} : Back(how)
    \/ \E d \in Device : DeviceStarted(d) \/ DeviceDenied(d) \/ DeviceStopped(d)
    \/ UploadAnswered \/ CallAnswered
    \/ \E h \in Hold : Flushed(h)
    \/ OtherSend

NoteSpec == NoteInit /\ [][NoteNext]_noteVars

(***************************************************************************)
(* Properties                                                              *)
(***************************************************************************)

NoteTypeOK ==
    /\ gesture \in {"none", "held", "locked", "cancelled"} /\ medium \in Device
    /\ {noteShown, noteLocked, patient, opened} \subseteq BOOLEAN
    /\ on \in [Device -> 0 .. MaxHold] /\ slid \subseteq Hold
    /\ \A d \in Device : /\ starts[d] \in Seq([hold : Hold, fresh : BOOLEAN])
                         /\ stops[d] \in Seq({"finish", "cancel", "undo", "release"})
    /\ finishing \in [at : {"no", "stop", "upload", "send"}, hold : 0 .. MaxHold]
    /\ sending \in {"no", "note", "other"}
    /\ fate \in [Hold -> {"none", "uploading", "queued", "sent", "told"}]

\* However presses, slides and answers of the recorders overlap: a recording the
\* user slid away is never sent.
SlidIsNeverSent == patient => \A h \in slid : fate[h] = "none"

\* A device that records is shown to, or is about to be stopped, unless the screen
\* was left with the system's gesture.
MicIsShown ==
    patient /\ opened => \A d \in Device : on[d] # 0 => (noteShown /\ medium = d) \/ stops[d] # <<>>

\* What the recorders do follows the finger.
NoteFollowsFinger == SlidIsNeverSent /\ MicIsShown
=================================================================================
