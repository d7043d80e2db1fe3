----------------------------- MODULE ScreensProofs -----------------------------
(* Screens of the mobile application: the microphone of Jonli is never left on  *)
(* with nobody to stop it, no bubble of Jonli waits for nothing, and what the   *)
(* recorders of the chat do follows the finger, for any number of turns,        *)
(* presses, taps and overlapping handlers.                                      *)
EXTENDS Jonli, VoiceNote, SequenceTheorems, TLAPS

Stopper == {"release", "pause", "undo", "reset", "photo", "dispose"}

\* MicAccounted is inductive as it stands; that the queue of stops is a sequence
\* is all it needs.
MicInv == closing \in Seq(Stopper) /\ MicAccounted

LEMMA AppendKeeps ==
    ASSUME NEW who \in Stopper, closing \in Seq(Stopper)
    PROVE  Append(closing, who) \in Seq(Stopper) /\ Append(closing, who) # <<>>
BY AppendProperties

LEMMA ClosesKeeps ==
    ASSUME NEW who \in Stopper, closing \in Seq(Stopper)
    PROVE  Closes(who) \in Seq(Stopper) /\ (recording => Closes(who) # <<>>)
BY AppendKeeps DEF Closes

\* What FinishHold leaves of the recorder, the queue and the timer.
LEMMA FinishHoldKeeps ==
    ASSUME MicInv, FinishHold, UNCHANGED recording
    PROVE  MicInv'
<1>1. CASE release.at # "no" \/ (mode = "idle" /\ ~recording)
  BY <1>1 DEF FinishHold, MicInv, MicAccounted
<1>2. CASE ~(release.at # "no" \/ (mode = "idle" /\ ~recording)) /\ recording
  <2>1. closing' = Append(closing, "release")
    BY <1>2 DEF FinishHold
  <2>2. "release" \in Stopper
    BY DEF Stopper
  <2> QED BY <2>1, <2>2, AppendKeeps DEF MicInv, MicAccounted
<1>3. CASE ~(release.at # "no" \/ (mode = "idle" /\ ~recording)) /\ ~recording
  BY <1>3 DEF FinishHold, MicInv, MicAccounted
<1> QED BY <1>1, <1>2, <1>3

\* Every step keeps the microphone accounted for.
LEMMA MicStep == MicInv /\ [JonliNext]_jonliVars => MicInv'
<1> SUFFICES ASSUME MicInv, [JonliNext]_jonliVars PROVE MicInv'
  OBVIOUS
<1> USE DEF MicInv
<1>1. CASE UNCHANGED <<recording, closing, mode, watch>>
  BY <1>1 DEF MicAccounted
<1>2. CASE AsksForMic
  BY <1>2 DEF AsksForMic, ShowsRecording, MicAccounted
<1>3. CASE MicStarts
  <2>1. CASE want
    BY <1>3, <2>1 DEF MicStarts, ShowsRecording, MicAccounted
  <2>2. CASE ~want
    <3>1. closing' = Append(closing, "undo") /\ "undo" \in Stopper
      BY <1>3, <2>2 DEF MicStarts, Stopper
    <3> QED BY <3>1, AppendKeeps DEF MicAccounted
  <2> QED BY <2>1, <2>2
<1>4. CASE Lift
  <2>1. CASE hold # "no"
    BY <1>4, <2>1 DEF Lift, MicAccounted
  <2>2. CASE hold = "no"
    BY <1>4, <2>2, FinishHoldKeeps DEF Lift
  <2> QED BY <2>1, <2>2
<1>5. CASE Tick
  BY <1>5, FinishHoldKeeps DEF Tick
<1>6. CASE RecorderStops
  <2>1. recording' = FALSE /\ closing # <<>> /\ closing' = Tail(closing)
    BY <1>6 DEF RecorderStops
  <2>2. closing' \in Seq(Stopper)
    BY <2>1, HeadTailProperties
  <2> QED BY <2>1, <2>2 DEF MicAccounted
<1>7. CASE Pause
  <2>1. closing' = Closes("pause") /\ recording' = recording
    BY <1>7 DEF Pause
  <2>2. "pause" \in Stopper
    BY DEF Stopper
  <2> QED BY <2>1, <2>2, ClosesKeeps DEF MicAccounted
<1>8. CASE Reset
  <2>1. closing' = Closes("reset") /\ recording' = recording
    BY <1>8 DEF Reset
  <2>2. "reset" \in Stopper
    BY DEF Stopper
  <2> QED BY <2>1, <2>2, ClosesKeeps DEF MicAccounted
<1>9. CASE Photo
  <2>1. CASE mode = "on"
    <3>1. closing' = Closes("photo") /\ recording' = recording
      BY <1>9, <2>1 DEF Photo
    <3>2. "photo" \in Stopper
      BY DEF Stopper
    <3> QED BY <3>1, <3>2, ClosesKeeps DEF MicAccounted
  <2>2. CASE mode # "on"
    BY <1>9, <2>2, <1>1 DEF Photo
  <2> QED BY <2>1, <2>2
<1>10. CASE Dispose
  <2>1. closing' = Closes("dispose") /\ recording' = recording
    BY <1>10 DEF Dispose
  <2>2. "dispose" \in Stopper
    BY DEF Stopper
  <2> QED BY <2>1, <2>2, ClosesKeeps DEF MicAccounted
<1>11. ASSUME NEW who \in {"hold", "again", "photo", "reset"},
              SessionStarts(who) \/ SessionFails(who) \/ TurnsAnswer(who)
       PROVE  UNCHANGED <<recording, closing, mode, watch>>
  BY <1>11 DEF SessionStarts, SessionFails, TurnsAnswer, GoesOn
<1>12. ASSUME NEW file \in BOOLEAN, Picked(file)
       PROVE  UNCHANGED <<recording, closing, mode, watch>>
  BY <1>12 DEF Picked
<1>13. ASSUME NEW t \in Turn, RetryTurn(t)
       PROVE  UNCHANGED <<recording, closing, mode, watch>>
  BY <1>13 DEF RetryTurn
<1>14. ASSUME Press \/ MicDenied \/ SessionEnded \/ OpenHistory
       PROVE  UNCHANGED <<recording, closing, mode, watch>>
  BY <1>14 DEF Press, MicDenied, SessionEnded, OpenHistory
<1>15. ASSUME ReleaseAnswered \/ PlayEnds \/ RetryAnswered \/ PhotoAnswered
       PROVE  UNCHANGED <<recording, closing, mode, watch>>
  BY <1>15 DEF ReleaseAnswered, PlayEnds, RetryAnswered, PhotoAnswered
<1>16. CASE UNCHANGED jonliVars
  BY <1>16, <1>1 DEF jonliVars
<1> QED
  BY <1>1, <1>2, <1>3, <1>4, <1>5, <1>6, <1>7, <1>8, <1>9, <1>10, <1>11, <1>12, <1>13,
     <1>14, <1>15, <1>16 DEF JonliNext

\* A microphone that is on (VoiceRecorderService.isRecording) is about to be
\* stopped, or shown with its timer set, whatever the user does meanwhile.
THEOREM MicNeverForgotten == JonliSpec => []MicAccounted
<1>1. JonliInit => MicInv
  BY DEF JonliInit, MicInv, MicAccounted
<1>2. MicInv => MicAccounted
  BY DEF MicInv
<1> QED BY <1>1, <1>2, MicStep, PTL DEF JonliSpec

(***************************************************************************)
(* Jonli: the inductive invariant of NoOrphanTurn                          *)
(***************************************************************************)

Bubbles == {"none", "pending", "failed", "unread", "done"}

BubbleTypes ==
    /\ mode \in {"idle", "on"} /\ closing \in Seq(Stopper)
    /\ turns \in [Turn -> Bubbles]
    /\ again = [at |-> again.at, turn |-> again.turn]
    /\ photo = [at |-> photo.at, turn |-> photo.turn]

WantHeld == want => finger
HoldAlone == hold # "no" => mode = "idle" /\ release.at = "no"
OnHeld == mode = "on" => release.at = "stop" \/ (release.at = "no" /\ finger)

\* Only the release that waits for a stop is queued for it, once, and so for the
\* photo.
WaitsIn(s, who) == \E i \in DOMAIN s : s[i] = who
OnceIn(s, who) == \A i, j \in DOMAIN s : s[i] = who /\ s[j] = who => i = j
StopsHeld ==
    /\ WaitsIn(closing, "release") => release.at = "stop"
    /\ WaitsIn(closing, "photo") => photo.at = "cancel"
    /\ OnceIn(closing, "release") /\ OnceIn(closing, "photo")

\* A handler has a turn only while it uploads; a retry also while it waits for a
\* session.
TurnsHeld ==
    /\ release.at # "upload" => release.turn = NoTurn
    /\ photo.at # "upload" => photo.turn = NoTurn
    /\ again.at \in {"no", "play"} => again.turn = NoTurn

\* The waiting of the handlers, whoever taps.
HandlersHeld == WantHeld /\ HoldAlone /\ OnHeld /\ StopsHeld /\ TurnsHeld

\* For a user who does one thing at a time the screen knows a turn only while it
\* records, and a bubble that shows progress is claimed.  The turn of a retry
\* claims its bubble only once it uploads.
MineShown == mine # NoTurn => mode = "on" \/ release.at = "stop"
Claimed ==
    \A t \in Turn : turns[t] = "pending" =>
        \/ t \in {mine, release.turn, photo.turn} \cup refused
        \/ again.at = "upload" /\ t = again.turn
BubblesHeld == single /\ ~disposed => MineShown /\ Claimed

BubbleInv == BubbleTypes /\ HandlersHeld /\ BubblesHeld

LEMMA AppendWaits ==
    ASSUME NEW s \in Seq(Stopper), NEW who \in Stopper, NEW x
    PROVE  /\ Append(s, who) \in Seq(Stopper)
           /\ WaitsIn(Append(s, who), x) => x = who \/ WaitsIn(s, x)
           /\ OnceIn(s, x) /\ (x # who \/ ~WaitsIn(s, x)) => OnceIn(Append(s, who), x)
<1> DEFINE a == Append(s, who)
<1>1. /\ a \in Seq(Stopper) /\ Len(a) = Len(s) + 1 /\ a[Len(s) + 1] = who
      /\ \A i \in 1 .. Len(s) : a[i] = s[i]
  BY AppendProperties
<1>2. Len(s) \in Nat /\ DOMAIN s = 1 .. Len(s) /\ DOMAIN a = 1 .. (Len(s) + 1)
  BY <1>1, LenProperties
<1>3. \A i \in DOMAIN a : a[i] = x => (i = Len(s) + 1 /\ x = who) \/ (i \in DOMAIN s /\ s[i] = x)
  BY <1>1, <1>2
<1>4. WaitsIn(a, x) => x = who \/ WaitsIn(s, x)
  BY <1>3 DEF WaitsIn
<1>5. OnceIn(s, x) /\ (x # who \/ ~WaitsIn(s, x)) => OnceIn(a, x)
  <2> HIDE DEF a
  <2> QED BY <1>3 DEF WaitsIn, OnceIn
<1> QED BY <1>1, <1>4, <1>5

LEMMA TailWaits ==
    ASSUME NEW s \in Seq(Stopper), s # <<>>, NEW x
    PROVE  /\ Tail(s) \in Seq(Stopper) /\ WaitsIn(s, Head(s)) /\ Head(s) \in Stopper
           /\ WaitsIn(Tail(s), x) => WaitsIn(s, x)
           /\ OnceIn(s, x) => OnceIn(Tail(s), x)
           /\ OnceIn(s, x) /\ x = Head(s) => ~WaitsIn(Tail(s), x)
<1> DEFINE a == Tail(s)
<1>1. /\ a \in Seq(Stopper) /\ Len(a) = Len(s) - 1 /\ \A i \in 1 .. Len(a) : a[i] = s[i + 1]
      /\ Head(s) = s[1] /\ Head(s) \in Stopper
  BY HeadTailProperties
<1>2. Len(s) \in Nat /\ Len(s) > 0 /\ DOMAIN s = 1 .. Len(s) /\ DOMAIN a = 1 .. Len(a)
  BY <1>1, LenProperties, EmptySeq
<1>3. 1 \in DOMAIN s
  BY <1>2
<1>4. \A i \in DOMAIN a : i + 1 \in DOMAIN s /\ a[i] = s[i + 1] /\ i + 1 # 1 /\ i \in Nat
  BY <1>1, <1>2
<1> HIDE DEF a
<1>5. WaitsIn(s, Head(s))
  BY <1>1, <1>3 DEF WaitsIn
<1>6. WaitsIn(a, x) => WaitsIn(s, x)
  BY <1>4 DEF WaitsIn
<1>7. OnceIn(s, x) => OnceIn(a, x)
  <2> SUFFICES ASSUME OnceIn(s, x), NEW i \in DOMAIN a, NEW j \in DOMAIN a, a[i] = x, a[j] = x
               PROVE  i = j
    BY DEF OnceIn
  <2>1. i + 1 = j + 1
    BY <1>4 DEF OnceIn
  <2> QED BY <2>1, <1>4
<1>8. OnceIn(s, x) /\ x = Head(s) => ~WaitsIn(a, x)
  BY <1>1, <1>3, <1>4 DEF OnceIn, WaitsIn
<1> QED BY <1>1, <1>5, <1>6, <1>7, <1>8 DEF a

\* One more waits for a stop: a release or a photo only when it did not.
LEMMA StopsAppended ==
    ASSUME BubbleTypes, StopsHeld, NEW who \in Stopper, closing' = Append(closing, who),
           IF who = "release" THEN release.at # "stop" /\ release'.at = "stop"
           ELSE release'.at = release.at,
           IF who = "photo" THEN photo.at # "cancel" /\ photo'.at = "cancel"
           ELSE photo'.at = photo.at
    PROVE  closing' \in Seq(Stopper) /\ StopsHeld'
<1>1. closing \in Seq(Stopper)
  BY DEF BubbleTypes
<1>2. closing' \in Seq(Stopper)
  BY <1>1, AppendWaits
<1>3. WaitsIn(closing', "release") => who = "release" \/ WaitsIn(closing, "release")
  BY <1>1, AppendWaits
<1>4. WaitsIn(closing', "photo") => who = "photo" \/ WaitsIn(closing, "photo")
  BY <1>1, AppendWaits
<1>5. OnceIn(closing', "release")
  <2>1. "release" # who \/ ~WaitsIn(closing, "release")
    BY DEF StopsHeld
  <2>2. OnceIn(closing, "release")
    BY DEF StopsHeld
  <2> QED BY <1>1, <2>1, <2>2, AppendWaits
<1>6. OnceIn(closing', "photo")
  <2>1. "photo" # who \/ ~WaitsIn(closing, "photo")
    BY DEF StopsHeld
  <2>2. OnceIn(closing, "photo")
    BY DEF StopsHeld
  <2> QED BY <1>1, <2>1, <2>2, AppendWaits
<1> QED BY <1>2, <1>3, <1>4, <1>5, <1>6 DEF StopsHeld

LEMMA StopsClosed ==
    ASSUME BubbleTypes, StopsHeld, NEW who \in Stopper \ {"release", "photo"},
           closing' = Closes(who), UNCHANGED <<release, photo>>
    PROVE  closing' \in Seq(Stopper) /\ StopsHeld'
<1>1. CASE recording
  BY <1>1, StopsAppended DEF Closes
<1>2. CASE ~recording
  BY <1>2 DEF Closes, StopsHeld, BubbleTypes
<1> QED BY <1>1, <1>2

LEMMA StopsUntouched ==
    ASSUME StopsHeld, closing' = closing,
           release.at = "stop" => release'.at = "stop", photo.at = "cancel" => photo'.at = "cancel"
    PROVE  StopsHeld'
BY DEF StopsHeld

\* What becomes of the bubbles.
LEMMA ShowKeeps ==
    ASSUME turns \in [Turn -> Bubbles], NEW t, NEW b \in Bubbles
    PROVE  /\ Show(t, b) \in [Turn -> Bubbles]
           /\ \A u \in Turn : Show(t, b)[u] = IF u = t THEN b ELSE turns[u]
BY DEF Show

LEMMA DroppedKeeps ==
    ASSUME turns \in [Turn -> Bubbles], NEW t
    PROVE  /\ Dropped(t) \in [Turn -> Bubbles]
           /\ \A u \in Turn : Dropped(t)[u] = "pending" => u # t /\ turns[u] = "pending"
<1>1. NoTurn \notin Turn
  BY JonliAssumption DEF JonliAssumption
<1>2. "none" \in Bubbles /\ "none" # "pending"
  BY DEF Bubbles
<1>3. CASE t = NoTurn
  BY <1>1, <1>3 DEF Dropped
<1>4. CASE t # NoTurn
  BY <1>2, <1>4, ShowKeeps DEF Dropped
<1> QED BY <1>3, <1>4

LEMMA PressBubbles == ASSUME BubbleInv, Press PROVE BubbleInv'
<1> USE DEF BubbleInv
<1>1. BubbleTypes'
  BY DEF Press, shown, BubbleTypes
<1>2. StopsHeld'
  BY StopsUntouched DEF Press, HandlersHeld
<1>3. WantHeld' /\ HoldAlone' /\ OnHeld' /\ TurnsHeld'
  BY DEF Press, HandlersHeld, BubbleTypes, WantHeld, HoldAlone, OnHeld, TurnsHeld
<1>4. BubblesHeld'
  BY DEF Press, shown, BubblesHeld, MineShown, Claimed
<1> QED BY <1>1, <1>2, <1>3, <1>4 DEF HandlersHeld

\* A recording is shown for a hold that is wanted.
LEMMA ShownBubbles ==
    ASSUME BubbleInv, hold # "no", want, ShowsRecording,
           UNCHANGED <<release, again, photo, reset, flags, closing>>
    PROVE  BubbleInv'
<1> USE DEF BubbleInv
<1>1. "pending" \in Bubbles
  BY DEF Bubbles
<1>2. BubbleTypes'
  BY <1>1, ShowKeeps DEF ShowsRecording, BubbleTypes
<1>3. StopsHeld'
  BY StopsUntouched DEF HandlersHeld
<1>4. WantHeld' /\ HoldAlone' /\ OnHeld' /\ TurnsHeld'
  BY DEF ShowsRecording, flags, HandlersHeld, WantHeld, HoldAlone, OnHeld, TurnsHeld
<1>5. ASSUME single', ~disposed' PROVE MineShown' /\ Claimed'
  <2>1. MineShown /\ Claimed /\ mine = NoTurn
    BY <1>5 DEF flags, BubblesHeld, MineShown, HandlersHeld, HoldAlone
  <2>2. MineShown'
    BY DEF ShowsRecording, MineShown
  <2>3. \A u \in Turn : turns'[u] = "pending" => u = mine' \/ turns[u] = "pending"
    BY <1>1, ShowKeeps DEF ShowsRecording, BubbleTypes
  <2>4. NoTurn \notin Turn
    BY JonliAssumption DEF JonliAssumption
  <2> QED BY <2>1, <2>2, <2>3, <2>4 DEF Claimed, ShowsRecording
<1> QED BY <1>2, <1>3, <1>4, <1>5 DEF HandlersHeld, BubblesHeld

LEMMA AsksBubbles == ASSUME BubbleInv, AsksForMic PROVE BubbleInv'
<1>1. CASE want /\ recording
  BY <1>1, ShownBubbles DEF AsksForMic
<1>2. CASE ~(want /\ recording)
  <2> USE <1>2 DEF BubbleInv
  <2>1. BubbleTypes'
    BY DEF AsksForMic, shown, BubbleTypes
  <2>2. StopsHeld'
    BY StopsUntouched DEF AsksForMic, HandlersHeld
  <2>3. WantHeld' /\ HoldAlone' /\ OnHeld' /\ TurnsHeld'
    BY DEF AsksForMic, flags, HandlersHeld, WantHeld, HoldAlone, OnHeld, TurnsHeld
  <2>4. BubblesHeld'
    BY DEF AsksForMic, flags, shown, BubblesHeld, MineShown, Claimed
  <2> QED BY <2>1, <2>2, <2>3, <2>4 DEF HandlersHeld
<1> QED BY <1>1, <1>2

LEMMA MicBubbles == ASSUME BubbleInv, MicStarts PROVE BubbleInv'
<1>1. CASE want
  BY <1>1, ShownBubbles DEF MicStarts
<1>2. CASE ~want
  <2> USE <1>2 DEF BubbleInv
  <2>1. closing' \in Seq(Stopper) /\ StopsHeld'
    <3>1. closing' = Append(closing, "undo") /\ "undo" \in Stopper
      BY DEF MicStarts, Stopper
    <3>2. UNCHANGED <<release, photo>>
      BY DEF MicStarts
    <3> QED BY <3>1, <3>2, StopsAppended DEF HandlersHeld
  <2>2. BubbleTypes'
    BY <2>1 DEF MicStarts, shown, BubbleTypes
  <2>3. WantHeld' /\ HoldAlone' /\ OnHeld' /\ TurnsHeld'
    BY DEF MicStarts, flags, HandlersHeld, WantHeld, HoldAlone, OnHeld, TurnsHeld
  <2>4. BubblesHeld'
    BY DEF MicStarts, flags, shown, BubblesHeld, MineShown, Claimed
  <2> QED BY <2>1, <2>2, <2>3, <2>4 DEF HandlersHeld
<1> QED BY <1>1, <1>2

\* FinishHold: the recorder is asked to stop, or the bubble goes.
LEMMA FinishBubbles ==
    ASSUME BubbleInv, FinishHold, hold = "no", WantHeld',
           UNCHANGED <<hold, again, photo, single, disposed, recording>>
    PROVE  BubbleInv'
<1> USE DEF BubbleInv
<1>1. CASE release.at # "no" \/ (mode = "idle" /\ ~recording)
  <2> USE <1>1
  <2>1. UNCHANGED <<release, closing, mode, turns, mine, refused>>
    BY DEF FinishHold, shown
  <2>2. BubbleTypes'
    BY <2>1 DEF BubbleTypes
  <2>3. StopsHeld'
    BY <2>1, StopsUntouched DEF HandlersHeld
  <2>4. HoldAlone' /\ OnHeld' /\ TurnsHeld'
    BY <2>1 DEF HandlersHeld, HoldAlone, OnHeld, TurnsHeld
  <2>5. BubblesHeld'
    BY <2>1 DEF BubblesHeld, MineShown, Claimed
  <2> QED BY <2>2, <2>3, <2>4, <2>5 DEF HandlersHeld
<1>2. CASE ~(release.at # "no" \/ (mode = "idle" /\ ~recording)) /\ recording
  <2> USE <1>2
  <2>1. /\ release' = [at |-> "stop", turn |-> NoTurn] /\ closing' = Append(closing, "release")
        /\ UNCHANGED <<mode, turns, mine, refused>>
    BY DEF FinishHold, shown, Off
  <2>2. closing' \in Seq(Stopper) /\ StopsHeld'
    <3>1. "release" \in Stopper
      BY DEF Stopper
    <3> QED BY <2>1, <3>1, StopsAppended DEF HandlersHeld
  <2>3. BubbleTypes'
    BY <2>1, <2>2 DEF BubbleTypes
  <2>4. HoldAlone' /\ OnHeld' /\ TurnsHeld'
    BY <2>1 DEF HandlersHeld, HoldAlone, OnHeld, TurnsHeld
  <2>5. BubblesHeld'
    <3>1. release.turn = release'.turn
      BY <2>1 DEF HandlersHeld, TurnsHeld
    <3> QED BY <2>1, <3>1 DEF BubblesHeld, MineShown, Claimed
  <2> QED BY <2>2, <2>3, <2>4, <2>5 DEF HandlersHeld
<1>3. CASE ~(release.at # "no" \/ (mode = "idle" /\ ~recording)) /\ ~recording
  <2> USE <1>3
  <2>1. /\ mode' = "idle" /\ turns' = Dropped(mine) /\ mine' = NoTurn
        /\ UNCHANGED <<release, closing, refused>>
    BY DEF FinishHold
  <2>2. turns' \in [Turn -> Bubbles] /\ \A u \in Turn : turns'[u] = "pending" => u # mine /\ turns[u] = "pending"
    BY <2>1, DroppedKeeps DEF BubbleTypes
  <2>3. BubbleTypes'
    BY <2>1, <2>2 DEF BubbleTypes
  <2>4. StopsHeld'
    BY <2>1, StopsUntouched DEF HandlersHeld
  <2>5. HoldAlone' /\ OnHeld' /\ TurnsHeld'
    BY <2>1 DEF HandlersHeld, HoldAlone, OnHeld, TurnsHeld
  <2>6. BubblesHeld'
    BY <2>1, <2>2 DEF BubblesHeld, MineShown, Claimed
  <2> QED BY <2>3, <2>4, <2>5, <2>6 DEF HandlersHeld
<1> QED BY <1>1, <1>2, <1>3

LEMMA LiftBubbles == ASSUME BubbleInv, Lift PROVE BubbleInv'
<1>1. WantHeld'
  BY DEF Lift, WantHeld
<1>2. CASE hold # "no"
  <2> USE <1>2 DEF BubbleInv
  <2>1. UNCHANGED <<hold, again, photo, single, disposed, release, closing, mode, turns, mine, refused>>
    BY DEF Lift, shown
  <2>2. mode = "idle"
    BY DEF HandlersHeld, HoldAlone
  <2>3. BubbleTypes'
    BY <2>1 DEF BubbleTypes
  <2>4. StopsHeld'
    BY <2>1, StopsUntouched DEF HandlersHeld
  <2>5. HoldAlone' /\ OnHeld' /\ TurnsHeld'
    BY <2>1, <2>2 DEF HandlersHeld, HoldAlone, OnHeld, TurnsHeld
  <2>6. BubblesHeld'
    BY <2>1 DEF BubblesHeld, MineShown, Claimed
  <2> QED BY <1>1, <2>3, <2>4, <2>5, <2>6 DEF HandlersHeld
<1>3. CASE hold = "no"
  <2>1. FinishHold /\ UNCHANGED <<hold, again, photo, single, disposed, recording>>
    BY <1>3 DEF Lift
  <2> QED BY <1>1, <1>3, <2>1, FinishBubbles
<1> QED BY <1>2, <1>3

LEMMA TickBubbles == ASSUME BubbleInv, Tick PROVE BubbleInv'
<1>1. WantHeld'
  BY DEF Tick, flags, WantHeld, BubbleInv, HandlersHeld
<1>2. hold = "no"
  BY DEF Tick, BubbleInv, HandlersHeld, HoldAlone
<1>3. FinishHold /\ UNCHANGED <<hold, again, photo, single, disposed, recording>>
  BY DEF Tick, flags
<1> QED BY <1>1, <1>2, <1>3, FinishBubbles

\* The recorder stops for the one that waited longest.
LEMMA StopsTaken ==
    ASSUME BubbleInv, closing # <<>>, closing' = Tail(closing),
           Head(closing) = "release" \/ release' = release,
           Head(closing) = "photo" \/ photo' = photo
    PROVE  closing' \in Seq(Stopper) /\ StopsHeld'
<1>1. closing \in Seq(Stopper) /\ StopsHeld
  BY DEF BubbleInv, BubbleTypes, HandlersHeld
<1>2. closing' \in Seq(Stopper)
  BY <1>1, TailWaits
<1>3. WaitsIn(closing', "release") => release'.at = "stop"
  <2>1. CASE Head(closing) = "release"
    <3>1. OnceIn(closing, "release")
      BY <1>1 DEF StopsHeld
    <3> QED BY <1>1, <2>1, <3>1, TailWaits
  <2>2. CASE Head(closing) # "release"
    <3>1. WaitsIn(closing', "release") => WaitsIn(closing, "release")
      BY <1>1, TailWaits
    <3> QED BY <1>1, <2>2, <3>1 DEF StopsHeld
  <2> QED BY <2>1, <2>2
<1>4. WaitsIn(closing', "photo") => photo'.at = "cancel"
  <2>1. CASE Head(closing) = "photo"
    <3>1. OnceIn(closing, "photo")
      BY <1>1 DEF StopsHeld
    <3> QED BY <1>1, <2>1, <3>1, TailWaits
  <2>2. CASE Head(closing) # "photo"
    <3>1. WaitsIn(closing', "photo") => WaitsIn(closing, "photo")
      BY <1>1, TailWaits
    <3> QED BY <1>1, <2>2, <3>1 DEF StopsHeld
  <2> QED BY <2>1, <2>2
<1>5. OnceIn(closing', "release")
  <2>1. OnceIn(closing, "release")
    BY <1>1 DEF StopsHeld
  <2> QED BY <1>1, <2>1, TailWaits
<1>6. OnceIn(closing', "photo")
  <2>1. OnceIn(closing, "photo")
    BY <1>1 DEF StopsHeld
  <2> QED BY <1>1, <2>1, TailWaits
<1> QED BY <1>2, <1>3, <1>4, <1>5, <1>6 DEF StopsHeld

\* The one whose stop it is waits for it.
LEMMA FirstWaits ==
    ASSUME BubbleInv, closing # <<>>
    PROVE  /\ Head(closing) = "release" => release.at = "stop"
           /\ Head(closing) = "photo" => photo.at = "cancel"
<1>1. closing \in Seq(Stopper) /\ StopsHeld
  BY DEF BubbleInv, BubbleTypes, HandlersHeld
<1>2. WaitsIn(closing, Head(closing))
  BY <1>1, TailWaits
<1> QED BY <1>1, <1>2 DEF StopsHeld

\* The bubbles of a recording that ends: it is uploaded, kept for want of a
\* session, or dropped.
LEMMA StoppedBubbles ==
    ASSUME BubbleInv, NEW good, Stopped(good), release.at = "stop",
           closing' \in Seq(Stopper), StopsHeld',
           UNCHANGED <<hold, photo, again, flags, session>>
    PROVE  BubbleInv'
<1> DEFINE t == IF mine = NoTurn THEN Fresh ELSE mine
<1> USE DEF BubbleInv
<1>1. NoTurn \notin Turn /\ "pending" \in Bubbles
  BY JonliAssumption DEF JonliAssumption, Bubbles
<1>2. mode' = "idle" /\ mine' = NoTurn /\ hold = "no" /\ release.turn = NoTurn
  BY DEF Stopped, HandlersHeld, HoldAlone, TurnsHeld
<1>3. WantHeld' /\ HoldAlone' /\ OnHeld'
  BY <1>2 DEF flags, HandlersHeld, WantHeld, HoldAlone, OnHeld
<1>4. UNCHANGED <<single, disposed>>
  BY DEF flags
<1>5. CASE good /\ session
  <2>1. release' = [at |-> "upload", turn |-> t] /\ turns' = Show(t, "pending") /\ refused' = refused
    BY <1>5 DEF Stopped, Uploads
  <2> HIDE DEF t
  <2>2. turns' \in [Turn -> Bubbles] /\ \A u \in Turn : turns'[u] = "pending" => u = t \/ turns[u] = "pending"
    BY <1>1, <2>1, ShowKeeps DEF BubbleTypes
  <2>3. BubbleTypes'
    BY <1>2, <2>2 DEF BubbleTypes
  <2>4. TurnsHeld'
    BY <2>1 DEF HandlersHeld, TurnsHeld
  <2>5. \A u \in Turn : u = mine => u = t
    BY <1>1 DEF t
  <2>6. BubblesHeld'
    BY <1>1, <1>2, <1>4, <2>1, <2>2, <2>5 DEF BubblesHeld, MineShown, Claimed
  <2> QED BY <1>3, <2>3, <2>4, <2>6 DEF HandlersHeld
<1>6. CASE good /\ ~session
  <2>1. release' = Off /\ turns' = turns /\ refused' = refused \cup {t}
    BY <1>6 DEF Stopped, Uploads
  <2> HIDE DEF t
  <2>2. BubbleTypes'
    BY <1>2, <2>1 DEF BubbleTypes
  <2>3. TurnsHeld'
    BY <2>1 DEF HandlersHeld, TurnsHeld, Off
  <2>4. \A u \in Turn : u = mine => u = t
    BY <1>1 DEF t
  <2>5. BubblesHeld'
    BY <1>1, <1>2, <1>4, <2>1, <2>4 DEF BubblesHeld, MineShown, Claimed
  <2> QED BY <1>3, <2>2, <2>3, <2>5 DEF HandlersHeld
<1>7. CASE ~good
  <2>1. release' = Off /\ turns' = Dropped(mine) /\ refused' = refused
    BY <1>7 DEF Stopped
  <2>2. turns' \in [Turn -> Bubbles] /\ \A u \in Turn : turns'[u] = "pending" => u # mine /\ turns[u] = "pending"
    BY <2>1, DroppedKeeps DEF BubbleTypes
  <2>3. BubbleTypes'
    BY <1>2, <2>2 DEF BubbleTypes
  <2>4. TurnsHeld'
    BY <2>1 DEF HandlersHeld, TurnsHeld, Off
  <2>5. BubblesHeld'
    BY <1>1, <1>2, <1>4, <2>1, <2>2 DEF BubblesHeld, MineShown, Claimed
  <2> QED BY <1>3, <2>3, <2>4, <2>5 DEF HandlersHeld
<1> QED BY <1>5, <1>6, <1>7

LEMMA StopBubbles == ASSUME BubbleInv, RecorderStops PROVE BubbleInv'
<1>1. closing # <<>> /\ closing' = Tail(closing) /\ UNCHANGED <<again, flags, session>>
  BY DEF RecorderStops
<1>2. Head(closing) = "release" \/ release' = release
  BY DEF RecorderStops
<1>3. Head(closing) = "photo" \/ photo' = photo
  BY DEF RecorderStops
<1>4. closing' \in Seq(Stopper) /\ StopsHeld'
  BY <1>1, <1>2, <1>3, StopsTaken
<1>5. CASE Head(closing) = "release"
  <2>1. UNCHANGED <<hold, photo>> /\ \E good \in {TRUE, FALSE} : Stopped(good)
    BY <1>5 DEF RecorderStops
  <2>2. PICK good \in {TRUE, FALSE} : Stopped(good)
    BY <2>1
  <2>3. release.at = "stop"
    BY <1>1, <1>5, FirstWaits
  <2> QED BY <1>1, <1>4, <2>1, <2>2, <2>3, StoppedBubbles
<1> USE DEF BubbleInv
<1>6. CASE Head(closing) # "release"
  <2>1. NoTurn \notin Turn /\ "none" \in Bubbles
    BY JonliAssumption DEF JonliAssumption, Bubbles
  <2>2. release' = release /\ refused' = refused /\ UNCHANGED <<want, finger, single, disposed>>
    BY <1>1, <1>2, <1>6 DEF RecorderStops, flags, shown
  <2>3. (mode' = "idle" /\ mine' = NoTurn) \/ UNCHANGED <<mode, mine>>
    BY <1>6 DEF RecorderStops, shown
  <2>4. turns' = turns \/ turns' = Dropped(mine) \/ turns' = [u \in Turn |-> "none"]
    BY <1>6 DEF RecorderStops, shown
  <2>5. mine' = mine \/ turns' = Dropped(mine) \/ turns' = [u \in Turn |-> "none"]
    BY <1>6 DEF RecorderStops, shown
  <2>6. hold' = hold \/ hold' = "no"
    BY <1>6 DEF RecorderStops
  <2>7. photo' = photo \/ (photo.turn = NoTurn /\ photo'.turn = NoTurn
                          /\ photo' = [at |-> photo'.at, turn |-> photo'.turn])
    <3>1. CASE Head(closing) = "photo"
      <4>1. photo.turn = NoTurn
        BY <1>1, <3>1, FirstWaits DEF HandlersHeld, TurnsHeld
      <4>2. \E at \in {"pick", "session"} : photo' = [at |-> at, turn |-> NoTurn]
        BY <3>1 DEF RecorderStops, Off
      <4> QED BY <4>1, <4>2
    <3>2. CASE Head(closing) # "photo"
      BY <1>3, <3>2
    <3> QED BY <3>1, <3>2
  <2>8. turns' \in [Turn -> Bubbles] /\ \A u \in Turn : turns'[u] = "pending" => turns[u] = "pending"
    <3>1. CASE turns' = [u \in Turn |-> "none"]
      BY <2>1, <3>1 DEF BubbleTypes
    <3>2. CASE turns' # [u \in Turn |-> "none"]
      BY <2>4, <3>2, DroppedKeeps DEF BubbleTypes
    <3> QED BY <3>1, <3>2
  <2>9. \A u \in Turn : turns'[u] = "pending" => u # mine \/ mine' = mine
    <3>1. CASE turns' = [u \in Turn |-> "none"]
      BY <3>1
    <3>2. CASE turns' # [u \in Turn |-> "none"]
      BY <2>5, <3>2, DroppedKeeps DEF BubbleTypes
    <3> QED BY <3>1, <3>2
  <2>10. BubbleTypes'
    BY <1>1, <1>4, <2>3, <2>7, <2>8 DEF BubbleTypes
  <2>11. WantHeld' /\ HoldAlone' /\ OnHeld'
    BY <2>2, <2>3, <2>6 DEF HandlersHeld, WantHeld, HoldAlone, OnHeld
  <2>12. TurnsHeld'
    BY <1>1, <2>2, <2>7 DEF HandlersHeld, TurnsHeld
  <2>13. ASSUME single', ~disposed' PROVE MineShown' /\ Claimed'
    <3>1. MineShown /\ Claimed
      BY <2>2, <2>13 DEF BubblesHeld
    <3>2. MineShown'
      BY <2>2, <2>3, <3>1 DEF MineShown
    <3>3. photo'.turn = photo.turn
      BY <2>7
    <3>4. Claimed'
      BY <1>1, <2>2, <2>8, <2>9, <3>1, <3>3 DEF Claimed
    <3> QED BY <3>2, <3>4
  <2> QED BY <1>4, <2>10, <2>11, <2>12, <2>13 DEF HandlersHeld, BubblesHeld
<1> QED BY <1>5, <1>6

LEMMA PauseBubbles == ASSUME BubbleInv, Pause PROVE BubbleInv'
<1> USE DEF BubbleInv
<1>1. /\ want' = FALSE /\ mode' = "idle" /\ turns' = Dropped(mine) /\ mine' = NoTurn
      /\ closing' = Closes("pause")
      /\ UNCHANGED <<hold, release, again, photo, finger, single, disposed, refused>>
  BY DEF Pause, chains
<1>2. closing' \in Seq(Stopper) /\ StopsHeld'
  <2>1. "pause" \in Stopper \ {"release", "photo"}
    BY DEF Stopper
  <2> QED BY <1>1, <2>1, StopsClosed DEF HandlersHeld
<1>3. turns' \in [Turn -> Bubbles] /\ \A u \in Turn : turns'[u] = "pending" => u # mine /\ turns[u] = "pending"
  BY <1>1, DroppedKeeps DEF BubbleTypes
<1>4. BubbleTypes'
  BY <1>1, <1>2, <1>3 DEF BubbleTypes
<1>5. WantHeld' /\ HoldAlone' /\ OnHeld' /\ TurnsHeld'
  BY <1>1 DEF HandlersHeld, WantHeld, HoldAlone, OnHeld, TurnsHeld
<1>6. BubblesHeld'
  BY <1>1, <1>3 DEF BubblesHeld, MineShown, Claimed
<1> QED BY <1>2, <1>4, <1>5, <1>6 DEF HandlersHeld

LEMMA ResetBubbles == ASSUME BubbleInv, Reset PROVE BubbleInv'
<1> USE DEF BubbleInv
<1>1. /\ want' = FALSE /\ mode' \in {mode, "idle"} /\ closing' = Closes("reset")
      /\ UNCHANGED <<hold, release, again, photo, finger, single, disposed, mine, refused>>
      /\ single => ~finger
  BY DEF Reset
<1>2. closing' \in Seq(Stopper) /\ StopsHeld'
  <2>1. "reset" \in Stopper \ {"release", "photo"}
    BY DEF Stopper
  <2> QED BY <1>1, <2>1, StopsClosed DEF HandlersHeld
<1>3. turns' \in [Turn -> Bubbles] /\ \A u \in Turn : turns'[u] = "pending" => turns[u] = "pending"
  <2>1. turns' = turns \/ turns' = [u \in Turn |-> "none"]
    BY DEF Reset
  <2> QED BY <2>1 DEF BubbleTypes, Bubbles
<1>4. BubbleTypes'
  BY <1>1, <1>2, <1>3 DEF BubbleTypes
<1>5. WantHeld' /\ HoldAlone' /\ OnHeld' /\ TurnsHeld'
  BY <1>1 DEF HandlersHeld, WantHeld, HoldAlone, OnHeld, TurnsHeld
<1>6. BubblesHeld'
  BY <1>1, <1>3 DEF HandlersHeld, OnHeld, BubblesHeld, MineShown, Claimed
<1> QED BY <1>2, <1>4, <1>5, <1>6 DEF HandlersHeld

LEMMA DisposeBubbles == ASSUME BubbleInv, Dispose PROVE BubbleInv'
<1> USE DEF BubbleInv
<1>1. /\ closing' = Closes("dispose") /\ disposed'
      /\ UNCHANGED <<hold, release, again, photo, finger, want, mode, turns>>
  BY DEF Dispose, chains, shown
<1>2. closing' \in Seq(Stopper) /\ StopsHeld'
  <2>1. "dispose" \in Stopper \ {"release", "photo"}
    BY DEF Stopper
  <2> QED BY <1>1, <2>1, StopsClosed DEF HandlersHeld
<1>3. BubbleTypes'
  BY <1>1, <1>2 DEF BubbleTypes
<1>4. WantHeld' /\ HoldAlone' /\ OnHeld' /\ TurnsHeld'
  BY <1>1 DEF HandlersHeld, WantHeld, HoldAlone, OnHeld, TurnsHeld
<1> QED BY <1>1, <1>2, <1>3, <1>4 DEF HandlersHeld, BubblesHeld

\* A handler that leaves the recorder and the hold alone: the turns it gives up
\* show no progress any more, unless premium is asked for them.
LEMMA QuietBubbles ==
    ASSUME BubbleInv, UNCHANGED <<finger, want, single, disposed, mine, mode, closing>>,
           hold' \in {hold, "no"} \/ (hold # "no" /\ hold' # "no"),
           release' = release \/ (release.at \notin {"no", "stop"} /\ release'.at # "upload"
                                  /\ release'.turn = NoTurn),
           again' = [at |-> again'.at, turn |-> again'.turn],
           again'.at \in {"no", "play"} => again'.turn = NoTurn,
           photo' = [at |-> photo'.at, turn |-> photo'.turn],
           photo'.at # "upload" => photo'.turn = NoTurn,
           photo.at = "cancel" => photo'.at = "cancel",
           turns' \in [Turn -> Bubbles],
           \A u \in Turn : turns'[u] = "pending" =>
               \/ u \in {release'.turn, photo'.turn} \cup refused'
               \/ again'.at = "upload" /\ u = again'.turn
               \/ /\ turns[u] = "pending" /\ (u \in refused => u \in refused')
                  /\ u = release.turn => u = release'.turn
                  /\ u = photo.turn => u = photo'.turn
                  /\ (again.at = "upload" /\ u = again.turn) => (again'.at = "upload" /\ u = again'.turn)
    PROVE  BubbleInv'
<1> USE DEF BubbleInv
<1>1. BubbleTypes'
  BY DEF BubbleTypes
<1>2. StopsHeld'
  <2>1. release.at = "stop" => release'.at = "stop"
    OBVIOUS
  <2> QED BY <2>1, StopsUntouched DEF HandlersHeld
<1>3. WantHeld' /\ HoldAlone' /\ OnHeld' /\ TurnsHeld'
  BY DEF HandlersHeld, WantHeld, HoldAlone, OnHeld, TurnsHeld
<1>4. ASSUME single', ~disposed' PROVE MineShown' /\ Claimed'
  <2>1. MineShown /\ Claimed
    BY <1>4 DEF BubblesHeld
  <2>2. MineShown'
    BY <2>1 DEF MineShown, HandlersHeld, OnHeld
  <2>3. Claimed'
    BY <2>1 DEF Claimed
  <2> QED BY <2>2, <2>3
<1> QED BY <1>1, <1>2, <1>3, <1>4 DEF HandlersHeld, BubblesHeld

\* _ensureSession: the one who waited goes on, or starts a session.
LEMMA GoesOnBubbles ==
    ASSUME BubbleInv, NEW who \in {"hold", "again", "photo", "reset"}, At[who] \in {"session", "turns"},
           NEW f \in [Turn -> Bubbles], \A u \in Turn : f[u] = "pending" => turns[u] = "pending",
           GoesOn(who, f)
    PROVE  BubbleInv'
<1> USE DEF BubbleInv
<1>1. /\ who = "hold" => hold # "no"
      /\ who = "again" => again.at \in {"session", "turns"}
      /\ who = "photo" => photo.at \in {"session", "turns"}
  BY DEF At
<1>2. UNCHANGED <<finger, want, single, disposed, mine, mode, closing, release, refused>>
  BY DEF GoesOn, flags
<1>3. hold' \in {hold, "no"} \/ (hold # "no" /\ hold' # "no")
  BY <1>1 DEF GoesOn
<1>4. /\ again' = [at |-> again'.at, turn |-> again'.turn]
      /\ again'.at \in {"no", "play"} => again'.turn = NoTurn
      /\ who # "again" => again' = again
      /\ who = "again" /\ session => again' = [at |-> "upload", turn |-> again.turn]
  BY DEF GoesOn, Uploads, Off, BubbleTypes, HandlersHeld, TurnsHeld
<1>5. /\ photo' = [at |-> photo'.at, turn |-> photo'.turn]
      /\ photo'.at # "upload" => photo'.turn = NoTurn
      /\ photo.at = "cancel" => photo'.at = "cancel"
      /\ photo'.turn = photo.turn
  <2>1. CASE who = "photo"
    <3>1. photo.turn = NoTurn
      BY <1>1, <2>1 DEF HandlersHeld, TurnsHeld
    <3>2. \E at \in {"pick", "no"} : photo' = [at |-> at, turn |-> NoTurn]
      BY <2>1 DEF GoesOn, Off
    <3> QED BY <1>1, <2>1, <3>1, <3>2
  <2>2. CASE who # "photo"
    <3>1. photo' = photo
      BY <2>2 DEF GoesOn
    <3> QED BY <3>1 DEF BubbleTypes, HandlersHeld, TurnsHeld
  <2> QED BY <2>1, <2>2
<1>6. "pending" \in Bubbles
  BY DEF Bubbles
<1>7. turns' \in [Turn -> Bubbles]
  BY <1>6 DEF GoesOn
<1>8. \A u \in Turn : turns'[u] = "pending" =>
         turns[u] = "pending" \/ (again'.at = "upload" /\ u = again'.turn)
  <2>1. CASE who = "again" /\ session
    <3>1. turns' = [f EXCEPT ![again.turn] = "pending"]
      BY <2>1 DEF GoesOn
    <3> QED BY <1>4, <2>1, <3>1
  <2>2. CASE ~(who = "again" /\ session)
    BY <2>2 DEF GoesOn
  <2> QED BY <2>1, <2>2
<1>9. again.at = "upload" => again' = again
  BY <1>1, <1>4
<1> QED BY <1>2, <1>3, <1>4, <1>5, <1>7, <1>8, <1>9, QuietBubbles

LEMMA SessionBubbles ==
    ASSUME BubbleInv, NEW who \in {"hold", "again", "photo", "reset"},
           SessionStarts(who) \/ SessionFails(who) \/ TurnsAnswer(who)
    PROVE  BubbleInv'
<1>1. CASE SessionStarts(who)
  <2> USE DEF BubbleInv
  <2>1. UNCHANGED <<finger, want, single, disposed, mine, mode, closing, release, refused, turns>>
    BY <1>1 DEF SessionStarts, flags, shown
  <2>2. hold' \in {hold, "no"} \/ (hold # "no" /\ hold' # "no")
    BY <1>1 DEF SessionStarts, At
  <2>3. /\ again' = [at |-> again'.at, turn |-> again'.turn]
        /\ again'.at \in {"no", "play"} => again'.turn = NoTurn
        /\ again.at = "upload" => again' = again
    BY <1>1 DEF SessionStarts, At, BubbleTypes, HandlersHeld, TurnsHeld
  <2>4. /\ photo' = [at |-> photo'.at, turn |-> photo'.turn]
        /\ photo'.at # "upload" => photo'.turn = NoTurn
        /\ photo.at = "cancel" => photo'.at = "cancel"
        /\ photo'.turn = photo.turn
    BY <1>1 DEF SessionStarts, At, BubbleTypes, HandlersHeld, TurnsHeld
  <2>5. turns' \in [Turn -> Bubbles]
    BY <2>1 DEF BubbleTypes
  <2> QED BY <2>1, <2>2, <2>3, <2>4, <2>5, QuietBubbles
<1>2. CASE SessionFails(who)
  BY <1>2, GoesOnBubbles DEF SessionFails, BubbleInv, BubbleTypes
<1>3. CASE TurnsAnswer(who)
  <2>1. CASE GoesOn(who, turns)
    BY <1>3, <2>1, GoesOnBubbles DEF TurnsAnswer, BubbleInv, BubbleTypes
  <2>2. ASSUME NEW kept \in SUBSET Sent,
               GoesOn(who, [t \in Turn |-> IF t \in kept THEN "done" ELSE "none"])
        PROVE  BubbleInv'
    <3> DEFINE f == [t \in Turn |-> IF t \in kept THEN "done" ELSE "none"]
    <3>1. f \in [Turn -> Bubbles] /\ \A u \in Turn : f[u] # "pending"
      BY DEF Bubbles
    <3>2. At[who] \in {"session", "turns"}
      BY <1>3 DEF TurnsAnswer
    <3>3. GoesOn(who, f)
      BY <2>2
    <3> HIDE DEF f
    <3> QED BY <3>1, <3>2, <3>3, GoesOnBubbles
  <2> QED BY <1>3, <2>1, <2>2 DEF TurnsAnswer
<1> QED BY <1>1, <1>2, <1>3

\* What an answer leaves of a bubble t.
LEMMA SettlesKeeps ==
    ASSUME turns \in [Turn -> Bubbles], NEW t,
           NEW result \in {"done", "failed", "unread", "unheard", "refused"}, Settles(t, result)
    PROVE  /\ turns' \in [Turn -> Bubbles]
           /\ \A u \in Turn : turns'[u] = "pending" => turns[u] = "pending" /\ (u # t \/ u \in refused')
           /\ refused \subseteq refused'
<1>1. CASE result = "refused"
  BY <1>1 DEF Settles
<1>2. CASE result = "unheard"
  <2>1. turns' = Show(t, "none") /\ refused' = refused /\ "none" \in Bubbles
    BY <1>2 DEF Settles, Bubbles
  <2> QED BY <2>1, ShowKeeps
<1>3. CASE result \notin {"refused", "unheard"}
  <2>1. turns' = Show(t, result) /\ refused' = refused /\ result \in Bubbles /\ result # "pending"
    BY <1>3 DEF Settles, Bubbles
  <2> QED BY <2>1, ShowKeeps
<1> QED BY <1>1, <1>2, <1>3

LEMMA AnswerBubbles ==
    ASSUME BubbleInv, ReleaseAnswered \/ RetryAnswered \/ PhotoAnswered
    PROVE  BubbleInv'
<1> USE DEF BubbleInv
<1>1. UNCHANGED <<finger, want, single, disposed, mine, mode, closing, hold>>
  BY DEF ReleaseAnswered, RetryAnswered, PhotoAnswered, flags
<1>2. CASE ReleaseAnswered
  <2>1. PICK result \in {"done", "failed", "unheard", "refused"} : Settles(release.turn, result)
    BY <1>2 DEF ReleaseAnswered
  <2>2. /\ release.at = "upload" /\ release'.at # "upload" /\ release'.turn = NoTurn
        /\ again' = again /\ photo' = photo
    BY <1>2 DEF ReleaseAnswered, Off
  <2>3. /\ turns' \in [Turn -> Bubbles] /\ refused \subseteq refused'
        /\ \A u \in Turn : turns'[u] = "pending" =>
              turns[u] = "pending" /\ (u # release.turn \/ u \in refused')
    BY <2>1, SettlesKeeps DEF BubbleTypes
  <2>4. /\ again = [at |-> again.at, turn |-> again.turn] /\ photo = [at |-> photo.at, turn |-> photo.turn]
        /\ again.at \in {"no", "play"} => again.turn = NoTurn
        /\ photo.at # "upload" => photo.turn = NoTurn
    BY DEF BubbleTypes, HandlersHeld, TurnsHeld
  <2> QED BY <1>1, <2>2, <2>3, <2>4, QuietBubbles
<1>3. CASE RetryAnswered
  <2>1. PICK result \in {"done", "failed", "unheard", "refused"} : Settles(again.turn, result)
    BY <1>3 DEF RetryAnswered
  <2>2. /\ again.at = "upload" /\ release' = release /\ photo' = photo
        /\ \E at \in {"no", "play"} : again' = [at |-> at, turn |-> NoTurn]
    BY <1>3 DEF RetryAnswered, Off
  <2>3. /\ turns' \in [Turn -> Bubbles] /\ refused \subseteq refused'
        /\ \A u \in Turn : turns'[u] = "pending" =>
              turns[u] = "pending" /\ (u # again.turn \/ u \in refused')
    BY <2>1, SettlesKeeps DEF BubbleTypes
  <2>4. /\ photo = [at |-> photo.at, turn |-> photo.turn]
        /\ photo.at # "upload" => photo.turn = NoTurn
        /\ again' = [at |-> again'.at, turn |-> again'.turn] /\ again'.turn = NoTurn
    BY <2>2 DEF BubbleTypes, HandlersHeld, TurnsHeld
  <2> QED BY <1>1, <2>2, <2>3, <2>4, QuietBubbles
<1>4. CASE PhotoAnswered
  <2>1. PICK result \in {"done", "unread"} : Settles(photo.turn, result)
    BY <1>4 DEF PhotoAnswered
  <2>2. photo.at = "upload" /\ photo' = [at |-> "no", turn |-> NoTurn] /\ release' = release /\ again' = again
    BY <1>4 DEF PhotoAnswered, Off
  <2>3. /\ turns' \in [Turn -> Bubbles] /\ refused \subseteq refused'
        /\ \A u \in Turn : turns'[u] = "pending" =>
              turns[u] = "pending" /\ (u # photo.turn \/ u \in refused')
    BY <2>1, SettlesKeeps DEF BubbleTypes
  <2>4. /\ again = [at |-> again.at, turn |-> again.turn]
        /\ again.at \in {"no", "play"} => again.turn = NoTurn
        /\ photo' = [at |-> photo'.at, turn |-> photo'.turn] /\ photo'.turn = NoTurn
    BY <2>2 DEF BubbleTypes, HandlersHeld, TurnsHeld
  <2> QED BY <1>1, <2>2, <2>3, <2>4, QuietBubbles
<1> QED BY <1>2, <1>3, <1>4

LEMMA RetryBubbles == ASSUME BubbleInv, NEW t \in Turn, RetryTurn(t) PROVE BubbleInv'
<1> USE DEF BubbleInv
<1>1. /\ UNCHANGED <<finger, want, single, disposed, mine, mode, closing, hold, release, photo, refused>>
      /\ again.at = "no"
  BY DEF RetryTurn
<1>2. /\ photo = [at |-> photo.at, turn |-> photo.turn]
      /\ photo.at # "upload" => photo.turn = NoTurn
  BY DEF BubbleTypes, HandlersHeld, TurnsHeld
<1>3. CASE session
  <2>1. again' = [at |-> "upload", turn |-> t] /\ turns' = Show(t, "pending") /\ "pending" \in Bubbles
    BY <1>3 DEF RetryTurn, Uploads, Bubbles
  <2>2. turns' \in [Turn -> Bubbles] /\ \A u \in Turn : turns'[u] = "pending" => u = t \/ turns[u] = "pending"
    BY <2>1, ShowKeeps DEF BubbleTypes
  <2> QED BY <1>1, <1>2, <2>1, <2>2, QuietBubbles
<1>4. CASE ~session
  <2>1. again' = [at |-> "session", turn |-> t] /\ turns' = turns /\ turns \in [Turn -> Bubbles]
    BY <1>4 DEF RetryTurn, BubbleTypes
  <2> QED BY <1>1, <1>2, <2>1, QuietBubbles
<1> QED BY <1>3, <1>4

LEMMA PickedBubbles == ASSUME BubbleInv, NEW file \in BOOLEAN, Picked(file) PROVE BubbleInv'
<1> USE DEF BubbleInv
<1>1. /\ UNCHANGED <<finger, want, single, disposed, mine, mode, closing, hold, release, again, refused>>
      /\ photo.at = "pick"
  BY DEF Picked, flags
<1>2. /\ again = [at |-> again.at, turn |-> again.turn]
      /\ again.at \in {"no", "play"} => again.turn = NoTurn
      /\ photo.turn = NoTurn
  BY <1>1 DEF BubbleTypes, HandlersHeld, TurnsHeld
<1>3. NoTurn \notin Turn
  BY JonliAssumption DEF JonliAssumption
<1>4. CASE file
  <2>1. photo' = [at |-> "upload", turn |-> Fresh] /\ turns' = Show(Fresh, "pending") /\ "pending" \in Bubbles
    BY <1>4 DEF Picked, Bubbles
  <2>2. turns' \in [Turn -> Bubbles] /\ \A u \in Turn : turns'[u] = "pending" => u = Fresh \/ turns[u] = "pending"
    BY <2>1, ShowKeeps DEF BubbleTypes
  <2> QED BY <1>1, <1>2, <1>3, <2>1, <2>2, QuietBubbles
<1>5. CASE ~file
  <2>1. photo' = [at |-> "no", turn |-> NoTurn] /\ turns' = turns /\ turns \in [Turn -> Bubbles]
    BY <1>5 DEF Picked, Off, BubbleTypes
  <2> QED BY <1>1, <1>2, <2>1, QuietBubbles
<1> QED BY <1>4, <1>5

LEMMA PhotoBubbles == ASSUME BubbleInv, Photo PROVE BubbleInv'
<1> USE DEF BubbleInv
<1>1. /\ UNCHANGED <<hold, release, again, finger, single, disposed, turns, mine, refused>>
      /\ photo.at = "no" /\ (single => ~finger) /\ (want' => want)
  BY DEF Photo, shown
<1>2. \E at \in {"cancel", "pick", "session"} : photo' = [at |-> at, turn |-> NoTurn]
  BY DEF Photo, Off
<1>3. photo.turn = NoTurn
  BY <1>1 DEF HandlersHeld, TurnsHeld
<1>4. closing' \in Seq(Stopper) /\ StopsHeld'
  <2>1. CASE closing' = closing
    BY <1>1, <2>1, StopsUntouched DEF BubbleTypes, HandlersHeld
  <2>2. CASE closing' # closing
    <3>1. closing' = Append(closing, "photo") /\ photo'.at = "cancel" /\ "photo" \in Stopper
      BY <2>2 DEF Photo, Closes, Off, Stopper
    <3> QED BY <1>1, <3>1, StopsAppended DEF HandlersHeld
  <2> QED BY <2>1, <2>2
<1>5. mode' \in {mode, "idle"}
  BY DEF Photo
<1>6. BubbleTypes'
  BY <1>1, <1>2, <1>4, <1>5 DEF BubbleTypes
<1>7. WantHeld' /\ HoldAlone' /\ OnHeld' /\ TurnsHeld'
  BY <1>1, <1>2, <1>5 DEF HandlersHeld, WantHeld, HoldAlone, OnHeld, TurnsHeld
<1>8. ASSUME single', ~disposed' PROVE MineShown' /\ Claimed'
  <2>1. MineShown /\ Claimed /\ OnHeld /\ ~finger
    BY <1>1, <1>8 DEF BubblesHeld, HandlersHeld
  <2>2. MineShown'
    BY <1>1, <2>1 DEF MineShown, OnHeld
  <2>3. photo'.turn = photo.turn
    BY <1>2, <1>3
  <2> QED BY <1>1, <2>1, <2>2, <2>3 DEF Claimed
<1> QED BY <1>4, <1>6, <1>7, <1>8 DEF HandlersHeld, BubblesHeld

\* The other steps of handlers: none shows or takes a turn.
LEMMA OtherBubbles ==
    ASSUME BubbleInv, MicDenied \/ SessionEnded \/ OpenHistory \/ PlayEnds \/ UNCHANGED jonliVars
    PROVE  BubbleInv'
<1> USE DEF BubbleInv
<1>1. UNCHANGED <<finger, want, single, disposed, mine, mode, closing, photo, refused>>
  BY DEF MicDenied, SessionEnded, OpenHistory, PlayEnds, jonliVars, chains, flags, shown
<1>2. hold' \in {hold, "no"}
  BY DEF MicDenied, SessionEnded, OpenHistory, PlayEnds, jonliVars, chains
<1>3. release' = release \/ (release.at = "play" /\ release'.at # "upload" /\ release'.turn = NoTurn)
  BY DEF MicDenied, SessionEnded, OpenHistory, PlayEnds, jonliVars, chains, Off
<1>4. again' = again \/ (again.at = "play" /\ again' = [at |-> "no", turn |-> NoTurn])
  BY DEF MicDenied, SessionEnded, OpenHistory, PlayEnds, jonliVars, chains, Off
<1>5. /\ again = [at |-> again.at, turn |-> again.turn] /\ photo = [at |-> photo.at, turn |-> photo.turn]
      /\ again.at \in {"no", "play"} => again.turn = NoTurn
      /\ photo.at # "upload" => photo.turn = NoTurn
      /\ release.at = "play" => release.turn = NoTurn
  BY DEF BubbleTypes, HandlersHeld, TurnsHeld
<1>6. turns' \in [Turn -> Bubbles] /\ \A u \in Turn : turns'[u] = "pending" => turns[u] = "pending"
  <2>1. turns' = turns \/ turns' = [t \in Turn |-> "none"]
    BY DEF MicDenied, SessionEnded, OpenHistory, PlayEnds, jonliVars, chains, shown
  <2> QED BY <2>1 DEF BubbleTypes, Bubbles
<1>7. /\ release.at = "play" => release.at \notin {"no", "stop"}
      /\ again' = [at |-> again'.at, turn |-> again'.turn]
      /\ again'.at \in {"no", "play"} => again'.turn = NoTurn
      /\ again.at = "upload" => again' = again
      /\ release'.turn = release.turn
  BY <1>3, <1>4, <1>5
<1> QED BY <1>1, <1>2, <1>3, <1>5, <1>6, <1>7, QuietBubbles

LEMMA BubbleStep == BubbleInv /\ [JonliNext]_jonliVars => BubbleInv'
<1> SUFFICES ASSUME BubbleInv, [JonliNext]_jonliVars PROVE BubbleInv'
  OBVIOUS
<1>1. CASE Press \/ AsksForMic \/ MicStarts \/ Lift \/ Tick
  BY <1>1, PressBubbles, AsksBubbles, MicBubbles, LiftBubbles, TickBubbles
<1>2. CASE RecorderStops \/ Pause \/ Reset \/ Dispose
  BY <1>2, StopBubbles, PauseBubbles, ResetBubbles, DisposeBubbles
<1>3. CASE \E who \in {"hold", "again", "photo", "reset"} :
             SessionStarts(who) \/ SessionFails(who) \/ TurnsAnswer(who)
  BY <1>3, SessionBubbles
<1>4. CASE (\E file \in BOOLEAN : Picked(file)) \/ (\E t \in Turn : RetryTurn(t))
  BY <1>4, PickedBubbles, RetryBubbles
<1>5. CASE ReleaseAnswered \/ RetryAnswered \/ PhotoAnswered
  BY <1>5, AnswerBubbles
<1>6. CASE Photo
  BY <1>6, PhotoBubbles
<1>7. CASE MicDenied \/ SessionEnded \/ OpenHistory \/ PlayEnds \/ UNCHANGED jonliVars
  BY <1>7, OtherBubbles
<1> QED BY <1>1, <1>2, <1>3, <1>4, <1>5, <1>6, <1>7 DEF JonliNext

\* For a user who does one thing at a time, a bubble of Jonli that shows progress
\* has a recording or an upload behind it, or was refused, however the answers of
\* the backend and of the recorder come in.  That a new turn is one not yet in use
\* is not needed.
THEOREM NoOrphans == JonliSpec => []NoOrphanTurn
<1>1. JonliInit => BubbleInv
  <2> SUFFICES ASSUME JonliInit PROVE BubbleInv
    OBVIOUS
  <2>1. BubbleTypes
    <3>1. <<>> \in Seq(Stopper)
      OBVIOUS
    <3> QED BY <3>1 DEF JonliInit, Off, BubbleTypes, Bubbles
  <2>2. closing = <<>> /\ DOMAIN closing = {}
    BY DEF JonliInit
  <2>3. StopsHeld
    BY <2>2 DEF StopsHeld, WaitsIn, OnceIn
  <2>4. WantHeld /\ HoldAlone /\ OnHeld /\ TurnsHeld
    BY DEF JonliInit, Off, WantHeld, HoldAlone, OnHeld, TurnsHeld
  <2>5. BubblesHeld
    BY DEF JonliInit, BubblesHeld, MineShown, Claimed
  <2> QED BY <2>1, <2>3, <2>4, <2>5 DEF BubbleInv, HandlersHeld
<1>2. BubbleInv => NoOrphanTurn
  BY DEF BubbleInv, BubblesHeld, Claimed, NoOrphanTurn
<1> QED BY <1>1, <1>2, BubbleStep, PTL DEF JonliSpec

(***************************************************************************)
(* Notes of the chat: the inductive invariant                              *)
(***************************************************************************)

NoteStart == [hold : Hold, fresh : BOOLEAN]
NoteStopper == {"finish", "cancel", "undo", "release"}
Fates == {"none", "uploading", "queued", "sent", "told"}

NoteTypes ==
    /\ medium \in Device /\ noteShown \in BOOLEAN /\ patient \in BOOLEAN /\ opened \in BOOLEAN
    /\ starts \in [Device -> Seq(NoteStart)] /\ stops \in [Device -> Seq(NoteStopper)]
    /\ on \in [Device -> 0 .. MaxHold]
    /\ finishing \in [at : {"no", "stop", "upload", "send"}, hold : 0 .. MaxHold]
    /\ fate \in [Hold -> Fates] /\ slid \in SUBSET Hold
    /\ holds \in 0 .. MaxHold

\* A patient user leaves nothing behind in the medium not chosen.
OneMedium == \A d \in Device \ {medium} : starts[d] = <<>> /\ stops[d] = <<>> /\ on[d] = 0

\* Recordings start in the order of their presses, and only the last is wanted.
StartsInTurn ==
    \A i \in DOMAIN starts[medium] :
        LET s == starts[medium][i] IN
        /\ on[medium] < s.hold /\ s.hold <= holds
        /\ fate[s.hold] = "none"
        /\ s.fresh => i = Len(starts[medium]) /\ s.hold \notin slid
        /\ \A j \in 1 .. i - 1 : starts[medium][j].hold < s.hold

\* What is not started is not slid, and what is still recorded has met no fate.
NothingAhead ==
    /\ \A h \in Hold : h > holds => fate[h] = "none" /\ h \notin slid
    /\ on[medium] <= holds
    /\ on[medium] # 0 => fate[on[medium]] = "none"

\* Nothing starts beside a recording that is shown or finished.
OneAtOnce == noteShown \/ finishing # NotFinishing => starts[medium] = <<>>

\* One finish at a time waits for the device; what is uploaded was not slid away.
OneFinish ==
    /\ \A i \in DOMAIN stops[medium] :
          stops[medium][i] = "finish" =>
              /\ finishing.at = "stop"
              /\ \A j \in DOMAIN stops[medium] : stops[medium][j] = "finish" => i = j
    /\ finishing.at \in {"upload", "send"} =>
           finishing.hold \in Hold \ slid /\ fate[finishing.hold] # "none"
    /\ finishing.at = "no" => finishing = NotFinishing

\* What was slid away while it is recorded is stopped, and not for a finish.
SlidStops == on[medium] \in slid => stops[medium] # <<>> /\ Head(stops[medium]) # "finish"

InHand == /\ OneMedium /\ StartsInTurn /\ NothingAhead /\ OneAtOnce /\ OneFinish /\ SlidStops
          /\ \A h \in slid : fate[h] = "none"
          /\ opened /\ on[medium] # 0 => noteShown \/ stops[medium] # <<>>

NoteInv == NoteTypes /\ (patient => InHand)

USE VoiceAssumption DEF Hold

LEMMA NoteInvInit == NoteInit => NoteInv
<1> SUFFICES ASSUME NoteInit PROVE NoteInv
  OBVIOUS
<1>1. NoteTypes
  <2>1. <<>> \in Seq(NoteStart) /\ <<>> \in Seq(NoteStopper) /\ 0 \in 0 .. MaxHold
    OBVIOUS
  <2>2. starts \in [Device -> Seq(NoteStart)] /\ stops \in [Device -> Seq(NoteStopper)]
        /\ on \in [Device -> 0 .. MaxHold] /\ fate \in [Hold -> Fates]
    BY <2>1 DEF NoteInit, Fates
  <2> QED BY <2>1, <2>2 DEF NoteInit, NoteTypes, NotFinishing, Device
<1>2. OneMedium /\ StartsInTurn /\ OneAtOnce
  BY DEF NoteInit, OneMedium, StartsInTurn, OneAtOnce, Device
<1>3. NothingAhead /\ OneFinish /\ SlidStops
  BY DEF NoteInit, NothingAhead, OneFinish, SlidStops, NotFinishing, Device
<1> QED BY <1>1, <1>2, <1>3 DEF NoteInv, InHand, NoteInit, Device

\* What is said of the recording does not depend on the finger.
LEMMA FingerKeeps ==
    ASSUME NoteInv,
           UNCHANGED <<medium, noteShown, starts, on, stops, finishing, fate, slid, holds,
                       patient, opened>>
    PROVE  NoteInv'
<1>1. NoteTypes'
  BY DEF NoteInv, NoteTypes
<1>2. InHand => InHand'
  <2> SUFFICES ASSUME InHand PROVE InHand'
    OBVIOUS
  <2>1. OneMedium' /\ StartsInTurn' /\ NothingAhead'
    BY DEF InHand, OneMedium, StartsInTurn, NothingAhead
  <2>2. OneAtOnce' /\ OneFinish' /\ SlidStops'
    BY DEF InHand, OneAtOnce, OneFinish, SlidStops, NotFinishing
  <2> QED BY <2>1, <2>2 DEF InHand
<1> QED BY <1>1, <1>2 DEF NoteInv

\* The starts when none is wanted any more.
LEMMA StaleKeeps ==
    ASSUME NoteTypes, NEW d \in Device
    PROVE  /\ Stale \in [Device -> Seq(NoteStart)]
           /\ Len(Stale[d]) = Len(starts[d]) /\ (starts[d] = <<>> => Stale[d] = <<>>)
           /\ \A i \in DOMAIN Stale[d] : /\ i \in DOMAIN starts[d]
                                         /\ Stale[d][i].hold = starts[d][i].hold
                                         /\ ~Stale[d][i].fresh
<1>1. ASSUME NEW e \in Device
      PROVE  /\ Stale[e] \in Seq(NoteStart) /\ Len(Stale[e]) = Len(starts[e])
             /\ \A i \in DOMAIN Stale[e] : /\ i \in DOMAIN starts[e]
                                           /\ Stale[e][i] = [starts[e][i] EXCEPT !.fresh = FALSE]
  <2>1. Stale[e] = [i \in DOMAIN starts[e] |-> [starts[e][i] EXCEPT !.fresh = FALSE]]
    BY DEF Stale
  <2>2. starts[e] \in Seq(NoteStart) /\ DOMAIN starts[e] = 1 .. Len(starts[e]) /\ Len(starts[e]) \in Nat
    BY DEF NoteTypes
  <2>3. \A i \in 1 .. Len(starts[e]) : [starts[e][i] EXCEPT !.fresh = FALSE] \in NoteStart
    <3>1. \A i \in 1 .. Len(starts[e]) : starts[e][i] \in NoteStart
      BY <2>2
    <3> QED BY <3>1 DEF NoteStart
  <2>4. Stale[e] \in [1 .. Len(starts[e]) -> NoteStart]
    BY <2>1, <2>2, <2>3
  <2> QED BY <2>1, <2>2, <2>4
<1>2. Stale = [e \in Device |-> Stale[e]]
  BY DEF Stale
<1>3. \A i \in DOMAIN Stale[d] : Stale[d][i].hold = starts[d][i].hold /\ ~Stale[d][i].fresh
  <2> SUFFICES ASSUME NEW i \in DOMAIN Stale[d]
               PROVE  Stale[d][i].hold = starts[d][i].hold /\ ~Stale[d][i].fresh
    OBVIOUS
  <2>1. starts[d] \in Seq(NoteStart) /\ i \in DOMAIN starts[d]
    BY <1>1 DEF NoteTypes
  <2>2. starts[d][i] \in NoteStart
    BY <2>1
  <2> QED BY <1>1, <2>2 DEF NoteStart
<1> QED BY <1>1, <1>2, <1>3

\* A press: the recordings that start before it are not wanted any more.
LEMMA PressKeeps ==
    ASSUME NoteInv, StartRecording,
           UNCHANGED <<medium, noteShown, on, stops, finishing, fate, slid, patient, opened>>
    PROVE  NoteInv'
<1>1. CASE UNCHANGED <<starts, holds>>
  BY <1>1, FingerKeeps
<1>2. CASE ~(noteShown \/ sending # "no" \/ finishing # NotFinishing \/ holds = MaxHold)
  <2> DEFINE new == [hold |-> holds + 1, fresh |-> TRUE]
  <2>1. /\ starts' = [Stale EXCEPT ![medium] = Append(@, new)] /\ holds' = holds + 1
    BY <1>2 DEF StartRecording
  <2>2. medium \in Device /\ new \in NoteStart /\ holds \in Nat /\ holds + 1 \in Hold
    BY <1>2 DEF NoteInv, NoteTypes, NoteStart
  <2>3. Stale \in [Device -> Seq(NoteStart)]
    BY <2>2, StaleKeeps DEF NoteInv
  <2>4. starts' \in [Device -> Seq(NoteStart)] /\ starts'[medium] = Append(Stale[medium], new)
        /\ \A d \in Device \ {medium} : starts'[d] = Stale[d]
    BY <2>1, <2>2, <2>3
  <2>5. NoteTypes'
    BY <2>1, <2>2, <2>4 DEF NoteInv, NoteTypes
  <2>6. ASSUME InHand PROVE InHand'
    <3>1. OneMedium'
      BY <2>4, <2>6, StaleKeeps DEF InHand, OneMedium, NoteInv
    <3>2. StartsInTurn'
      <4> DEFINE S == starts[medium]
                 T == starts'[medium]
      <4>1. /\ Len(T) = Len(S) + 1 /\ Len(S) \in Nat /\ T[Len(T)] = new
            /\ DOMAIN T = 1 .. Len(T) /\ DOMAIN S = 1 .. Len(S)
            /\ \A i \in 1 .. Len(S) : T[i].hold = S[i].hold /\ ~T[i].fresh
        <5>1. /\ Len(Stale[medium]) = Len(S) /\ Stale[medium] \in Seq(NoteStart) /\ S \in Seq(NoteStart)
              /\ \A i \in DOMAIN Stale[medium] : Stale[medium][i].hold = S[i].hold /\ ~Stale[medium][i].fresh
          BY <2>2, <2>3, StaleKeeps DEF NoteInv, NoteTypes
        <5> QED BY <2>2, <2>4, <5>1
      <4>2. \A i \in 1 .. Len(S) :
              /\ on[medium] < S[i].hold /\ S[i].hold <= holds /\ fate[S[i].hold] = "none"
              /\ \A j \in 1 .. i - 1 : S[j].hold < S[i].hold
        BY <2>6, <4>1 DEF InHand, StartsInTurn
      <4>3. /\ on[medium] < new.hold /\ fate[new.hold] = "none" /\ new.hold \notin slid
            /\ new.hold = holds + 1 /\ on[medium] \in Nat
        BY <2>2, <2>6 DEF InHand, NothingAhead, NoteInv, NoteTypes
      <4>4. \A i \in 1 .. Len(S) : S[i].hold \in Nat
        <5>1. \A i \in 1 .. Len(S) : S[i] \in NoteStart
          BY <2>2, <4>1 DEF NoteInv, NoteTypes
        <5> QED BY <5>1 DEF NoteStart
      <4> HIDE DEF S, T, new
      <4>5. \A i \in DOMAIN T :
              /\ on[medium] < T[i].hold /\ T[i].hold <= holds + 1 /\ fate[T[i].hold] = "none"
              /\ T[i].fresh => i = Len(T) /\ T[i].hold \notin slid
              /\ \A j \in 1 .. i - 1 : T[j].hold < T[i].hold
        BY <2>2, <4>1, <4>2, <4>3, <4>4
      <4> QED BY <2>1, <4>5 DEF StartsInTurn, T
    <3>3. NothingAhead'
      BY <2>1, <2>2, <2>6 DEF InHand, NothingAhead, NoteInv, NoteTypes
    <3>4. OneAtOnce' /\ OneFinish' /\ SlidStops'
      BY <1>2, <2>6 DEF InHand, OneAtOnce, OneFinish, SlidStops, NotFinishing
    <3> QED BY <2>6, <3>1, <3>2, <3>3, <3>4 DEF InHand
  <2> QED BY <2>5, <2>6 DEF NoteInv
<1> QED BY <1>1, <1>2 DEF StartRecording

\* Who waits for a device that others wait for too.
LEMMA Queued ==
    ASSUME NEW s \in Seq(NoteStopper), NEW w \in NoteStopper
    PROVE  /\ Append(s, w) \in Seq(NoteStopper) /\ Append(s, w) # <<>>
           /\ IF s = <<>> THEN Head(Append(s, w)) = w ELSE Head(Append(s, w)) = Head(s)
           /\ DOMAIN Append(s, w) = 1 .. Len(s) + 1 /\ DOMAIN s = 1 .. Len(s) /\ Len(s) \in Nat
           /\ Append(s, w)[Len(s) + 1] = w
           /\ \A i \in DOMAIN s : Append(s, w)[i] = s[i]
<1>1. Append(s, w) \in Seq(NoteStopper) /\ Len(s) \in Nat /\ Len(Append(s, w)) = Len(s) + 1
  OBVIOUS
<1>2. /\ DOMAIN s = 1 .. Len(s) /\ DOMAIN Append(s, w) = 1 .. Len(s) + 1
      /\ Append(s, w)[Len(s) + 1] = w /\ \A i \in 1 .. Len(s) : Append(s, w)[i] = s[i]
  OBVIOUS
<1>3. s # <<>> => Len(s) > 0
  OBVIOUS
<1>4. Append(s, w) # <<>> /\ Head(Append(s, w)) = Append(s, w)[1]
  BY <1>1
<1>5. CASE s = <<>>
  BY <1>1, <1>2, <1>4, <1>5
<1>6. CASE s # <<>>
  <2>1. Head(s) = s[1] /\ 1 \in 1 .. Len(s)
    BY <1>1, <1>3, <1>6
  <2> QED BY <1>1, <1>2, <1>4, <1>6, <2>1
<1> QED BY <1>5, <1>6

\* Another waits, not for a finish: the finish that waits is the one it was, and
\* what was slid away is stopped.
LEMMA StopperKeeps ==
    ASSUME NoteInv, NEW d \in Device, NEW w \in NoteStopper \ {"finish"},
           stops' = [stops EXCEPT ![d] = Append(@, w)]
    PROVE  /\ stops' \in [Device -> Seq(NoteStopper)]
           /\ stops'[d] # <<>> /\ \A e \in Device \ {d} : stops'[e] = stops[e]
           /\ IF stops[d] = <<>> THEN Head(stops'[d]) = w ELSE Head(stops'[d]) = Head(stops[d])
           /\ \A i \in DOMAIN stops'[d] : stops'[d][i] = "finish" => i \in DOMAIN stops[d] /\ stops[d][i] = "finish"
<1>1. stops[d] \in Seq(NoteStopper) /\ stops \in [Device -> Seq(NoteStopper)]
  BY DEF NoteInv, NoteTypes
<1>2. stops'[d] = Append(stops[d], w) /\ \A e \in Device \ {d} : stops'[e] = stops[e]
  BY <1>1
<1>3. Append(stops[d], w) \in Seq(NoteStopper)
  BY <1>1, Queued
<1>4. stops' \in [Device -> Seq(NoteStopper)]
  BY <1>1, <1>3
<1>5. /\ stops'[d] # <<>>
      /\ IF stops[d] = <<>> THEN Head(stops'[d]) = w ELSE Head(stops'[d]) = Head(stops[d])
  BY <1>1, <1>2, Queued
<1>6. \A i \in DOMAIN stops'[d] : stops'[d][i] = "finish" => i \in DOMAIN stops[d] /\ stops[d][i] = "finish"
  <2> DEFINE n == Len(stops[d])
  <2>1. /\ DOMAIN stops'[d] = 1 .. n + 1 /\ DOMAIN stops[d] = 1 .. n /\ n \in Nat
        /\ stops'[d][n + 1] = w /\ \A i \in 1 .. n : stops'[d][i] = stops[d][i]
    BY <1>1, <1>2, Queued
  <2> HIDE DEF n
  <2> QED BY <2>1
<1> QED BY <1>2, <1>4, <1>5, <1>6

\* The user gives the recording up.
LEMMA CancelKeeps ==
    ASSUME NoteInv, CancelRecording,
           UNCHANGED <<medium, on, finishing, fate, holds, patient, opened>>
    PROVE  NoteInv'
<1>1. medium \in Device /\ slid' = slid \cup Current /\ starts' = Stale
  BY DEF NoteInv, NoteTypes, CancelRecording
<1>2. /\ starts[medium] \in Seq(NoteStart) /\ DOMAIN starts[medium] = 1 .. Len(starts[medium])
      /\ \A s \in Range(starts[medium]) : s \in NoteStart /\ \E i \in DOMAIN starts[medium] : s = starts[medium][i]
  <2>1. starts[medium] \in Seq(NoteStart)
    BY <1>1 DEF NoteInv, NoteTypes
  <2>2. \A i \in DOMAIN starts[medium] : starts[medium][i] \in NoteStart
    BY <2>1
  <2> QED BY <2>1, <2>2 DEF Range
<1>3. \A h \in Current : /\ h \in Hold /\ finishing = NotFinishing
                         /\ (\/ h = on[medium] /\ h # 0
                             \/ \E i \in DOMAIN starts[medium] : h = starts[medium][i].hold)
  <2>1. on[medium] \in 0 .. MaxHold
    BY <1>1 DEF NoteInv, NoteTypes
  <2>2. \A s \in NoteStart : s.hold \in Hold
    BY DEF NoteStart
  <2> QED BY <1>2, <2>1, <2>2 DEF Current
<1>4. starts' \in [Device -> Seq(NoteStart)]
  BY <1>1, StaleKeeps DEF NoteInv
<1>5. /\ stops' \in [Device -> Seq(NoteStopper)] /\ \A e \in Device \ {medium} : stops'[e] = stops[e]
      /\ on[medium] = 0 => stops' = stops
      /\ on[medium] # 0 => /\ stops'[medium] # <<>>
                           /\ \/ Head(stops'[medium]) # "finish"
                              \/ stops[medium] # <<>> /\ Head(stops'[medium]) = Head(stops[medium])
      /\ \A i \in DOMAIN stops'[medium] : stops'[medium][i] = "finish" =>
            i \in DOMAIN stops[medium] /\ stops[medium][i] = "finish"
  <2>1. CASE on[medium] = 0
    <3>1. stops' = stops
      BY <2>1 DEF CancelRecording, Stop
    <3> QED BY <2>1, <3>1, <1>1 DEF NoteInv, NoteTypes
  <2>2. CASE on[medium] # 0
    <3>1. stops' = [stops EXCEPT ![medium] = Append(@, "cancel")] /\ "cancel" \in NoteStopper \ {"finish"}
      BY <2>2 DEF CancelRecording, Stop, NoteStopper
    <3> QED BY <2>2, <3>1, <1>1, StopperKeeps
  <2> QED BY <2>1, <2>2
<1>6. noteShown' = (noteShown /\ on[medium] # 0) /\ noteShown \in BOOLEAN
  BY DEF CancelRecording, NoteInv, NoteTypes
<1>7. NoteTypes'
  BY <1>1, <1>3, <1>4, <1>5, <1>6 DEF NoteInv, NoteTypes
<1>8. ASSUME InHand PROVE InHand'
  <2>1. OneMedium'
    BY <1>1, <1>5, <1>8, StaleKeeps DEF InHand, OneMedium, NoteInv
  <2>2. StartsInTurn'
    <3>1. \A i \in DOMAIN Stale[medium] : /\ i \in DOMAIN starts[medium] /\ i \in Nat
                                          /\ Stale[medium][i].hold = starts[medium][i].hold
                                          /\ ~Stale[medium][i].fresh
      BY <1>1, <1>2, StaleKeeps DEF NoteInv
    <3>2. DOMAIN Stale[medium] = 1 .. Len(starts[medium]) /\ Len(starts[medium]) \in Nat
      BY <1>1, <1>2, StaleKeeps DEF NoteInv
    <3>3. ASSUME NEW i \in DOMAIN Stale[medium], NEW j \in 1 .. i - 1
          PROVE  Stale[medium][j].hold < Stale[medium][i].hold
      <4>1. j \in DOMAIN Stale[medium]
        BY <3>2
      <4> QED BY <1>8, <3>1, <4>1 DEF InHand, StartsInTurn
    <3>4. ASSUME NEW i \in DOMAIN Stale[medium]
          PROVE  /\ on[medium] < Stale[medium][i].hold /\ Stale[medium][i].hold <= holds
                 /\ fate[Stale[medium][i].hold] = "none" /\ ~Stale[medium][i].fresh
      BY <1>8, <3>1 DEF InHand, StartsInTurn
    <3> QED BY <1>1, <3>3, <3>4 DEF StartsInTurn
  <2>3. \A h \in Current : h <= holds /\ fate[h] = "none"
    BY <1>1, <1>3, <1>8 DEF InHand, NothingAhead, StartsInTurn
  <2>4. NothingAhead'
    BY <1>1, <1>3, <1>8, <2>3 DEF InHand, NothingAhead, NoteInv, NoteTypes
  <2>5. OneAtOnce'
    BY <1>1, <1>6, <1>8, StaleKeeps DEF InHand, OneAtOnce, NoteInv, NotFinishing
  <2>6. OneFinish'
    <3>1. finishing.at \in {"upload", "send"} => slid' = slid
      BY <1>1, <1>3 DEF NotFinishing
    <3> QED BY <1>5, <1>8, <3>1 DEF InHand, OneFinish, NotFinishing
  <2>7. SlidStops'
    <3> SUFFICES ASSUME on[medium] \in slid'
                 PROVE  stops'[medium] # <<>> /\ Head(stops'[medium]) # "finish"
      BY DEF SlidStops
    <3>1. on[medium] # 0
      BY <1>1, <1>3 DEF NoteInv, NoteTypes
    <3>2. CASE on[medium] \in slid
      BY <1>5, <1>8, <3>1, <3>2 DEF InHand, SlidStops
    <3>3. CASE on[medium] \in Current
      <4>1. finishing.at = "no"
        BY <1>3, <3>3 DEF NotFinishing
      <4>2. stops[medium] # <<>> => Head(stops[medium]) = stops[medium][1] /\ 1 \in DOMAIN stops[medium]
        BY <1>1 DEF NoteInv, NoteTypes
      <4>3. stops[medium] # <<>> => Head(stops[medium]) # "finish"
        BY <1>8, <4>1, <4>2 DEF InHand, OneFinish
      <4> QED BY <1>5, <3>1, <4>3
    <3> QED BY <1>1, <3>2, <3>3
  <2>8. \A h \in slid' : fate[h] = "none"
    BY <1>1, <1>8, <2>3 DEF InHand
  <2> QED BY <1>5, <2>1, <2>2, <2>4, <2>5, <2>6, <2>7, <2>8 DEF InHand
<1> QED BY <1>7, <1>8 DEF NoteInv

\* The first of those who wait for a device.
LEMMA FirstStop ==
    ASSUME NoteTypes, NEW d \in Device
    PROVE  /\ stops[d] \in Seq(NoteStopper) /\ on[d] \in 0 .. MaxHold
           /\ stops[d] # <<>> => 1 \in DOMAIN stops[d] /\ Head(stops[d]) = stops[d][1]
<1>1. stops[d] \in Seq(NoteStopper) /\ on[d] \in 0 .. MaxHold
  BY DEF NoteTypes
<1>2. stops[d] # <<>> => 1 \in DOMAIN stops[d] /\ Head(stops[d]) = stops[d][1]
  BY <1>1
<1> QED BY <1>1, <1>2

\* The user lets go, or a video note is as long as it may be.
LEMMA FinishKeeps ==
    ASSUME NoteInv, FinishRecording,
           UNCHANGED <<medium, starts, on, fate, slid, holds, patient, opened>>
    PROVE  NoteInv'
<1>1. CASE UNCHANGED <<noteShown, stops, finishing>>
  BY <1>1, FingerKeeps
<1>2. CASE noteShown /\ finishing = NotFinishing /\ on[medium] = 0
  <2>1. noteShown' = FALSE /\ UNCHANGED <<stops, finishing>>
    BY <1>2 DEF FinishRecording, Stop
  <2>2. NoteTypes'
    BY <2>1 DEF NoteInv, NoteTypes
  <2>3. ASSUME InHand PROVE InHand'
    <3>1. OneMedium' /\ StartsInTurn' /\ NothingAhead'
      BY <2>1, <2>3 DEF InHand, OneMedium, StartsInTurn, NothingAhead
    <3>2. OneAtOnce' /\ OneFinish' /\ SlidStops'
      BY <2>1, <2>3 DEF InHand, OneAtOnce, OneFinish, SlidStops, NotFinishing
    <3> QED BY <1>2, <2>1, <2>3, <3>1, <3>2 DEF InHand
  <2> QED BY <2>2, <2>3 DEF NoteInv
<1>3. CASE noteShown /\ finishing = NotFinishing /\ on[medium] # 0
  <2> DEFINE n == Len(stops[medium])
  <2>1. /\ noteShown' = noteShown /\ finishing' = [NotFinishing EXCEPT !.at = "stop"]
        /\ stops' = [stops EXCEPT ![medium] = Append(@, "finish")]
    BY <1>3 DEF FinishRecording, Stop
  <2>2. medium \in Device /\ "finish" \in NoteStopper /\ stops[medium] \in Seq(NoteStopper)
        /\ stops \in [Device -> Seq(NoteStopper)]
    BY DEF NoteInv, NoteTypes, NoteStopper
  <2>3. stops'[medium] = Append(stops[medium], "finish") /\ \A d \in Device \ {medium} : stops'[d] = stops[d]
    BY <2>1, <2>2
  <2>4. /\ stops' \in [Device -> Seq(NoteStopper)] /\ stops'[medium] # <<>>
        /\ stops[medium] # <<>> => Head(stops'[medium]) = Head(stops[medium])
        /\ DOMAIN stops'[medium] = 1 .. n + 1 /\ DOMAIN stops[medium] = 1 .. n /\ n \in Nat
        /\ \A i \in 1 .. n : stops'[medium][i] = stops[medium][i]
    <3>1. Append(stops[medium], "finish") \in Seq(NoteStopper)
      BY <2>2, Queued
    <3>2. stops' \in [Device -> Seq(NoteStopper)]
      BY <2>1, <2>2, <3>1
    <3> QED BY <2>2, <2>3, <3>2, Queued
  <2>5. finishing' = [at |-> "stop", hold |-> 0] /\ finishing.at = "no"
    BY <1>3, <2>1 DEF NotFinishing
  <2>6. NoteTypes'
    <3>1. finishing' \in [at : {"no", "stop", "upload", "send"}, hold : 0 .. MaxHold]
      BY <2>5
    <3> QED BY <2>1, <2>4, <3>1 DEF NoteInv, NoteTypes
  <2>7. ASSUME InHand PROVE InHand'
    <3>1. OneMedium' /\ StartsInTurn' /\ NothingAhead'
      BY <2>3, <2>7 DEF InHand, OneMedium, StartsInTurn, NothingAhead
    <3>2. OneAtOnce'
      BY <1>3, <2>7 DEF InHand, OneAtOnce
    <3>3. OneFinish'
      <4>1. \A i \in 1 .. n : stops'[medium][i] # "finish"
        BY <2>4, <2>5, <2>7 DEF InHand, OneFinish
      <4> HIDE DEF n
      <4>2. \A i, j \in DOMAIN stops'[medium] :
               stops'[medium][i] = "finish" /\ stops'[medium][j] = "finish" => i = j
        BY <2>4, <4>1
      <4> QED BY <2>5, <4>2 DEF OneFinish
    <3>4. SlidStops'
      BY <2>4, <2>7 DEF InHand, SlidStops
    <3> QED BY <1>3, <2>1, <2>7, <3>1, <3>2, <3>3, <3>4 DEF InHand
  <2> QED BY <2>6, <2>7 DEF NoteInv
<1> QED BY <1>1, <1>2, <1>3 DEF FinishRecording

\* The other recorder is chosen, when neither starts nor stops.
LEMMA ToggleKeeps ==
    ASSUME NoteInv, Toggle PROVE NoteInv'
<1>1. medium' \in Device /\ medium' # medium /\ medium \in Device
  BY DEF Toggle, NoteInv, NoteTypes, Device
<1>2. UNCHANGED <<noteShown, starts, on, finishing, fate, slid, holds, patient, opened>>
      /\ opened /\ ~noteShown /\ finishing = NotFinishing
  BY DEF Toggle, Touches
<1>3. stops' \in [Device -> Seq(NoteStopper)]
  <2>1. CASE stops' = stops
    BY <2>1 DEF NoteInv, NoteTypes
  <2>2. CASE stops' = [stops EXCEPT !["video"] = Append(@, "release")]
    <3>1. "video" \in Device /\ "release" \in NoteStopper \ {"finish"}
      BY DEF Device, NoteStopper
    <3> QED BY <2>2, <3>1, StopperKeeps
  <2> QED BY <2>1, <2>2 DEF Toggle, Stop
<1>4. NoteTypes'
  BY <1>1, <1>2, <1>3 DEF NoteInv, NoteTypes
<1>5. ASSUME patient, InHand PROVE InHand'
  <2>1. \A d \in Device : starts[d] = <<>> /\ stops[d] = <<>>
    BY <1>5 DEF Toggle
  <2>2. on[medium] = 0
    BY <1>1, <1>2, <1>5, <2>1 DEF InHand
  <2>3. \A d \in Device : on[d] = 0
    BY <1>5, <2>2 DEF InHand, OneMedium
  <2>4. stops' = stops
    BY <1>1, <2>3 DEF Toggle, Stop, Device
  <2>5. medium' \in Device /\ starts'[medium'] = <<>> /\ stops'[medium'] = <<>> /\ on'[medium'] = 0
    BY <1>1, <1>2, <2>1, <2>3, <2>4
  <2>6. DOMAIN starts'[medium'] = {} /\ DOMAIN stops'[medium'] = {}
    BY <2>5
  <2>7. OneMedium' /\ OneAtOnce'
    BY <1>1, <1>2, <2>1, <2>3, <2>4, <2>5 DEF OneMedium, OneAtOnce
  <2>8. StartsInTurn'
    BY <2>6 DEF StartsInTurn
  <2>9. NothingAhead' /\ SlidStops'
    <3>1. holds \in Nat /\ 0 \notin slid
      BY DEF NoteInv, NoteTypes
    <3> QED BY <1>2, <1>5, <2>5, <3>1 DEF InHand, NothingAhead, SlidStops
  <2>10. OneFinish'
    BY <1>2, <2>6 DEF OneFinish, NotFinishing
  <2> QED BY <1>2, <1>5, <2>5, <2>7, <2>8, <2>9, <2>10 DEF InHand
<1> QED BY <1>2, <1>4, <1>5 DEF NoteInv

\* The screen is left, or a selection ends.
LEMMA BackKeeps ==
    ASSUME NoteInv, NEW how \in {"button", "selecting", "system"}, Back(how) PROVE NoteInv'
<1>1. /\ UNCHANGED <<medium, noteShown, on, finishing, fate, slid, holds, patient>>
      /\ opened' = (how = "selecting") /\ opened /\ medium \in Device
      /\ starts' = starts \/ starts' = Stale
  BY DEF Back, Touches, NoteInv, NoteTypes
<1>2. /\ starts' \in [Device -> Seq(NoteStart)]
      /\ \A d \in Device : /\ starts[d] = <<>> => starts'[d] = <<>>
                           /\ DOMAIN starts'[d] = 1 .. Len(starts[d]) /\ DOMAIN starts[d] = 1 .. Len(starts[d])
                           /\ Len(starts'[d]) = Len(starts[d]) /\ Len(starts[d]) \in Nat
                           /\ \A i \in DOMAIN starts'[d] : /\ i \in DOMAIN starts[d]
                                                           /\ starts'[d][i].hold = starts[d][i].hold
                                                           /\ starts'[d][i].fresh => starts[d][i].fresh
  <2>1. \A d \in Device : starts[d] \in Seq(NoteStart)
    BY DEF NoteInv, NoteTypes
  <2>2. \A d \in Device : DOMAIN starts[d] = 1 .. Len(starts[d]) /\ Len(starts[d]) \in Nat
    BY <2>1
  <2>3. CASE starts' = starts
    BY <2>2, <2>3 DEF NoteInv, NoteTypes
  <2>4. CASE starts' = Stale
    <3>1. Stale \in [Device -> Seq(NoteStart)] /\ \A d \in Device : Len(Stale[d]) = Len(starts[d])
      BY StaleKeeps, <1>1 DEF NoteInv
    <3>2. \A d \in Device : DOMAIN Stale[d] = 1 .. Len(Stale[d])
      BY <3>1
    <3> QED BY <2>2, <2>4, <3>1, <3>2, StaleKeeps DEF NoteInv
  <2> QED BY <1>1, <2>3, <2>4
<1>3. /\ stops' \in [Device -> Seq(NoteStopper)]
      /\ \A d \in Device : \/ stops'[d] = stops[d]
                           \/ /\ on[d] # 0 /\ stops'[d] = Append(stops[d], "release") /\ stops'[d] # <<>>
                              /\ IF stops[d] = <<>> THEN Head(stops'[d]) = "release"
                                 ELSE Head(stops'[d]) = Head(stops[d])
                              /\ \A i \in DOMAIN stops'[d] : stops'[d][i] = "finish" =>
                                    i \in DOMAIN stops[d] /\ stops[d][i] = "finish"
  <2>1. "release" \in NoteStopper /\ \A d \in Device : stops[d] \in Seq(NoteStopper)
    BY DEF NoteInv, NoteTypes, NoteStopper
  <2>2. CASE how # "button"
    <3>1. stops' = stops
      BY <2>2 DEF Back
    <3> QED BY <3>1 DEF NoteInv, NoteTypes
  <2>3. CASE how = "button"
    <3>1. stops' = [d \in Device |-> IF on[d] = 0 THEN stops[d] ELSE Append(stops[d], "release")]
      BY <2>3 DEF Back
    <3>2. \A d \in Device : Append(stops[d], "release") \in Seq(NoteStopper)
      BY <2>1, Queued
    <3>3. ASSUME NEW d \in Device
          PROVE  /\ Append(stops[d], "release") # <<>>
                 /\ IF stops[d] = <<>> THEN Head(Append(stops[d], "release")) = "release"
                    ELSE Head(Append(stops[d], "release")) = Head(stops[d])
                 /\ \A i \in DOMAIN Append(stops[d], "release") : Append(stops[d], "release")[i] = "finish" =>
                       i \in DOMAIN stops[d] /\ stops[d][i] = "finish"
      <4>1. /\ DOMAIN Append(stops[d], "release") = 1 .. Len(stops[d]) + 1
            /\ DOMAIN stops[d] = 1 .. Len(stops[d]) /\ Len(stops[d]) \in Nat
            /\ Append(stops[d], "release")[Len(stops[d]) + 1] = "release"
            /\ \A i \in DOMAIN stops[d] : Append(stops[d], "release")[i] = stops[d][i]
        BY <2>1, Queued
      <4>2. \A i \in DOMAIN Append(stops[d], "release") : Append(stops[d], "release")[i] = "finish" =>
                       i \in DOMAIN stops[d] /\ stops[d][i] = "finish"
        BY <4>1
      <4> QED BY <2>1, <4>2, Queued
    <3>4. \A d \in Device : stops'[d] = IF on[d] = 0 THEN stops[d] ELSE Append(stops[d], "release")
      BY <3>1
    <3>5. stops' \in [Device -> Seq(NoteStopper)]
      BY <2>1, <3>1, <3>2
    <3> QED BY <3>3, <3>4, <3>5
  <2> QED BY <2>2, <2>3
<1>4. NoteTypes'
  BY <1>1, <1>2, <1>3 DEF NoteInv, NoteTypes
<1>5. ASSUME InHand PROVE InHand'
  <2>1. OneMedium'
    BY <1>1, <1>2, <1>3, <1>5 DEF InHand, OneMedium
  <2>2. StartsInTurn'
    <3>1. ASSUME NEW i \in DOMAIN starts'[medium], NEW j \in 1 .. i - 1
          PROVE  starts'[medium][j].hold < starts'[medium][i].hold
      <4>1. j \in DOMAIN starts'[medium] /\ i \in DOMAIN starts[medium]
        BY <1>1, <1>2
      <4> QED BY <1>1, <1>2, <1>5, <4>1 DEF InHand, StartsInTurn
    <3>2. ASSUME NEW i \in DOMAIN starts'[medium]
          PROVE  /\ on[medium] < starts'[medium][i].hold /\ starts'[medium][i].hold <= holds
                 /\ fate[starts'[medium][i].hold] = "none"
                 /\ starts'[medium][i].fresh => i = Len(starts'[medium]) /\ starts'[medium][i].hold \notin slid
      BY <1>1, <1>2, <1>5 DEF InHand, StartsInTurn
    <3> QED BY <1>1, <3>1, <3>2 DEF StartsInTurn
  <2>3. NothingAhead'
    BY <1>1, <1>5 DEF InHand, NothingAhead
  <2>4. OneAtOnce'
    BY <1>1, <1>2, <1>5 DEF InHand, OneAtOnce, NotFinishing
  <2>5. OneFinish'
    BY <1>1, <1>3, <1>5 DEF InHand, OneFinish, NotFinishing
  <2>6. SlidStops'
    BY <1>1, <1>3, <1>5 DEF InHand, SlidStops
  <2> QED BY <1>1, <1>3, <1>5, <2>1, <2>2, <2>3, <2>4, <2>5, <2>6 DEF InHand
<1> QED BY <1>1, <1>4, <1>5 DEF NoteInv

\* The first start of a device: the others start later.
LEMMA FirstStart ==
    ASSUME NoteTypes, NEW d \in Device, starts[d] # <<>>,
           starts' = [starts EXCEPT ![d] = Tail(@)]
    PROVE  /\ starts' \in [Device -> Seq(NoteStart)] /\ Head(starts[d]) = starts[d][1]
           /\ Head(starts[d]) \in NoteStart
           /\ \A e \in Device \ {d} : starts'[e] = starts[e]
           /\ 1 \in DOMAIN starts[d] /\ Len(starts[d]) \in Nat /\ Len(starts'[d]) = Len(starts[d]) - 1
           /\ DOMAIN starts[d] = 1 .. Len(starts[d]) /\ DOMAIN starts'[d] = 1 .. Len(starts'[d])
           /\ \A i \in DOMAIN starts'[d] : starts'[d][i] = starts[d][i + 1]
<1>1. starts \in [Device -> Seq(NoteStart)] /\ starts[d] \in Seq(NoteStart)
  BY DEF NoteTypes
<1>2. Tail(starts[d]) \in Seq(NoteStart) /\ starts[d][1] \in NoteStart /\ 1 \in DOMAIN starts[d]
  BY <1>1
<1>3. starts'[d] = Tail(starts[d]) /\ \A e \in Device \ {d} : starts'[e] = starts[e]
  BY <1>1
<1>4. starts' \in [Device -> Seq(NoteStart)]
  BY <1>1, <1>2
<1>5. /\ Len(starts[d]) \in Nat /\ Len(starts'[d]) = Len(starts[d]) - 1
      /\ DOMAIN starts[d] = 1 .. Len(starts[d]) /\ DOMAIN starts'[d] = 1 .. Len(starts'[d])
      /\ \A i \in DOMAIN starts'[d] : starts'[d][i] = starts[d][i + 1]
  BY <1>1, <1>2, <1>3
<1>6. Head(starts[d]) = starts[d][1]
  BY <1>1
<1> QED BY <1>2, <1>3, <1>4, <1>5, <1>6

\* What holds of the starts when the first is taken from them, and the device makes
\* the recording it made or the first one's.
LEMMA LaterInTurn ==
    ASSUME NoteTypes, InHand, medium \in Device, starts[medium] # <<>>,
           starts' = [starts EXCEPT ![medium] = Tail(@)],
           on'[medium] \in {on[medium], starts[medium][1].hold},
           UNCHANGED <<medium, fate, slid, holds>>
    PROVE  StartsInTurn' /\ NothingAhead' /\ (starts[medium][1].fresh => starts'[medium] = <<>>)
<1>1. /\ 1 \in DOMAIN starts[medium] /\ Len(starts[medium]) \in Nat /\ Len(starts'[medium]) = Len(starts[medium]) - 1
      /\ DOMAIN starts[medium] = 1 .. Len(starts[medium]) /\ DOMAIN starts'[medium] = 1 .. Len(starts'[medium])
      /\ starts'[medium] \in Seq(NoteStart)
      /\ \A i \in DOMAIN starts'[medium] : starts'[medium][i] = starts[medium][i + 1] /\ i + 1 \in DOMAIN starts[medium]
  <2>1. \A i \in 1 .. Len(starts[medium]) - 1 : i + 1 \in 1 .. Len(starts[medium])
    OBVIOUS
  <2> QED BY <2>1, FirstStart
<1>2. starts[medium][1].fresh => starts'[medium] = <<>>
  <2>1. starts[medium][1].fresh => Len(starts[medium]) = 1
    BY <1>1 DEF InHand, StartsInTurn
  <2> QED BY <1>1, <2>1
<1>3. StartsInTurn'
  <2>1. ASSUME NEW i \in DOMAIN starts'[medium]
        PROVE  /\ on'[medium] < starts'[medium][i].hold /\ starts'[medium][i].hold <= holds
               /\ fate[starts'[medium][i].hold] = "none"
               /\ starts'[medium][i].fresh => i = Len(starts'[medium]) /\ starts'[medium][i].hold \notin slid
    <3>1. i \in Nat /\ i + 1 \in DOMAIN starts[medium] /\ starts'[medium][i] = starts[medium][i + 1]
          /\ 1 \in 1 .. (i + 1) - 1
      BY <1>1
    <3>2. /\ on[medium] < starts[medium][i + 1].hold /\ starts[medium][1].hold < starts[medium][i + 1].hold
          /\ starts[medium][i + 1].hold <= holds /\ fate[starts[medium][i + 1].hold] = "none"
          /\ starts[medium][i + 1].fresh =>
                i + 1 = Len(starts[medium]) /\ starts[medium][i + 1].hold \notin slid
      BY <3>1 DEF InHand, StartsInTurn
    <3> QED BY <1>1, <3>1, <3>2
  <2>2. ASSUME NEW i \in DOMAIN starts'[medium], NEW j \in 1 .. i - 1
        PROVE  starts'[medium][j].hold < starts'[medium][i].hold
    <3>1. j \in DOMAIN starts'[medium] /\ i + 1 \in DOMAIN starts[medium] /\ j + 1 \in 1 .. (i + 1) - 1
      BY <1>1
    <3>2. starts[medium][j + 1].hold < starts[medium][i + 1].hold
      BY <3>1 DEF InHand, StartsInTurn
    <3> QED BY <1>1, <3>1, <3>2
  <2> QED BY <2>1, <2>2 DEF StartsInTurn
<1>4. NothingAhead'
  <2>1. starts[medium][1].hold <= holds /\ fate[starts[medium][1].hold] = "none"
    BY <1>1 DEF InHand, StartsInTurn
  <2> QED BY <2>1 DEF InHand, NothingAhead
<1> QED BY <1>2, <1>3, <1>4

\* A device answers the start that waited longest.
LEMMA StartedKeeps ==
    ASSUME NoteInv, NEW d \in Device, DeviceStarted(d) PROVE NoteInv'
<1> DEFINE s == Head(starts[d])
           ran == d = "video" /\ on[d] # 0
<1>1. /\ starts[d] # <<>> /\ starts' = [starts EXCEPT ![d] = Tail(@)]
      /\ UNCHANGED <<medium, finishing, fate, slid, holds, patient, opened>>
      /\ on' = [on EXCEPT ![d] = IF @ = 0 \/ (d = "voice" /\ stops[d] # <<>>) THEN s.hold ELSE @]
  BY DEF DeviceStarted
<1>2. /\ s \in NoteStart /\ s.hold \in Hold /\ s.fresh \in BOOLEAN /\ s = starts[d][1]
      /\ starts' \in [Device -> Seq(NoteStart)] /\ \A e \in Device \ {d} : starts'[e] = starts[e]
  <2>1. s \in NoteStart /\ s = starts[d][1]
        /\ starts' \in [Device -> Seq(NoteStart)] /\ \A e \in Device \ {d} : starts'[e] = starts[e]
    BY <1>1, FirstStart DEF NoteInv
  <2> QED BY <2>1 DEF NoteStart
<1>3. IF s.fresh THEN noteShown' = (noteShown \/ ~ran) /\ stops' = stops
      ELSE stops' = [stops EXCEPT ![d] = Append(@, "undo")] /\ noteShown' = noteShown
  BY DEF DeviceStarted
<1>4. /\ on \in [Device -> 0 .. MaxHold] /\ on' \in [Device -> 0 .. MaxHold]
      /\ on'[d] \in {on[d], s.hold} /\ \A e \in Device \ {d} : on'[e] = on[e]
      /\ on'[d] # 0 /\ (ran => on'[d] = on[d])
  <2>1. on \in [Device -> 0 .. MaxHold] /\ s.hold \in 0 .. MaxHold /\ s.hold # 0
    BY <1>2 DEF NoteInv, NoteTypes
  <2>2. on'[d] = (IF on[d] = 0 \/ (d = "voice" /\ stops[d] # <<>>) THEN s.hold ELSE on[d])
        /\ \A e \in Device \ {d} : on'[e] = on[e]
    BY <1>1, <2>1
  <2>3. on' \in [Device -> 0 .. MaxHold]
    BY <1>1, <2>1
  <2> QED BY <2>1, <2>2, <2>3
<1>5. /\ stops' \in [Device -> Seq(NoteStopper)] /\ noteShown' \in BOOLEAN
      /\ \A e \in Device \ {d} : stops'[e] = stops[e]
      /\ ~s.fresh => /\ stops'[d] # <<>>
                     /\ IF stops[d] = <<>> THEN Head(stops'[d]) = "undo" ELSE Head(stops'[d]) = Head(stops[d])
                     /\ \A i \in DOMAIN stops'[d] : stops'[d][i] = "finish" =>
                           i \in DOMAIN stops[d] /\ stops[d][i] = "finish"
  <2>1. CASE s.fresh
    BY <1>3, <2>1 DEF NoteInv, NoteTypes
  <2>2. CASE ~s.fresh
    <3>1. stops' = [stops EXCEPT ![d] = Append(@, "undo")] /\ "undo" \in NoteStopper \ {"finish"}
      BY <1>3, <2>2 DEF NoteStopper
    <3>2. noteShown' \in BOOLEAN
      BY <1>3, <2>2 DEF NoteInv, NoteTypes
    <3> QED BY <3>1, <3>2, StopperKeeps
  <2> QED BY <2>1, <2>2
<1> HIDE DEF s, ran
<1>6. NoteTypes'
  BY <1>1, <1>2, <1>4, <1>5 DEF NoteInv, NoteTypes
<1>7. ASSUME InHand PROVE InHand'
  <2>1. d = medium /\ medium \in Device
    BY <1>1, <1>7 DEF InHand, OneMedium
  <2>2. ~noteShown /\ finishing = NotFinishing
    BY <1>1, <1>7, <2>1 DEF InHand, OneAtOnce
  <2>3. StartsInTurn' /\ NothingAhead' /\ (s.fresh => starts'[medium] = <<>>)
    <3>1. NoteTypes /\ starts[medium] # <<>> /\ starts' = [starts EXCEPT ![medium] = Tail(@)]
          /\ on'[medium] \in {on[medium], starts[medium][1].hold}
      BY <1>1, <1>2, <1>4, <2>1 DEF NoteInv
    <3>2. UNCHANGED <<medium, fate, slid, holds>>
      BY <1>1
    <3>3. s.fresh = starts[medium][1].fresh
      BY <1>2, <2>1
    <3> QED BY <1>7, <2>1, <3>1, <3>2, <3>3, LaterInTurn
  <2>4. OneMedium'
    <3>1. medium' = medium /\ \A e \in Device \ {medium} :
             starts'[e] = starts[e] /\ stops'[e] = stops[e] /\ on'[e] = on[e]
      BY <1>1, <1>2, <1>4, <1>5, <2>1
    <3> QED BY <1>7, <3>1 DEF InHand, OneMedium
  <2>5. noteShown' => s.fresh /\ (s.fresh => noteShown' = ~ran)
    BY <1>2, <1>3, <2>2
  <2>6. OneAtOnce'
    BY <1>1, <2>2, <2>3, <2>5 DEF OneAtOnce, NotFinishing
  <2>7. \A i \in DOMAIN stops[medium] : stops[medium][i] # "finish"
    BY <1>7, <2>2 DEF InHand, OneFinish, NotFinishing
  <2>8. \A i \in DOMAIN stops'[medium] : stops'[medium][i] # "finish"
    BY <1>2, <1>3, <1>5, <2>1, <2>7
  <2>9. OneFinish'
    BY <1>1, <2>2, <2>8 DEF OneFinish, NotFinishing
  <2>10. stops'[medium] # <<>> => Head(stops'[medium]) # "finish"
    <3>1. stops'[medium] \in Seq(NoteStopper)
      BY <1>5, <2>1
    <3>2. stops'[medium] # <<>> => 1 \in DOMAIN stops'[medium] /\ Head(stops'[medium]) = stops'[medium][1]
      BY <3>1
    <3> QED BY <2>8, <3>2
  <2>11. s.fresh => s.hold \notin slid
    <3>1. 1 \in DOMAIN starts[medium]
      BY <1>1, <2>1, FirstStart DEF NoteInv
    <3> QED BY <1>2, <1>7, <2>1, <3>1 DEF InHand, StartsInTurn
  <2>12. SlidStops'
    <3> SUFFICES ASSUME on'[medium] \in slid PROVE stops'[medium] # <<>>
      BY <1>1, <2>10 DEF SlidStops
    <3>1. CASE s.fresh
      <4>1. on[medium] \in slid
        BY <1>4, <2>1, <2>11, <3>1
      <4> QED BY <1>3, <1>7, <3>1, <4>1 DEF InHand, SlidStops
    <3>2. CASE ~s.fresh
      BY <1>5, <2>1, <3>2
    <3> QED BY <3>1, <3>2
  <2>13. opened /\ ~noteShown' => stops'[medium] # <<>>
    <3>1. CASE ~s.fresh
      BY <1>5, <2>1, <3>1
    <3>2. CASE s.fresh /\ ran
      BY <1>3, <1>7, <2>1, <2>2, <3>2 DEF InHand, ran
    <3>3. CASE s.fresh /\ ~ran
      BY <1>3, <3>3
    <3> QED BY <3>1, <3>2, <3>3
  <2> QED BY <1>1, <1>5, <1>7, <2>3, <2>4, <2>6, <2>9, <2>12, <2>13 DEF InHand
<1> QED BY <1>1, <1>6, <1>7 DEF NoteInv

\* A device that was refused.
LEMMA DeniedKeeps ==
    ASSUME NoteInv, NEW d \in Device, DeviceDenied(d) PROVE NoteInv'
<1> DEFINE s == Head(starts[d])
<1>1. /\ starts[d] # <<>> /\ starts' = [starts EXCEPT ![d] = Tail(@)]
      /\ UNCHANGED <<medium, noteShown, on, finishing, fate, slid, holds, patient, opened>>
  BY DEF DeviceDenied
<1>2. /\ s = starts[d][1] /\ starts' \in [Device -> Seq(NoteStart)]
      /\ \A e \in Device \ {d} : starts'[e] = starts[e]
  BY <1>1, FirstStart DEF NoteInv
<1>3. /\ stops' \in [Device -> Seq(NoteStopper)]
      /\ \A e \in Device \ {d} : stops'[e] = stops[e]
      /\ \/ stops' = stops
         \/ /\ stops'[d] # <<>>
            /\ IF stops[d] = <<>> THEN Head(stops'[d]) = "undo" ELSE Head(stops'[d]) = Head(stops[d])
            /\ \A i \in DOMAIN stops'[d] : stops'[d][i] = "finish" =>
                  i \in DOMAIN stops[d] /\ stops[d][i] = "finish"
  <2>1. CASE stops' = stops
    BY <2>1 DEF NoteInv, NoteTypes
  <2>2. CASE stops' = [stops EXCEPT ![d] = Append(@, "undo")]
    <3>1. "undo" \in NoteStopper \ {"finish"}
      BY DEF NoteStopper
    <3> QED BY <2>2, <3>1, StopperKeeps
  <2> QED BY <2>1, <2>2 DEF DeviceDenied, Stop
<1>4. NoteTypes'
  BY <1>1, <1>2, <1>3 DEF NoteInv, NoteTypes
<1>5. ASSUME InHand PROVE InHand'
  <2>1. d = medium /\ medium \in Device
    BY <1>1, <1>5 DEF InHand, OneMedium
  <2>2. ~noteShown /\ finishing = NotFinishing
    BY <1>1, <1>5, <2>1 DEF InHand, OneAtOnce
  <2>3. StartsInTurn' /\ NothingAhead'
    <3>1. NoteTypes /\ starts[medium] # <<>> /\ starts' = [starts EXCEPT ![medium] = Tail(@)]
          /\ on'[medium] \in {on[medium], starts[medium][1].hold}
      BY <1>1, <2>1 DEF NoteInv
    <3>2. UNCHANGED <<medium, fate, slid, holds>>
      BY <1>1
    <3> QED BY <1>5, <2>1, <3>1, <3>2, LaterInTurn
  <2>4. OneMedium'
    <3>1. medium' = medium /\ \A e \in Device \ {medium} :
             starts'[e] = starts[e] /\ stops'[e] = stops[e] /\ on'[e] = on[e]
      BY <1>1, <1>2, <1>3, <2>1
    <3> QED BY <1>5, <3>1 DEF InHand, OneMedium
  <2>5. OneAtOnce'
    BY <1>1, <2>2 DEF OneAtOnce, NotFinishing
  <2>6. OneFinish'
    BY <1>1, <1>3, <1>5, <2>1 DEF InHand, OneFinish, NotFinishing
  <2>7. SlidStops'
    BY <1>1, <1>3, <1>5, <2>1 DEF InHand, SlidStops
  <2>8. opened /\ on[medium] # 0 => stops'[medium] # <<>>
    BY <1>3, <1>5, <2>1, <2>2 DEF InHand
  <2> QED BY <1>1, <1>5, <2>3, <2>4, <2>5, <2>6, <2>7, <2>8 DEF InHand
<1> QED BY <1>1, <1>4, <1>5 DEF NoteInv

\* The fate of a recording that is neither made, nor wanted, nor ahead.
LEMMA FateKeeps ==
    ASSUME NoteTypes, InHand, NEW h \in Hold, NEW f \in Fates, fate' = [fate EXCEPT ![h] = f],
           h \notin slid, h <= holds, on'[medium] # h, on'[medium] \in {0, on[medium]},
           on[medium] = h \/ fate[h] # "none",
           UNCHANGED <<medium, starts, slid, holds>>
    PROVE  /\ fate' \in [Hold -> Fates] /\ \A g \in slid : fate'[g] = "none"
           /\ StartsInTurn' /\ NothingAhead'
           /\ \A g \in Hold : fate[g] # "none" /\ f # "none" => fate'[g] # "none"
<1>1. /\ fate' \in [Hold -> Fates] /\ fate'[h] = f /\ \A g \in Hold \ {h} : fate'[g] = fate[g]
      /\ medium \in Device /\ on[medium] \in 0 .. MaxHold /\ holds \in Nat /\ slid \subseteq Hold
  BY DEF NoteTypes
<1>2. \A i \in DOMAIN starts[medium] : starts[medium][i].hold \in Hold
  <2>1. starts[medium] \in Seq(NoteStart)
    BY <1>1 DEF NoteTypes
  <2>2. \A i \in DOMAIN starts[medium] : starts[medium][i] \in NoteStart
    BY <2>1
  <2> QED BY <2>2 DEF NoteStart
<1>3. \A i \in DOMAIN starts[medium] : starts[medium][i].hold # h
  BY <1>1, <1>2 DEF InHand, StartsInTurn
<1>4. \A i \in DOMAIN starts[medium] : fate'[starts[medium][i].hold] = "none"
                                       /\ on'[medium] < starts[medium][i].hold
  BY <1>1, <1>2, <1>3 DEF InHand, StartsInTurn
<1>5. StartsInTurn'
  BY <1>4 DEF InHand, StartsInTurn
<1>6. NothingAhead'
  <2>1. on'[medium] # 0 => fate'[on'[medium]] = "none"
    BY <1>1 DEF InHand, NothingAhead
  <2>2. on'[medium] <= holds
    BY <1>1 DEF InHand, NothingAhead
  <2>3. \A g \in Hold : g > holds => fate'[g] = "none" /\ g \notin slid
    BY <1>1 DEF InHand, NothingAhead
  <2> QED BY <2>1, <2>2, <2>3 DEF NothingAhead
<1>7. \A g \in slid : fate'[g] = "none"
  BY <1>1 DEF InHand
<1> QED BY <1>1, <1>5, <1>6, <1>7

\* The device stops for the first that waits.
LEMMA StoppedKeeps ==
    ASSUME NoteInv, NEW d \in Device, DeviceStopped(d) PROVE NoteInv'
<1> DEFINE who == Head(stops[d])
           rec == on[d]
<1>1. /\ stops[d] # <<>> /\ stops' = [stops EXCEPT ![d] = Tail(@)] /\ on' = [on EXCEPT ![d] = 0]
      /\ UNCHANGED <<medium, starts, slid, holds, patient, opened>>
      /\ noteShown' \in BOOLEAN /\ (noteShown' => noteShown)
  BY DEF DeviceStopped, NoteInv, NoteTypes
<1>2. \/ UNCHANGED <<finishing, fate>> /\ who # "finish"
      \/ who = "finish" /\ finishing' = NotFinishing /\ fate' = fate
      \/ /\ who = "finish" /\ rec # 0
         /\ \E f \in Fates \ {"none"} : fate' = [fate EXCEPT ![rec] = f]
         /\ \/ finishing' = NotFinishing
            \/ finishing' = [at |-> "upload", hold |-> rec]
  BY DEF DeviceStopped, Recorded, Enqueues, Fates
<1>3. /\ stops[d] \in Seq(NoteStopper) /\ Tail(stops[d]) \in Seq(NoteStopper)
      /\ stops \in [Device -> Seq(NoteStopper)] /\ on \in [Device -> 0 .. MaxHold] /\ rec \in 0 .. MaxHold
      /\ fate \in [Hold -> Fates] /\ who = stops[d][1] /\ 1 \in DOMAIN stops[d]
  BY <1>1 DEF NoteInv, NoteTypes
<1>4. /\ stops' \in [Device -> Seq(NoteStopper)] /\ stops'[d] = Tail(stops[d])
      /\ \A e \in Device \ {d} : stops'[e] = stops[e] /\ on'[e] = on[e]
      /\ on' \in [Device -> 0 .. MaxHold] /\ on'[d] = 0
  BY <1>1, <1>3
<1>5. \A i \in DOMAIN stops'[d] : i + 1 \in DOMAIN stops[d] /\ i + 1 # 1 /\ i \in Nat /\ stops'[d][i] = stops[d][i + 1]
  BY <1>1, <1>3, <1>4
<1> HIDE DEF who, rec
<1>6. NoteTypes'
  <2>1. rec # 0 => rec \in Hold
    BY <1>3
  <2>2. fate' \in [Hold -> Fates]
    BY <1>2, <1>3, <2>1
  <2>3. finishing' \in [at : {"no", "stop", "upload", "send"}, hold : 0 .. MaxHold]
    BY <1>2, <1>3 DEF NoteInv, NoteTypes, NotFinishing
  <2> QED BY <1>1, <1>4, <2>2, <2>3 DEF NoteInv, NoteTypes
<1>7. ASSUME InHand PROVE InHand'
  <2>1. d = medium /\ medium \in Device /\ rec = on[medium]
    BY <1>1, <1>7 DEF InHand, OneMedium, rec
  <2>2. OneMedium'
    <3>1. medium' = medium /\ \A e \in Device \ {medium} :
             starts'[e] = starts[e] /\ stops'[e] = stops[e] /\ on'[e] = on[e]
      BY <1>1, <1>4, <2>1
    <3> QED BY <1>7, <3>1 DEF InHand, OneMedium
  <2>3. who = "finish" => finishing.at = "stop" /\ \A i \in DOMAIN stops'[medium] : stops'[medium][i] # "finish"
    BY <1>3, <1>5, <1>7, <2>1 DEF InHand, OneFinish
  <2>4. finishing' # NotFinishing => finishing # NotFinishing
    BY <1>2, <2>3 DEF NotFinishing
  <2>5. OneAtOnce'
    BY <1>1, <1>7, <2>4 DEF InHand, OneAtOnce, NotFinishing
  <2>6. SlidStops'
    BY <1>1, <1>4, <2>1 DEF SlidStops, NoteInv, NoteTypes
  <2>7. who = "finish" /\ rec # 0 => rec \in Hold /\ rec \notin slid /\ rec <= holds
    BY <1>1, <1>3, <1>7, <2>1 DEF InHand, SlidStops, NothingAhead, who
  <2>8. ASSUME fate' = fate PROVE StartsInTurn' /\ NothingAhead'
    <3>1. \A i \in DOMAIN starts[medium] : starts[medium][i].hold \in Hold
      <4>1. starts[medium] \in Seq(NoteStart)
        BY <2>1 DEF NoteInv, NoteTypes
      <4>2. \A i \in DOMAIN starts[medium] : starts[medium][i] \in NoteStart
        BY <4>1
      <4> QED BY <4>2 DEF NoteStart
    <3>2. on'[medium] = 0 /\ medium' = medium /\ starts' = starts /\ slid' = slid /\ holds' = holds /\ holds \in Nat
      BY <1>1, <1>4, <2>1 DEF NoteInv, NoteTypes
    <3>3. \A i \in DOMAIN starts[medium] : on'[medium] < starts[medium][i].hold
      BY <3>1, <3>2
    <3>4. StartsInTurn'
      BY <1>7, <2>8, <3>2, <3>3 DEF InHand, StartsInTurn
    <3>5. NothingAhead'
      BY <1>7, <2>8, <3>2 DEF InHand, NothingAhead
    <3> QED BY <3>4, <3>5
  <2>9. CASE who # "finish"
    <3>1. finishing' = finishing /\ fate' = fate
      BY <1>2, <2>9
    <3>2. OneFinish'
      <4>1. \A i \in DOMAIN stops'[medium] : stops'[medium][i] = "finish" =>
               /\ finishing.at = "stop"
               /\ \A j \in DOMAIN stops'[medium] : stops'[medium][j] = "finish" => i = j
        BY <1>5, <1>7, <2>1 DEF InHand, OneFinish
      <4> QED BY <1>1, <1>7, <3>1, <4>1 DEF InHand, OneFinish, NotFinishing
    <3>3. StartsInTurn' /\ NothingAhead'
      BY <2>8, <3>1
    <3> QED BY <1>1, <1>4, <1>7, <2>1, <2>2, <2>5, <2>6, <3>1, <3>2, <3>3 DEF InHand
  <2>10. CASE who = "finish" /\ finishing' = NotFinishing /\ fate' = fate
    <3>1. OneFinish'
      BY <1>1, <1>2, <1>7, <2>1, <2>3, <2>7, <2>10 DEF InHand, OneFinish, NotFinishing
    <3>3. StartsInTurn' /\ NothingAhead'
      BY <2>10, <2>8
    <3> QED BY <1>1, <1>4, <1>7, <2>1, <2>2, <2>5, <2>6, <2>10, <3>1, <3>3 DEF InHand
  <2>11. CASE who = "finish" /\ rec # 0 /\ \E f \in Fates \ {"none"} : fate' = [fate EXCEPT ![rec] = f]
    <3>1. PICK f \in Fates \ {"none"} : fate' = [fate EXCEPT ![rec] = f]
      BY <2>11
    <3>2. /\ on'[medium] # rec /\ on'[medium] \in {0, on[medium]} /\ UNCHANGED <<medium, starts, slid, holds>>
          /\ rec \in Hold /\ rec \notin slid /\ rec <= holds /\ on[medium] = rec
      BY <1>1, <1>4, <2>1, <2>7, <2>11
    <3>3. (\A g \in slid : fate'[g] = "none") /\ StartsInTurn' /\ NothingAhead'
      BY <1>7, <3>1, <3>2, FateKeeps DEF NoteInv
    <3>4. fate'[rec] = f
      BY <1>3, <3>1, <3>2
    <3>5. OneFinish'
      BY <1>1, <1>2, <2>1, <2>3, <2>7, <2>11, <3>1, <3>4 DEF OneFinish, NotFinishing
    <3> QED BY <1>1, <1>4, <2>1, <2>2, <2>5, <2>6, <3>3, <3>5 DEF InHand
  <2> QED BY <1>2, <2>9, <2>10, <2>11
<1> QED BY <1>1, <1>6, <1>7 DEF NoteInv

\* An upload, a call or the outbox settles what becomes of a recording.
LEMMA FatedKeeps ==
    ASSUME NoteInv, NEW h \in 0 .. MaxHold, NEW f \in Fates \ {"none"}, fate' = [fate EXCEPT ![h] = f],
           patient /\ InHand => h \in Hold /\ fate[h] # "none",
           finishing' \in {finishing, NotFinishing},
           finishing' = finishing \/ finishing.at \in {"upload", "send"},
           UNCHANGED <<medium, noteShown, starts, on, stops, slid, holds, patient, opened>>
    PROVE  NoteInv'
<1>1. fate' \in [Hold -> Fates]
  BY DEF NoteInv, NoteTypes
<1>2. NoteTypes'
  BY <1>1 DEF NoteInv, NoteTypes, NotFinishing
<1>3. ASSUME patient, InHand PROVE InHand'
  <2>1. h \in Hold /\ fate[h] # "none" /\ h \notin slid /\ h <= holds /\ on[medium] # h /\ holds \in Nat
    BY <1>3 DEF InHand, NothingAhead, NoteInv, NoteTypes
  <2>2. /\ \A g \in slid : fate'[g] = "none"
        /\ StartsInTurn' /\ NothingAhead'
        /\ \A g \in Hold : fate[g] # "none" => fate'[g] # "none"
    <3>1. on'[medium] # h /\ on'[medium] \in {0, on[medium]}
      BY <2>1
    <3> QED BY <1>3, <2>1, <3>1, FateKeeps DEF NoteInv
  <2>3. OneMedium' /\ OneAtOnce' /\ SlidStops'
    BY <1>3 DEF InHand, OneMedium, OneAtOnce, SlidStops, NotFinishing
  <2>4. OneFinish'
    BY <1>3, <2>2 DEF InHand, OneFinish, NotFinishing
  <2> QED BY <1>3, <2>2, <2>3, <2>4 DEF InHand
<1> QED BY <1>2, <1>3 DEF NoteInv

LEMMA NoteInvStep == NoteInv /\ [NoteNext]_noteVars => NoteInv'
<1> SUFFICES ASSUME NoteInv, [NoteNext]_noteVars PROVE NoteInv'
  OBVIOUS
<1>1. CASE PressButton
  BY <1>1, PressKeeps DEF PressButton
<1>2. CASE SlideAway \/ CancelLocked
  BY <1>2, CancelKeeps DEF SlideAway, CancelLocked, Touches
<1>3. CASE SlideUp \/ Rebuilt \/ OtherSend \/ UNCHANGED noteVars
  <2>1. UNCHANGED <<medium, noteShown, starts, on, stops, finishing, fate, slid, holds, patient, opened>>
    BY <1>3 DEF SlideUp, Rebuilt, OtherSend, noteVars, Touches
  <2> QED BY <2>1, FingerKeeps
<1>4. CASE LiftFinger \/ SendLocked \/ HitMaxDuration
  <2>1. CASE FinishRecording
    BY <1>4, <2>1, FinishKeeps DEF LiftFinger, SendLocked, HitMaxDuration
  <2>2. CASE UNCHANGED <<noteShown, stops, finishing>>
    BY <1>4, <2>2, FingerKeeps DEF LiftFinger, SendLocked, HitMaxDuration
  <2> QED BY <1>4, <2>1, <2>2 DEF LiftFinger, SendLocked, HitMaxDuration
<1>5. CASE Toggle
  BY <1>5, ToggleKeeps
<1>6. CASE \E how \in {"button", "selecting", "system"} : Back(how)
  BY <1>6, BackKeeps
<1>7. CASE \E d \in Device : DeviceStarted(d) \/ DeviceDenied(d) \/ DeviceStopped(d)
  BY <1>7, StartedKeeps, DeniedKeeps, StoppedKeeps
<1>8. CASE UploadAnswered \/ CallAnswered
  <2>1. /\ UNCHANGED <<medium, noteShown, starts, on, stops, slid, holds, patient, opened>>
        /\ finishing.at \in {"upload", "send"} /\ finishing.hold \in 0 .. MaxHold
        /\ patient /\ InHand => finishing.hold \in Hold /\ fate[finishing.hold] # "none"
    BY <1>8 DEF UploadAnswered, CallAnswered, NoteInv, NoteTypes, InHand, OneFinish
  <2>2. CASE finishing' = NotFinishing
             /\ \E f \in Fates \ {"none"} : fate' = [fate EXCEPT ![finishing.hold] = f]
    BY <2>1, <2>2, FatedKeeps
  <2>3. CASE finishing' = [finishing EXCEPT !.at = "send"] /\ fate' = fate
    <3>1. /\ finishing' \in [at : {"no", "stop", "upload", "send"}, hold : 0 .. MaxHold]
          /\ finishing'.at = "send" /\ finishing'.hold = finishing.hold
      BY <2>3 DEF NoteInv, NoteTypes
    <3>2. NoteTypes'
      BY <2>1, <2>3, <3>1 DEF NoteInv, NoteTypes
    <3>3. ASSUME InHand PROVE InHand'
      <4>1. OneMedium' /\ StartsInTurn' /\ NothingAhead' /\ SlidStops'
        BY <2>1, <2>3, <3>3 DEF InHand, OneMedium, StartsInTurn, NothingAhead, SlidStops
      <4>2. OneAtOnce' /\ OneFinish'
        BY <2>1, <2>3, <3>1, <3>3 DEF InHand, OneAtOnce, OneFinish, NotFinishing
      <4> QED BY <2>1, <2>3, <3>3, <4>1, <4>2 DEF InHand
    <3> QED BY <2>1, <3>2, <3>3 DEF NoteInv
  <2> QED BY <1>8, <2>2, <2>3 DEF UploadAnswered, CallAnswered, Becomes, Enqueues, Fates
<1>9. CASE \E h \in Hold : Flushed(h)
  <2>1. PICK h \in Hold : Flushed(h)
    BY <1>9
  <2>2. PICK f \in Fates \ {"none"} : fate' = [fate EXCEPT ![h] = f]
    BY <2>1 DEF Flushed, Fates
  <2>3. /\ UNCHANGED <<medium, noteShown, starts, on, stops, finishing, slid, holds, patient, opened>>
        /\ fate[h] # "none" /\ h \in 0 .. MaxHold
    BY <2>1 DEF Flushed
  <2> QED BY <2>2, <2>3, FatedKeeps
<1> QED BY <1>1, <1>2, <1>3, <1>4, <1>5, <1>6, <1>7, <1>8, <1>9 DEF NoteNext

\* However presses, slides and the answers of the recorders overlap: a recording the
\* user slid away is never sent, and a device that records is shown to or is about to
\* be stopped, for any number of presses; the user changes the medium only while no
\* recorder starts or stops.
THEOREM NoteInHand == NoteSpec => []NoteFollowsFinger
<1>1. NoteInv => NoteFollowsFinger
  <2> SUFFICES ASSUME NoteInv PROVE NoteFollowsFinger
    OBVIOUS
  <2>1. SlidIsNeverSent
    BY DEF NoteInv, InHand, SlidIsNeverSent
  <2>2. MicIsShown
    BY DEF NoteInv, InHand, OneMedium, MicIsShown
  <2> QED BY <2>1, <2>2 DEF NoteFollowsFinger
<1> QED BY <1>1, NoteInvInit, NoteInvStep, PTL DEF NoteSpec
================================================================================
