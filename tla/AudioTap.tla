------------------------------- MODULE AudioTap -------------------------------
(***************************************************************************)
(* PLANKMacAudioTap (media/audio-tap.m) and the desktop audio part of      *)
(* PLANKMacScreenCapture (media/screen-capture.m).  Preparing a tap can    *)
(* hang in the audio system until the user answers a consent dialog, so a  *)
(* stop that comes first cancels the activation and does not wait; tap     *)
(* activation and cancellation race for one atomic flag.                   *)
(***************************************************************************)
EXTENDS StreamState

Cancels_bug(t) == t.activation \in {"Preparing", "Activating"}

\* The compare-exchange in stopWithCompletion.
Cancels(t) == t.activation = "Preparing"

\* stopDesktopAudio's completion block: teardown goes on, or a restart waits.
AudioStopped(w) ==
  LET f == FinishCapture([w EXCEPT !.c.audioStopped = TRUE]) IN
  [f EXCEPT !.c.restartTimer = @ \/ (~f.c.stopping /\ f.c.restartPending)]

\* stopDesktopAudio, with the tap's stopWithCompletion.
StopTap(w) ==
  LET stopped == [w EXCEPT !.c.tap = FALSE, !.t.stopped = TRUE, !.t.destroy = "queued"] IN
  CASE ~w.c.tap -> w
    [] w.c.tap /\ Cancels(w.t) -> AudioStopped([stopped EXCEPT !.t.activation = "Cancelled"])
    [] OTHER -> stopped

Restarts_bug(c) == c.restarts < MaxRestarts

Restarts(c) == c.audioReady /\ ~c.stopping /\ c.restarts < MaxRestarts

\* disableDesktopAudio: at most MaxRestarts times, only after it had worked.
DisableAudio(w) ==
  IF ~w.c.tap THEN w
  ELSE StopTap([w EXCEPT !.c.restartPending = Restarts(w.c),
                         !.c.restarts = IF Restarts(w.c) THEN @ + 1 ELSE @,
                         !.c.audioReady = FALSE])

\* createDesktopAudioTap, which can also fail.
CreatedTap(w) == [w EXCEPT !.c.tap = TRUE, !.c.audioStopped = FALSE, !.c.audioReady = FALSE,
                           !.t = NewTap(w.t.slot)]

WithoutTap(w) == [w EXCEPT !.c.tap = FALSE, !.c.audioStopped = TRUE, !.c.audioReady = FALSE]

CreateTap(w) == {CreatedTap(w), WithoutTap(w)}

\* startDesktopAudio, with startWithCompletion.
StartTap(w) ==
  IF w.c.stopping \/ ~w.c.tap THEN w
  ELSE IF w.t.slot # "free" THEN DisableAudio(w)
  ELSE [w EXCEPT !.t.slot = "mine", !.t.control = "prepare"]

-----------------------------------------------------------------------------
(***************************************************************************)
(* The control queue.                                                      *)
(***************************************************************************)
\* The other side of the compare-exchange.
MayActivate == tap.activation = "Preparing"

\* prepare returns, if it does; a stop may have come after its last look.
TapPrepared ==
  /\ tap.control = "prepare"
  /\ \/ /\ MayActivate
        /\ tap' = [tap EXCEPT !.activation = "Activating", !.control = "activate"]
     \/ tap' = [tap EXCEPT !.control = "done", !.answer = "no"]
  /\ UNCHANGED <<session, capture, video>>

TapActivated ==
  /\ tap.control = "activate"
  /\ \E ready \in BOOLEAN :
       tap' = [tap EXCEPT !.control = "done", !.running = ready,
                          !.answer = IF ready THEN "yes" ELSE "no"]
  /\ UNCHANGED <<session, capture, video>>

\* The block of stopWithCompletion behind it: destroy, and the slot's release.
TapDestroyed ==
  /\ tap.destroy = "queued" /\ tap.control \in {"none", "done"}
  /\ tap' = [tap EXCEPT !.destroy = "posted", !.running = FALSE,
                        !.slot = IF @ = "mine" THEN "free" ELSE @]
  /\ UNCHANGED <<session, capture, video>>

\* A tap of an earlier connection, whose preparation hung, is cleaned up.
OtherTapDestroyed ==
  /\ tap.slot = "other"
  /\ tap' = [tap EXCEPT !.slot = "free"]
  /\ UNCHANGED <<session, capture, video>>

-----------------------------------------------------------------------------
(***************************************************************************)
(* On the session's queue.                                                 *)
(***************************************************************************)
\* The answer to startDesktopAudio.
TapAnswers ==
  LET w == [Now EXCEPT !.t.answer = "none"] IN
  /\ tap.answer # "none"
  /\ Becomes(IF tap.stopped \/ capture.stopping THEN w
             ELSE IF tap.answer = "yes" THEN [w EXCEPT !.c.audioReady = TRUE]
             ELSE DisableAudio([w EXCEPT !.c.audioReady = FALSE]))

\* drain finds a failure, or the sample block refuses a sample.  The listeners
\* and the callback run before prepare and activate have returned, so it can
\* come before the answer and while the activation is still to be decided.
TapFails ==
  /\ tap.control # "none" /\ ~tap.stopped /\ ~capture.stopping
  /\ Becomes(DisableAudio(Now))

\* The tap's stop completion, unless the stop was a cancellation.
TapStopped ==
  LET w == [Now EXCEPT !.t.destroy = "done"] IN
  /\ tap.destroy = "posted" /\ tap.answer = "none"   \* which was posted before
  /\ Becomes(IF tap.activation = "Cancelled" THEN w ELSE AudioStopped(w))

\* One second later: a new encoder and a new tap on the same transport.
AudioRestarts ==
  /\ capture.restartTimer
  /\ LET w == [Now EXCEPT !.c.restartTimer = FALSE] IN
     IF capture.stopping \/ ~capture.restartPending THEN Becomes(w)
     ELSE \E made \in CreateTap([w EXCEPT !.c.restartPending = FALSE]) : Becomes(StartTap(made))

TapControl == TapPrepared \/ TapActivated \/ TapDestroyed \/ OtherTapDestroyed
==============================================================================
