------------------------------ MODULE StreamState ------------------------------
(***************************************************************************)
(* The state of one stream of the macOS Host and the end of its teardown:  *)
(* PLANKMacPreviewSession, PLANKMacScreenCapture, PLANKMacAudioTap and     *)
(* PLANKMacNativeVideo (apps/host/macos/media).  All four run on the       *)
(* session's serial queue; an action is one block of that queue, one step  *)
(* of the tap's control queue or of the input worker, or an answer of a    *)
(* framework.  What the blocks call is an operator on the record `Now' of  *)
(* the four parts, so that a handler's nested calls are composed.          *)
(***************************************************************************)
EXTENDS Naturals, Sequences

CONSTANTS
  Bitrates,      \* 10000..150000
  FirstBitrate,  \* the one the launch asked for
  MaxInFlight,   \* frames with the encoder: 3
  MaxRestarts    \* audio restarts of one connection: 3

ASSUME StreamAssumption ==
  /\ Bitrates \subseteq Nat \ {0} /\ FirstBitrate \in Bitrates
  /\ MaxInFlight \in Nat \ {0}
  /\ MaxRestarts \in Nat

VARIABLES session, capture, tap, video

vars == <<session, capture, tap, video>>

(***************************************************************************)
(* PLANKMacPreviewSession.  `worker' is its input thread, `endpoint' the   *)
(* native endpoint it owns, `transportRate' the bitrate that endpoint has  *)
(* been told, `waiting' a stop callback.                                   *)
(***************************************************************************)
Session ==
  [state: {"Prepared", "Connecting", "Streaming", "Stopping", "Stopped"},
   lease: {"pending", "active", "ended"},
   endpoint: {"idle", "connecting", "ready", "failed", "closed", "freed"},
   captureStarted: BOOLEAN, captureDrained: BOOLEAN, waiting: BOOLEAN,
   worker: {"none", "receiving", "handoff", "leaving", "left", "gone"},
   bitrate: Bitrates, pendingBitrate: Bitrates \cup {0}, changingBitrate: BOOLEAN,
   transportRate: Bitrates]

(***************************************************************************)
(* PLANKMacScreenCapture.  `stage': where the start is; it is _starting    *)
(* while an answer of ScreenCaptureKit is awaited.  `inFlight': the frames *)
(* with the encoder, each with the encoder's bitrate and whether it was    *)
(* forced to be a key.  encoder 0: none.  `drained': the stop completion   *)
(* was called.  `replacement': the bitrate that _replacementCompletion is  *)
(* for, 0 where that is nil.  `tap': _audioTap is not nil.                 *)
(***************************************************************************)
Frame == [rate: Bitrates, forced: BOOLEAN]

Capture ==
  [stage: {"unused", "discovering", "starting", "settled"}, hasStream: BOOLEAN,
   stopping: BOOLEAN, captureStopped: BOOLEAN, stopAwaited: BOOLEAN, drained: BOOLEAN,
   encoder: Bitrates \cup {0}, inFlight: Seq(Frame),
   changing: BOOLEAN, building: BOOLEAN, replacement: Bitrates \cup {0},
   desktopTap: BOOLEAN, tap: BOOLEAN, audioStopped: BOOLEAN, audioReady: BOOLEAN,
   restartPending: BOOLEAN, restartTimer: BOOLEAN, restarts: 0..MaxRestarts]

Starting(c) == c.stage \in {"discovering", "starting"}

(***************************************************************************)
(* PLANKMacAudioTap.  `control': the start block on the control queue;     *)
(* `answer' and `destroy': the blocks that follow.  `running': the device  *)
(* plays to the tap, local playback is muted.  `slot': who has tapInUse.   *)
(***************************************************************************)
Tap ==
  [activation: {"Preparing", "Activating", "Cancelled"},
   control: {"none", "prepare", "activate", "done"}, answer: {"none", "yes", "no"},
   stopped: BOOLEAN, destroy: {"none", "queued", "posted", "done"},
   running: BOOLEAN, slot: {"free", "mine", "other"}]

NewTap(slot) ==
  [activation |-> "Preparing", control |-> "none", answer |-> "none", stopped |-> FALSE,
   destroy |-> "none", running |-> FALSE, slot |-> slot]

(***************************************************************************)
(* PLANKMacVideoRecovery, and a history: `intact', the frames the peer was *)
(* given since the last key lack none that they refer to.                  *)
(***************************************************************************)
Video == [requested: BOOLEAN, encoding: BOOLEAN, intact: BOOLEAN]

Init ==
  /\ session = [state |-> "Prepared", lease |-> "pending", endpoint |-> "idle",
                captureStarted |-> FALSE, captureDrained |-> FALSE, waiting |-> FALSE,
                worker |-> "none", bitrate |-> FirstBitrate, pendingBitrate |-> 0,
                changingBitrate |-> FALSE, transportRate |-> FirstBitrate]
  /\ \E desktopTap \in BOOLEAN :
       capture = [stage |-> "unused", hasStream |-> FALSE, stopping |-> FALSE,
                  captureStopped |-> FALSE, stopAwaited |-> FALSE, drained |-> FALSE,
                  encoder |-> 0, inFlight |-> <<>>, changing |-> FALSE, building |-> FALSE,
                  replacement |-> 0, desktopTap |-> desktopTap, tap |-> FALSE,
                  audioStopped |-> TRUE, audioReady |-> FALSE, restartPending |-> FALSE,
                  restartTimer |-> FALSE, restarts |-> 0]
  /\ \E slot \in {"free", "other"} : tap = NewTap(slot)
  /\ video = [requested |-> TRUE, encoding |-> FALSE, intact |-> FALSE]

-----------------------------------------------------------------------------
Now == [s |-> session, c |-> capture, t |-> tap, v |-> video]

Becomes(w) == session' = w.s /\ capture' = w.c /\ tap' = w.t /\ video' = w.v

InputLeft_bug(s) == TRUE

\* dispatch_group_wait(_inputGroup, NOW) = 0.
InputLeft(s) == s.worker \in {"none", "left", "gone"}

\* PLANKMacPreviewSession finishStop: frees the endpoint, runs the callbacks.
FinishSession(s) ==
  IF s.state = "Stopping" /\ s.captureDrained /\ InputLeft(s)
  THEN [s EXCEPT !.state = "Stopped", !.endpoint = "freed", !.waiting = FALSE]
  ELSE s

CaptureIdle(c) == c.captureStopped /\ c.audioStopped /\ c.inFlight = <<>> /\ ~c.building

\* PLANKMacScreenCapture finishStop, and the completion stopOnQueue gave it.
FinishCapture(w) ==
  IF w.c.stopping /\ CaptureIdle(w.c)
  THEN [w EXCEPT !.c.encoder = 0, !.c.hasStream = FALSE, !.c.drained = TRUE,
                 !.s = IF w.c.drained THEN @ ELSE FinishSession([@ EXCEPT !.captureDrained = TRUE])]
  ELSE w
==============================================================================
