---------------------------- MODULE PreviewSession ----------------------------
(***************************************************************************)
(* PLANKMacPreviewSession (apps/host/macos/media/preview-session.m): one   *)
(* stream from its launch to the end of its drain, with the capture, the   *)
(* encoder and the audio tap it owns.                                      *)
(***************************************************************************)
EXTENDS ScreenCapture

\* start's block.
Start ==
  /\ session.state = "Prepared"
  /\ LET w == [Now EXCEPT !.s.state = "Connecting", !.s.endpoint = "connecting"] IN
     Becomes(w) \/ Becomes(StopOnQueue(w))

\* stopWithCompletion's block, from the runtime (with a callback) or from launch.
Stop(callback) ==
  /\ session.state # "Stopped"
  /\ LET stopped == StopOnQueue(Now) IN
     Becomes([stopped EXCEPT !.s.waiting = stopped.s.state # "Stopped" /\ (@ \/ callback)])

-----------------------------------------------------------------------------
(***************************************************************************)
(* tick, every 20 ms.                                                      *)
(***************************************************************************)
Watched == session.state \in {"Connecting", "Streaming"}

\* The lease, the native endpoint.
MustStop ==
  \/ session.lease = "ended"
  \/ session.endpoint = "failed"

\* The first and the middle part: what the tick looks at says stop.  Beside the
\* two above, the topology, the input device, the deadlines of the capture's start
\* and of a bitrate change, a control message and the repeat timer's input can.
TickStops ==
  /\ Watched
  /\ Becomes(StopOnQueue(Now))

\* The endpoint is ready: the lease is activated, the capture starts.
TickReady ==
  /\ session.state = "Connecting" /\ ~session.captureStarted
  /\ session.endpoint = "ready" /\ session.lease = "pending"
  /\ \E w \in StartCapture([Now EXCEPT !.s.lease = "active", !.s.captureStarted = TRUE]) :
       Becomes(w)

\* receiveControls: up to eight messages, of which the key requests and the last
\* bitrate (0: none) have an effect.
Requested(w, key, bitrate) ==
  LET asked == IF key THEN RequestKey(w) ELSE w IN
  IF bitrate = 0 THEN asked ELSE [asked EXCEPT !.s.pendingBitrate = bitrate]

MayApply(s) == s.pendingBitrate # 0 /\ ~s.changingBitrate

\* applyPendingBitrate, when the request is due.
Applied(w) ==
  LET b == w.s.pendingBitrate
      taken == [w EXCEPT !.s.pendingBitrate = 0]
  IN
  CASE ~MayApply(w.s) -> {w}
    [] MayApply(w.s) /\ b = w.s.bitrate -> Acknowledged(taken)
    [] OTHER -> {ChangeEncoder([taken EXCEPT !.s.changingBitrate = TRUE], b)}

\* The last part, on a stream that runs.
TickStreams(key, bitrate, due) ==
  /\ session.state = "Streaming" /\ ~MustStop
  /\ LET w == Requested(Now, key, bitrate) IN
     \E done \in IF due THEN Applied(w) ELSE {w} : Becomes(done)

-----------------------------------------------------------------------------
(***************************************************************************)
(* The input worker of startInputReceiver.                                 *)
(***************************************************************************)
WorkerMoves(from, to) ==
  /\ session.worker = from
  /\ session' = [session EXCEPT !.worker = to]
  /\ UNCHANGED <<capture, tap, video>>

\* plank_transport_native_input_receive returns, at the latest after a second.
InputReceived == WorkerMoves("receiving", "handoff")

\* The block it hands to the session's queue.
InputHandled ==
  LET on == [Now EXCEPT !.s.worker = "receiving"]
      off == [Now EXCEPT !.s.worker = "leaving"]
  IN
  /\ session.worker = "handoff"
  /\ IF session.state # "Streaming" THEN Becomes(off)
     ELSE Becomes(on) \/ Becomes(StopOnQueue(off))

WorkerLeaves == WorkerMoves("leaving", "left")

WorkerGone_bug == WorkerMoves("left", "gone")

\* dispatch_group_notify.
WorkerGone ==
  /\ session.worker = "left"
  /\ Becomes([Now EXCEPT !.s = FinishSession([session EXCEPT !.worker = "gone"])])

-----------------------------------------------------------------------------
(***************************************************************************)
(* From outside: the peer connects, the transport fails, the lease lapses  *)
(* or is revoked.                                                          *)
(***************************************************************************)
EndpointReady ==
  /\ session.endpoint = "connecting"
  /\ session' = [session EXCEPT !.endpoint = "ready"]
  /\ UNCHANGED <<capture, tap, video>>

EndpointFails ==
  /\ session.endpoint \in {"connecting", "ready"}
  /\ session' = [session EXCEPT !.endpoint = "failed"]
  /\ UNCHANGED <<capture, tap, video>>

LeaseEnds ==
  /\ session.lease # "ended"
  /\ session' = [session EXCEPT !.lease = "ended"]
  /\ UNCHANGED <<capture, tap, video>>

-----------------------------------------------------------------------------
CaptureNext ==
  \/ Discovered \/ CaptureStarted \/ CaptureStopped \/ CaptureFails
  \/ FrameCaptured \/ FrameEncoded \/ EncoderBuilt

AudioNext == TapControl \/ TapAnswers \/ TapFails \/ TapStopped \/ AudioRestarts

WorkerNext == InputReceived \/ InputHandled \/ WorkerLeaves \/ WorkerGone

SessionNext ==
  \/ Start
  \/ \E callback \in BOOLEAN : Stop(callback)
  \/ TickStops \/ TickReady
  \/ \E key, due \in BOOLEAN, bitrate \in Bitrates \cup {0} : TickStreams(key, bitrate, due)

Next ==
  \/ SessionNext \/ WorkerNext \/ CaptureNext \/ AudioNext
  \/ EndpointReady \/ EndpointFails \/ LeaseEnds

Spec == Init /\ [][Next]_vars

(***************************************************************************)
(* The queue runs its blocks, the 20 ms timer fires, a request is due      *)
(* after 500 ms even if others follow it, ScreenCaptureKit, the encoder    *)
(* and an activated tap answer, and the input receive returns within its   *)
(* timeout.  Nothing is assumed of the preparation of a tap: consent may   *)
(* never be given.                                                         *)
(***************************************************************************)
FairSpec ==
  /\ Spec
  /\ WF_vars(MustStop /\ TickStops)
  /\ WF_vars(\E key \in BOOLEAN, bitrate \in Bitrates \cup {0} : TickStreams(key, bitrate, TRUE))
  /\ WF_vars(WorkerNext)
  /\ WF_vars(Discovered \/ CaptureStarted \/ CaptureStopped)
  /\ WF_vars(FrameEncoded) /\ WF_vars(EncoderBuilt)
  /\ WF_vars(TapActivated \/ TapDestroyed) /\ WF_vars(TapAnswers \/ TapStopped)

-----------------------------------------------------------------------------
\* The four parts have their shape.
TypeOK ==
  /\ session \in Session
  /\ capture \in Capture /\ Len(capture.inFlight) <= MaxInFlight
  /\ tap \in Tap
  /\ video \in Video

\* "Keep the allocated endpoint until drain so no borrowed callback sees freed
\* memory": when finishStop destroys the endpoint, the input worker is out of its
\* receive, no frame is with the encoder and no audio can arrive.
EndpointOutlivesUse ==
  session.endpoint = "freed" =>
    /\ session.worker \in {"none", "left", "gone"}
    /\ capture.inFlight = <<>> /\ ~capture.building
    /\ ~tap.running

\* "No old frame can cross the switch": every frame in flight was given to the
\* encoder that is there now, and a running capture has one to give a frame to
\* whenever it is not changing it.
FramesMatchEncoder ==
  /\ \A i \in DOMAIN capture.inFlight : capture.inFlight[i].rate = capture.encoder
  /\ capture.hasStream /\ ~capture.stopping /\ ~capture.changing => capture.encoder # 0

\* The recovery flag is set exactly while a forced key is with the encoder: a
\* frame that was dropped or failed, or an encoder that was replaced, never
\* leaves it set, which would suppress all later recovery.
RecoveryNotStuck ==
  video.encoding <=> \E i \in DOMAIN capture.inFlight : capture.inFlight[i].forced

\* While the capture runs and no key is awaited the peer's chain of references is whole: after a
\* drop, an eviction, a skipped frame, a new encoder or a request of the peer
\* deltas are held back until a key was accepted (sendSample).
ChainIntact == ~capture.stopping /\ ~video.requested => video.intact

\* What was acknowledged is what runs: outside a change the session, the encoder
\* and the transport have one bitrate.
BitratesAgree ==
  session.state = "Streaming" /\ ~session.changingBitrate =>
    session.bitrate = capture.encoder /\ session.transportRate = session.bitrate

\* "It cannot deliver samples, start IO or mute playback after completion": once
\* the capture is drained the tap does not run and does not come to run, also if
\* its preparation returns from the consent dialog much later.
NoAudioAfterDrain == capture.drained => ~tap.running /\ tap.control # "activate"

\* Taps of one stream do not overlap: a restart makes a new tap only when the
\* tap before it, if any, is destroyed, so that a late mute or unmute of the old
\* one cannot fall into the life of the new one.
TapsDoNotOverlap ==
  [][capture'.tap /\ ~capture.tap => tap.destroy \in {"none", "done"} /\ ~tap.running]_vars

\* What finishStop and the drain leave behind is used by no callback any more:
\* not by input, video or audio.
NothingAfterDrain == EndpointOutlivesUse /\ NoAudioAfterDrain

\* A bitrate change never mixes encoders: frames in flight, the session, the
\* encoder and the transport agree on one bitrate outside a change.
OneBitrate == FramesMatchEncoder /\ BitratesAgree

\* Key frame recovery neither stops short, with deltas sent into a broken chain,
\* nor stays on, with every later recovery suppressed.
RecoverySound == RecoveryNotStuck /\ ChainIntact

Life == INSTANCE StreamLife WITH
  state <- session.state, held <- session.lease # "ended", waiting <- session.waiting

\* The stream does what its owner relies on (StreamLife): the states in order, no
\* lease once it stops, one answer to those who wait, and, without any answer to
\* a consent dialog, it stops when the lease is lost and drains when it stops.
ImplementsStreamLife == Life!LivelySpec

\* A bitrate request is taken up, also if the peer keeps sending others and if a
\* change is under way, or the stream ends: setBitrate always gets its new
\* encoder, frames or not, without the help of the five second deadline.
BitrateTaken == session.pendingBitrate # 0 ~> session.pendingBitrate = 0 \/ session.state = "Stopped"
==============================================================================
