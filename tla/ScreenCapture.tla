----------------------------- MODULE ScreenCapture -----------------------------
(***************************************************************************)
(* PLANKMacScreenCapture (media/screen-capture.m) with its encoder, and    *)
(* the key frame recovery of PLANKMacNativeVideo (media/native-video.m,    *)
(* media/video-recovery.h).  Its failed block is the session's stopOnQueue *)
(* (media/preview-session.m), which is here for that reason.               *)
(***************************************************************************)
EXTENDS AudioTap

\* stopCapture.
StopStream(w) ==
  IF w.c.hasStream THEN [w EXCEPT !.c.stopAwaited = TRUE]
  ELSE FinishCapture([w EXCEPT !.c.captureStopped = TRUE])

\* stopWithCompletion.
StopCapture(w) ==
  LET quiet == StopTap([w EXCEPT !.c.stopping = TRUE, !.c.restartPending = FALSE,
                               !.c.replacement = 0]) IN
  IF w.c.stopping THEN w ELSE IF Starting(w.c) THEN quiet ELSE StopStream(quiet)

\* PLANKMacPreviewSession stopOnQueue: the lease first, the network, the capture.
StopOnQueue(w) ==
  LET s == [w.s EXCEPT !.state = "Stopping", !.lease = "ended", !.endpoint = "closed"] IN
  CASE w.s.state \in {"Stopping", "Stopped"} -> w
    [] w.s.state \notin {"Stopping", "Stopped"} /\ s.captureStarted -> StopCapture([w EXCEPT !.s = s])
    [] OTHER -> [w EXCEPT !.s = FinishSession([s EXCEPT !.captureDrained = TRUE])]

-----------------------------------------------------------------------------
(***************************************************************************)
(* Starting.                                                               *)
(***************************************************************************)
\* startWithTopology up to its first question to ScreenCaptureKit.
StartCapture(w) ==
  LET made == IF w.c.desktopTap THEN CreateTap(w) ELSE {w} IN
  {StopOnQueue(m) : m \in made} \cup {[m EXCEPT !.c.stage = "discovering"] : m \in made}

\* The display is found, and an encoder and a stream for it are made, or not.
Discovered ==
  LET w == [Now EXCEPT !.c.stage = "settled"]
      begun == [w EXCEPT !.c.encoder = w.s.bitrate, !.c.hasStream = TRUE]
  IN
  /\ capture.stage = "discovering"
  /\ \/ /\ capture.stopping
        /\ Becomes(FinishCapture([w EXCEPT !.c.captureStopped = TRUE]))
     \/ ~capture.stopping /\ Becomes(StopOnQueue(w))
     \/ ~capture.stopping /\ Becomes(StopOnQueue(begun))   \* addStreamOutput failed
     \/ ~capture.stopping /\ Becomes([begun EXCEPT !.c.stage = "starting"])

\* The started block of the session.
Streams(w) ==
  IF w.s.state # "Connecting" THEN w
  ELSE [w EXCEPT !.s.state = "Streaming", !.s.worker = "receiving"]

\* The stream has started, or not; the session may refuse what it got.
CaptureStarted ==
  LET w == [Now EXCEPT !.c.stage = "settled"] IN
  /\ capture.stage = "starting"
  /\ \/ capture.stopping /\ Becomes(StopStream(w))
     \/ ~capture.stopping /\ Becomes(StopOnQueue(w))
     \/ ~capture.stopping /\ Becomes(StartTap(Streams(w)))

\* The answer to stopCaptureWithCompletionHandler.
CaptureStopped ==
  /\ capture.stopAwaited
  /\ Becomes(FinishCapture([Now EXCEPT !.c.stopAwaited = FALSE, !.c.captureStopped = TRUE]))

\* didStopWithError, a bad sample, or an audio sample that could not be encoded.
CaptureFails ==
  /\ capture.hasStream /\ ~capture.stopping
  /\ Becomes(StopOnQueue(Now))

-----------------------------------------------------------------------------
(***************************************************************************)
(* Frames.                                                                 *)
(***************************************************************************)
EncoderBusy == capture.changing \/ Len(capture.inFlight) >= MaxInFlight

\* PLANKMacVideoRecoveryBegin.
ForcesKey == video.requested /\ ~video.encoding

\* didOutputSampleBuffer with a complete frame; the encoder takes it or fails.
FrameCaptured ==
  /\ capture.hasStream /\ ~capture.stopping /\ ~EncoderBusy
  /\ \/ Becomes([Now EXCEPT
          !.c.inFlight = Append(@, [rate |-> capture.encoder, forced |-> ForcesKey]),
          !.v.encoding = @ \/ ForcesKey])
     \/ Becomes(StopOnQueue(Now))

ReplaceWhenDrained_bug(w) ==
  IF w.c.changing /\ ~w.c.building /\ ~w.c.stopping
  THEN [w EXCEPT !.c.building = TRUE, !.c.encoder = 0]
  ELSE w

\* replaceEncoderWhenDrained.
ReplaceWhenDrained(w) ==
  IF w.c.changing /\ ~w.c.building /\ w.c.inFlight = <<>> /\ ~w.c.stopping
  THEN [w EXCEPT !.c.building = TRUE, !.c.encoder = 0]
  ELSE w

RequestKey(w) == [w EXCEPT !.v.requested = TRUE, !.v.intact = FALSE]

Recovered_bug(v, key, evicted) ==
  [v EXCEPT !.requested = (@ /\ ~key), !.intact = key \/ (@ /\ ~evicted)]

\* PLANKMacVideoRecoverySent for an accepted frame: an accepted key needs none of
\* the frames that it evicted, a delta does.
Recovered(v, key, evicted) ==
  [v EXCEPT !.requested = IF key THEN FALSE ELSE @ \/ evicted,
            !.intact = key \/ (@ /\ ~evicted)]

\* sendSample: a delta is skipped until the key it waits for.
Sample(w, key, evicted) ==
  IF w.v.requested /\ ~key THEN [w EXCEPT !.v.intact = FALSE]
  ELSE [w EXCEPT !.v = Recovered(w.v, key, evicted)]

\* The lease and the endpoint still let a frame through.
MaySend(s) == s.lease = "active" /\ s.endpoint = "ready"

\* What becomes of the oldest encoded frame: with the stop it is suppressed; the
\* encoder may have dropped it; it is sent, or sending it fails.
Delivered(w, forced) ==
  IF w.c.stopping THEN {w}
  ELSE {RequestKey(w), StopOnQueue([w EXCEPT !.v.intact = FALSE])} \cup
       (IF MaySend(w.s)
        THEN {Sample(w, f.key, f.evicted) : f \in [key: {TRUE, forced}, evicted: BOOLEAN]} ELSE {})

Completed_bug(w, forced) == w

\* completeKeyFrameRequest.
Completed(w, forced) == IF forced THEN [w EXCEPT !.v.encoding = FALSE] ELSE w

\* The encoder's output block.
FrameEncoded ==
  /\ capture.inFlight # <<>>
  /\ LET forced == Head(capture.inFlight).forced IN
     \E w \in Delivered([Now EXCEPT !.c.inFlight = Tail(@)], forced) :
       Becomes(FinishCapture(ReplaceWhenDrained(Completed(w, forced))))

-----------------------------------------------------------------------------
(***************************************************************************)
(* A new bitrate is a new encoder.                                         *)
(***************************************************************************)
\* setBitrate takes it, or its completion is told that there is no encoder.
MayChange(c) == c.encoder # 0 /\ ~c.stopping /\ ~c.changing

ChangeEncoder_bug(w, bitrate) == [w EXCEPT !.c.changing = TRUE, !.c.replacement = bitrate]

ChangeEncoder(w, bitrate) ==
  IF MayChange(w.c)
  THEN ReplaceWhenDrained([w EXCEPT !.c.changing = TRUE, !.c.replacement = bitrate])
  ELSE StopOnQueue([w EXCEPT !.s.changingBitrate = FALSE])

\* acknowledgeBitrate: a control message that can fail to be sent.
Acknowledged(w) == {w, StopOnQueue(w)}

BitrateChanged_bug(w, b) ==
  IF w.s.state # "Streaming" THEN {w}
  ELSE IF w.c.encoder = 0 THEN {StopOnQueue([w EXCEPT !.s.changingBitrate = FALSE])}
  ELSE Acknowledged([w EXCEPT !.s.changingBitrate = FALSE, !.s.transportRate = b])

\* The completion block of applyPendingBitrate.
BitrateChanged(w, b) ==
  IF w.s.state # "Streaming" THEN {w}
  ELSE LET changed == [w EXCEPT !.s.changingBitrate = FALSE]
           applied == [changed EXCEPT !.s.transportRate = b, !.s.bitrate = b]
       IN {StopOnQueue(changed)} \cup (IF w.c.encoder = 0 THEN {} ELSE Acknowledged(applied))

NewEncoder(w, encoder) == RequestKey([w EXCEPT !.c.encoder = encoder])

\* The new encoder was made on a global queue, or could not be.
EncoderBuilt ==
  LET b == capture.replacement
      w == [Now EXCEPT !.c.building = FALSE, !.c.changing = FALSE, !.c.replacement = 0]
  IN
  /\ capture.building
  /\ IF capture.stopping THEN Becomes(FinishCapture(w))
     ELSE \E encoder \in {0, b} :
            \E done \in BitrateChanged(NewEncoder(w, encoder), b) : Becomes(done)
==============================================================================
