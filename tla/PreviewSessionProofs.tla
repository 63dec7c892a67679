------------------------- MODULE PreviewSessionProofs -------------------------
(***************************************************************************)
(* What holds of a stream in every run, for all sets of bitrates and all   *)
(* limits on frames in flight and restarts: nothing uses what the drain    *)
(* has freed, one bitrate at a time, key frame recovery, taps that do not  *)
(* overlap, and the order of states its owner relies on (StreamLife).      *)
(*                                                                         *)
(* The operations of PreviewSession, ScreenCapture and AudioTap are        *)
(* operators from worlds to worlds, and most handlers run several of them  *)
(* one after the other.  The proof follows them: a world w is Good when    *)
(* the inductive invariant holds in it; lemmas say what each operator      *)
(* keeps; and for each action one lemma shows Step(Now, Now'): the world   *)
(* it leaves is Good, the session moved as StreamLife allows, and no new   *)
(* tap was made beside an old one.                                         *)
(***************************************************************************)
EXTENDS PreviewSession, TLAPS

\* The state of a stream in one value: session, capture, tap and video.
World == [s: Session, c: Capture, t: Tap, v: Video]

\* The session has not begun to stop.
Live(s) == s.state \in {"Prepared", "Connecting", "Streaming"}

\* A tap that was made and never started: no control operation, no answer, no
\* IO.
Fresh(t) ==
  t.activation = "Preparing" /\ t.control = "none" /\ t.answer = "none" /\ ~t.running

\* The life of a tap (PLANKMacAudioTap) beside what the capture knows of it.
\* stop is the only way to a destruction; only a tap whose activation was
\* claimed runs, has an activation posted or an answer to give; before its
\* destruction is posted the IO is off; and audioStopped, a pending restart and
\* its timer each say that the tap before is gone or was never started.
TapInv(c, t) ==
  /\ t.stopped <=> t.destroy # "none"
  /\ t.activation = "Cancelled" => t.stopped
  /\ t.running => t.activation = "Activating"
  /\ t.control = "activate" => t.activation = "Activating"
  /\ t.answer = "yes" => t.activation = "Activating"
  /\ t.destroy \in {"posted", "done"} => ~t.running /\ t.control \in {"none", "done"}
  /\ c.tap => ~t.stopped /\ ~c.audioStopped
  /\ ~c.tap /\ ~t.stopped => Fresh(t)
  /\ c.audioReady => t.activation = "Activating"
  /\ c.restartPending => t.activation = "Activating"
  /\ c.audioStopped => ~t.stopped \/ t.activation = "Cancelled" \/ t.destroy = "done"
  /\ c.restartTimer /\ ~c.stopping => c.restartPending /\ c.audioStopped /\ t.destroy = "done"

\* The capture of a stream that was never started.
Unused(w) ==
  /\ w.c.stage = "unused" /\ w.c.inFlight = <<>> /\ w.c.encoder = 0
  /\ ~w.c.hasStream /\ ~w.c.building /\ ~w.c.changing /\ ~w.c.tap /\ ~w.c.stopAwaited
  /\ ~w.c.stopping /\ w.c.audioStopped /\ ~w.c.restartTimer /\ ~w.c.restartPending /\ ~w.t.stopped
  /\ w.v.requested /\ w.s.worker = "none"

\* Who has let go of what while the stream stops: the endpoint is freed exactly
\* in Stopped, Stopped means that capture and input are through, a drained
\* capture is idle and stopping, and the capture stops exactly when the session
\* does.
DrainInv(w) ==
  /\ w.s.state = "Stopped" <=> w.s.endpoint = "freed"
  /\ w.s.state = "Stopped" => w.s.captureDrained /\ InputLeft(w.s)
  /\ w.s.state = "Streaming" => w.s.captureStarted
  /\ w.s.state = "Prepared" => ~w.s.captureStarted
  /\ w.s.captureDrained => ~Live(w.s) /\ (w.c.drained \/ ~w.s.captureStarted)
  /\ w.c.drained => w.c.stopping /\ CaptureIdle(w.c)
  /\ w.s.captureStarted => (w.c.stopping <=> ~Live(w.s))
  /\ ~w.s.captureStarted => Unused(w)

\* Every frame in flight was given to the encoder that is there, a new encoder
\* is built only with no frame in flight, and the transport has the session's
\* bitrate.
RateInv(w) ==
  /\ w.s.transportRate = w.s.bitrate
  /\ \A i \in DOMAIN w.c.inFlight : w.c.inFlight[i].rate = w.c.encoder
  /\ w.c.building => w.c.changing /\ w.c.inFlight = <<>>
  /\ w.c.stage \in {"unused", "discovering"} =>
       w.c.inFlight = <<>> /\ ~w.c.changing /\ ~w.c.hasStream /\ w.c.encoder = 0

\* While the session lives a running capture has an encoder or changes it,
\* changes it only for the session, and outside a change has the session's
\* bitrate.
RunInv(w) ==
  Live(w.s) =>
    /\ w.c.hasStream /\ ~w.c.changing => w.c.encoder # 0
    /\ w.c.changing => w.s.state = "Streaming" /\ w.s.changingBitrate /\ w.c.replacement # 0
    /\ w.c.stage = "starting" /\ w.s.state = "Connecting" => w.c.encoder = w.s.bitrate
    /\ w.s.state = "Streaming" /\ ~w.s.changingBitrate => w.c.encoder = w.s.bitrate

\* The recovery flag is set exactly while a forced key is with the encoder, and
\* there is at most one.
KeyInv(w) ==
  /\ w.v.encoding <=> \E i \in DOMAIN w.c.inFlight : w.c.inFlight[i].forced
  /\ \A i, j \in DOMAIN w.c.inFlight : w.c.inFlight[i].forced /\ w.c.inFlight[j].forced => i = j

\* While the capture runs and no key is awaited the peer's chain of references
\* is whole.
ChainInv(w) == ~w.c.stopping /\ ~w.v.requested => w.v.intact

\* What the operations on audio may do to the world: the tap and the capture's
\* account of it change, and if they were the last thing the drain waited for
\* the capture is finished and the session with it.
Leaves(w, r) ==
  /\ r \in World /\ r.v = w.v
  /\ r.c.stage = w.c.stage /\ r.c.stopping = w.c.stopping /\ r.c.inFlight = w.c.inFlight
  /\ r.c.captureStopped = w.c.captureStopped /\ r.c.stopAwaited = w.c.stopAwaited
  /\ r.c.changing = w.c.changing /\ r.c.building = w.c.building /\ r.c.replacement = w.c.replacement
  /\ w.c.stopping /\ w.c.audioStopped => r.c.audioStopped
  /\ \/ /\ r.s = w.s /\ r.c.drained = w.c.drained
        /\ r.c.encoder = w.c.encoder /\ r.c.hasStream = w.c.hasStream
     \/ /\ w.c.stopping /\ CaptureIdle(r.c) /\ r.c.drained /\ r.c.encoder = 0 /\ ~r.c.hasStream
        /\ r.s = IF w.c.drained THEN w.s ELSE FinishSession([w.s EXCEPT !.captureDrained = TRUE])

\* The capture's account of its tap is the same.
SameAudio(c, d) ==
  /\ d.tap = c.tap /\ d.audioStopped = c.audioStopped /\ d.audioReady = c.audioReady
  /\ d.restartPending = c.restartPending /\ d.restartTimer = c.restartTimer
  /\ d.stopping = c.stopping

-----------------------------------------------------------------------------
\* finishStop leaves a session.
LEMMA FinishSessionTyped ==
  ASSUME NEW s \in Session
  PROVE  FinishSession(s) \in Session
<1>1. [s EXCEPT !.state = "Stopped", !.endpoint = "freed", !.waiting = FALSE] \in Session
  BY Zenon DEF Session
<1> QED BY <1>1, Zenon DEF FinishSession

\* finishStopIfDrained, when it goes through, piece by piece.
LEMMA FinishCaptureParts ==
  ASSUME NEW w \in World, w.c.stopping, CaptureIdle(w.c)
  PROVE  LET r == FinishCapture(w) IN
         /\ r.s = IF w.c.drained THEN w.s ELSE FinishSession([w.s EXCEPT !.captureDrained = TRUE])
         /\ r.c = [w.c EXCEPT !.encoder = 0, !.hasStream = FALSE, !.drained = TRUE]
         /\ r.t = w.t /\ r.v = w.v
         /\ r \in World
<1> DEFINE c == [w.c EXCEPT !.encoder = 0, !.hasStream = FALSE, !.drained = TRUE]
           s == IF w.c.drained THEN w.s ELSE FinishSession([w.s EXCEPT !.captureDrained = TRUE])
<1>1. FinishCapture(w) = [w EXCEPT !.c = c, !.s = s]
  BY Zenon DEF FinishCapture, World
<1>2. c \in Capture
  BY Zenon DEF World, Capture
<1>3. [w.s EXCEPT !.captureDrained = TRUE] \in Session
  BY Zenon DEF World, Session
<1>4. s \in Session
  BY <1>3, FinishSessionTyped, Zenon DEF World
<1> HIDE DEF c, s
<1>5. [w EXCEPT !.c = c, !.s = s] \in World
  BY <1>2, <1>4, Zenon DEF World
<1>6. /\ [w EXCEPT !.c = c, !.s = s].s = s /\ [w EXCEPT !.c = c, !.s = s].c = c
      /\ [w EXCEPT !.c = c, !.s = s].t = w.t /\ [w EXCEPT !.c = c, !.s = s].v = w.v
  BY Zenon DEF World
<1> QED BY <1>1, <1>5, <1>6, Zenon DEF c, s

\* finishStopIfDrained does no more than the audio operations may, and leaves
\* the tap alone.
LEMMA FinishCaptureLeaves ==
  ASSUME NEW w \in World
  PROVE  /\ Leaves(w, FinishCapture(w))
         /\ FinishCapture(w).t = w.t
         /\ SameAudio(w.c, FinishCapture(w).c)
<1>1. CASE w.c.stopping /\ CaptureIdle(w.c)
  <2> DEFINE r == FinishCapture(w)
  <2>1. /\ r.s = IF w.c.drained THEN w.s ELSE FinishSession([w.s EXCEPT !.captureDrained = TRUE])
        /\ r.c = [w.c EXCEPT !.encoder = 0, !.hasStream = FALSE, !.drained = TRUE]
        /\ r.t = w.t /\ r.v = w.v
        /\ r \in World
    BY <1>1, FinishCaptureParts, Zenon
  <2>2. w.c \in Capture
    BY Zenon DEF World
  <2> HIDE DEF r
  <2>3. Leaves(w, r)
    BY <1>1, <2>1, <2>2, ZenonT(60) DEF Leaves, Capture, CaptureIdle
  <2>4. SameAudio(w.c, r.c)
    BY <2>1, <2>2, Zenon DEF SameAudio, Capture
  <2> QED BY <2>1, <2>3, <2>4, Zenon DEF r
<1>2. CASE ~(w.c.stopping /\ CaptureIdle(w.c))
  BY <1>2, Zenon DEF FinishCapture, Leaves, SameAudio
<1> QED BY <1>1, <1>2, Zenon

\* Two audio operations in a row, of which the first does not finish the
\* capture, are one.
LEMMA LeavesThenLeaves ==
  ASSUME NEW u \in World, NEW w \in World, NEW r \in World, Leaves(u, w), Leaves(w, r),
         u.s = w.s, u.c.drained = w.c.drained
  PROVE  Leaves(u, r)
BY ZenonT(60) DEF Leaves, CaptureIdle

\* What the audio operations may do keeps the drain and the bitrates in order,
\* and the running of a live stream.
LEMMA LeavesKeeps ==
  ASSUME NEW w \in World, NEW r \in World, Leaves(w, r), w.s.captureStarted,
         DrainInv(w), RateInv(w)
  PROVE  DrainInv(r) /\ RateInv(r) /\ (RunInv(w) => RunInv(r))
<1>1. CASE r.s = w.s /\ r.c.drained = w.c.drained /\ r.c.encoder = w.c.encoder /\ r.c.hasStream = w.c.hasStream
  <2>1. DrainInv(r)
    BY <1>1, ZenonT(60) DEF Leaves, DrainInv, CaptureIdle
  <2>2. RateInv(r)
    BY <1>1, ZenonT(60) DEF Leaves, RateInv
  <2>3. RunInv(w) => RunInv(r)
    BY <1>1, Zenon DEF Leaves, RunInv
  <2> QED BY <2>1, <2>2, <2>3, Zenon
<1>2. CASE /\ w.c.stopping /\ CaptureIdle(r.c) /\ r.c.drained /\ r.c.encoder = 0 /\ ~r.c.hasStream
           /\ r.s = IF w.c.drained THEN w.s ELSE FinishSession([w.s EXCEPT !.captureDrained = TRUE])
  <2> DEFINE d == [w.s EXCEPT !.captureDrained = TRUE]
  <2>1. /\ w.s \in Session /\ d \in Session /\ d.captureDrained
        /\ d.state = w.s.state /\ d.endpoint = w.s.endpoint /\ d.worker = w.s.worker
        /\ d.captureStarted = w.s.captureStarted
        /\ d.bitrate = w.s.bitrate /\ d.transportRate = w.s.transportRate
    BY Zenon DEF World, Session
  <2> HIDE DEF d
  <2>2. FinishSession(d) = IF d.state = "Stopping" /\ d.captureDrained /\ InputLeft(d)
                           THEN [d EXCEPT !.state = "Stopped", !.endpoint = "freed", !.waiting = FALSE] ELSE d
    BY Zenon DEF FinishSession
  <2> DEFINE e == [d EXCEPT !.state = "Stopped", !.endpoint = "freed", !.waiting = FALSE]
  <2>3. /\ e.state = "Stopped" /\ e.endpoint = "freed"
        /\ e.captureDrained = d.captureDrained /\ e.worker = d.worker
        /\ e.captureStarted = d.captureStarted
        /\ e.bitrate = d.bitrate /\ e.transportRate = d.transportRate
    BY <2>1, ZenonT(60) DEF Session
  <2> HIDE DEF e
  <2>4. r.s = w.s \/ r.s = d \/ (r.s = e /\ d.state = "Stopping" /\ InputLeft(d))
    BY <1>2, <2>2, Zenon DEF d, e
  <2>5. DrainInv(r)
    <3>1. CASE r.s = w.s
      BY <1>2, <3>1, Zenon DEF Leaves, DrainInv
    <3>2. CASE r.s = d
      BY <1>2, <2>1, <3>2, ZenonT(60) DEF Leaves, DrainInv, Live, InputLeft
    <3>3. CASE r.s = e /\ d.state = "Stopping" /\ InputLeft(d)
      BY <1>2, <2>1, <2>3, <3>3, Zenon DEF Leaves, DrainInv, Live, InputLeft
    <3> QED BY <2>4, <3>1, <3>2, <3>3, Zenon
  <2>6. RateInv(r)
    BY <1>2, <2>1, <2>3, <2>4 DEF Leaves, RateInv, CaptureIdle
  <2>7. ~Live(r.s)
    BY <1>2, <2>1, <2>3, <2>4, Zenon DEF DrainInv, Live
  <2> QED BY <2>5, <2>6, <2>7, Zenon DEF RunInv
<1> QED BY <1>1, <1>2, Zenon DEF Leaves
\* The life of the tap is kept where neither it nor the capture's account
\* changes.
LEMMA SameAudioKeeps ==
  ASSUME NEW c, NEW d, NEW t, SameAudio(c, d), TapInv(c, t)
  PROVE  TapInv(d, t)
BY Zenon DEF SameAudio, TapInv

\* audioStopped, called when the tap is gone, is such an operation: it starts
\* the restart timer or lets the drain go on.
LEMMA AudioStoppedLeaves ==
  ASSUME NEW w \in World, TapInv(w.c, w.t), ~w.c.tap,
         ~w.t.stopped \/ w.t.activation = "Cancelled" \/ w.t.destroy = "done",
         w.c.restartPending => w.t.destroy = "done"
  PROVE  /\ Leaves(w, AudioStopped(w))
         /\ AudioStopped(w).t = w.t
         /\ TapInv(AudioStopped(w).c, AudioStopped(w).t)
         /\ ~AudioStopped(w).c.tap
<1> DEFINE d == [w.c EXCEPT !.audioStopped = TRUE]
           u == [w EXCEPT !.c.audioStopped = TRUE]
           f == FinishCapture(u)
           timer == f.c.restartTimer \/ (~f.c.stopping /\ f.c.restartPending)
           e == [f.c EXCEPT !.restartTimer = timer]
           r == [f EXCEPT !.c = e]
<1>1. u \in World /\ u.s = w.s /\ u.c = d /\ u.t = w.t /\ u.v = w.v /\ w.c \in Capture
  BY Zenon DEF World, Capture
<1>2. AudioStopped(w) = r
  BY FinishCaptureLeaves, <1>1, Zenon DEF AudioStopped, Leaves, World
<1>3. Leaves(w, u) /\ TapInv(u.c, u.t)
  <2>1. Leaves(w, u)
    BY <1>1 DEF Leaves, Capture
  <2>2. TapInv(d, w.t)
    BY <1>1, Zenon DEF TapInv, Capture
  <2> QED BY <2>1, <2>2, <1>1, Zenon
<1> HIDE DEF u
<1>4. Leaves(u, f) /\ f.t = w.t /\ f \in World /\ SameAudio(u.c, f.c)
  BY <1>1, FinishCaptureLeaves, ZenonT(60) DEF Leaves
<1> HIDE DEF f
<1>5. TapInv(f.c, f.t) /\ f.c.audioStopped /\ ~f.c.tap /\ (f.c.restartPending => f.t.destroy = "done")
  BY <1>1, <1>3, <1>4, SameAudioKeeps, ZenonT(60) DEF SameAudio, Capture, World
<1>6. Leaves(w, f)
  BY <1>1, <1>3, <1>4, LeavesThenLeaves, Zenon DEF Capture
<1>a. f.c \in Capture /\ e \in Capture
  <2>1. f.c \in Capture /\ timer \in BOOLEAN
    BY <1>4, Zenon DEF World
  <2> HIDE DEF timer
  <2> QED BY <2>1, ZenonT(60) DEF Capture
<1> HIDE DEF e
<1>7. r \in World /\ r.s = f.s /\ r.c = e /\ r.t = f.t /\ r.v = f.v
  BY <1>4, <1>a, Zenon DEF World
<1> USE DEF e
<1> HIDE DEF r
<1>8. Leaves(w, r)
  BY <1>6, <1>7, <1>a DEF Leaves, Capture, CaptureIdle
<1>9. TapInv(e, f.t) /\ ~e.tap
  BY <1>5, <1>a, ZenonT(60) DEF TapInv, Capture
<1> QED BY <1>2, <1>4, <1>7, <1>8, <1>9, Zenon

\* Stopping the tap is such an operation, whichever of its threads holds the
\* tap.
LEMMA StopTapLeaves ==
  ASSUME NEW w \in World, TapInv(w.c, w.t), w.c.restartPending => w.t.activation = "Activating"
  PROVE  Leaves(w, StopTap(w)) /\ TapInv(StopTap(w).c, StopTap(w).t) /\ ~StopTap(w).c.tap
<1> DEFINE d == [w.c EXCEPT !.tap = FALSE]
           b == [w.t EXCEPT !.stopped = TRUE, !.destroy = "queued"]
           u == [w EXCEPT !.c = d, !.t = b]
           x == [b EXCEPT !.activation = "Cancelled"]
           y == [u EXCEPT !.t = x]
<1>1. w.c \in Capture /\ w.t \in Tap /\ d \in Capture /\ b \in Tap /\ x \in Tap
  BY ZenonT(60) DEF World, Capture, Tap
<1>2. u \in World /\ u.s = w.s /\ u.c = d /\ u.t = b /\ u.v = w.v
  BY <1>1, Zenon DEF World
<1>3. y \in World /\ y.s = w.s /\ y.c = d /\ y.t = x /\ y.v = w.v
  BY <1>1, Zenon DEF World
<1>4. u = [w EXCEPT !.c.tap = FALSE, !.t.stopped = TRUE, !.t.destroy = "queued"]
  BY Zenon DEF World
<1>5. y = [u EXCEPT !.t.activation = "Cancelled"]
  BY <1>2, Zenon
<1> HIDE DEF u, y
<1>6. StopTap(w) = IF ~w.c.tap THEN w ELSE IF Cancels(w.t) THEN AudioStopped(y) ELSE u
  <2>1. w.c.tap \in BOOLEAN
    BY <1>1, Zenon DEF Capture
  <2> QED BY <1>4, <1>5, <2>1 DEF StopTap
<1>7. CASE ~w.c.tap
  BY <1>6, <1>7, Zenon DEF Leaves
<1>8. CASE w.c.tap /\ ~Cancels(w.t)
  <2>1. Leaves(w, u)
    BY <1>1, <1>2 DEF Leaves, Capture
  <2>2. TapInv(d, b)
    BY <1>1, <1>8 DEF TapInv, Capture, Tap, Cancels
  <2> QED BY <1>1, <1>2, <1>6, <1>8, <2>1, <2>2 DEF Capture
<1>9. CASE w.c.tap /\ Cancels(w.t)
  <2>1. Leaves(w, y)
    BY <1>1, <1>3 DEF Leaves, Capture
  <2>2. TapInv(d, x) /\ ~w.c.restartPending
    BY <1>1, <1>9 DEF TapInv, Capture, Tap, Cancels
  <2>3. ~d.tap /\ x.activation = "Cancelled" /\ ~d.restartPending
    BY <1>1, <2>2, Zenon DEF Capture, Tap
  <2>5. u.s = w.s /\ w.c.drained = d.drained
    BY <1>1, <1>2, Zenon DEF Capture
  <2> HIDE DEF d, x
  <2>4. Leaves(y, AudioStopped(y)) /\ TapInv(AudioStopped(y).c, AudioStopped(y).t)
        /\ ~AudioStopped(y).c.tap
    BY <1>3, <2>2, <2>3, AudioStoppedLeaves, Zenon
  <2>6. AudioStopped(y) \in World
    BY <2>4, Zenon DEF Leaves
  <2>7. Leaves(w, AudioStopped(y))
    BY <1>3, <2>1, <2>4, <2>5, <2>6, LeavesThenLeaves, Zenon
  <2> QED BY <1>6, <1>9, <2>4, <2>7, Zenon
<1> QED BY <1>7, <1>8, <1>9, Zenon

\* disableAudio is such an operation, with a restart to follow or without.
LEMMA DisableAudioLeaves ==
  ASSUME NEW w \in World, TapInv(w.c, w.t)
  PROVE  /\ Leaves(w, DisableAudio(w)) /\ TapInv(DisableAudio(w).c, DisableAudio(w).t)
         /\ DisableAudio(w).c.tap => w.c.tap
<1> DEFINE again == Restarts(w.c)
           count == IF again THEN w.c.restarts + 1 ELSE w.c.restarts
           d == [w.c EXCEPT !.restartPending = again, !.restarts = count, !.audioReady = FALSE]
           u == [w EXCEPT !.c = d]
<1>1. w.c \in Capture /\ w.c.tap \in BOOLEAN /\ again \in BOOLEAN /\ count \in 0..MaxRestarts
  BY StreamAssumption DEF World, Capture, Restarts
<1>2. CASE ~w.c.tap
  BY <1>2, Zenon DEF DisableAudio, Leaves
<1>3. CASE w.c.tap
  <2>1. DisableAudio(w) = StopTap(u)
    BY <1>3, Zenon DEF DisableAudio, World
  <2>2. again => w.c.audioReady
    BY Zenon DEF Restarts
  <2> HIDE DEF again, count
  <2>3. d \in Capture
    BY <1>1, Zenon DEF Capture
  <2>4. u \in World /\ u.s = w.s /\ u.c = d /\ u.t = w.t /\ u.v = w.v
    BY <2>3, Zenon DEF World
  <2>5. TapInv(d, w.t)
    BY <1>1, <1>3, <2>2, Zenon DEF TapInv, Capture
  <2> HIDE DEF u
  <2>6. Leaves(w, u) /\ u.c.drained = w.c.drained
    BY <1>1, <2>4, ZenonT(60) DEF Leaves, Capture
  <2>7. d.restartPending => w.t.activation = "Activating"
    BY <2>5, Zenon DEF TapInv
  <2> HIDE DEF u, d
  <2>8. Leaves(u, StopTap(u)) /\ TapInv(StopTap(u).c, StopTap(u).t)
    BY <2>4, <2>5, <2>7, StopTapLeaves, Zenon
  <2>9. StopTap(u) \in World
    BY <2>8, Zenon DEF Leaves
  <2>10. Leaves(w, StopTap(u))
    BY <2>4, <2>6, <2>8, <2>9, LeavesThenLeaves, Zenon
  <2> QED BY <1>3, <2>1, <2>8, <2>10, Zenon
<1> QED BY <1>1, <1>2, <1>3, Zenon

\* Starting the tap is such an operation, whether its preparation succeeds,
\* fails or finds the tap stopped.
LEMMA StartTapLeaves ==
  ASSUME NEW w \in World, TapInv(w.c, w.t)
  PROVE  /\ Leaves(w, StartTap(w)) /\ TapInv(StartTap(w).c, StartTap(w).t)
         /\ StartTap(w).c.tap => w.c.tap
<1> DEFINE b == [w.t EXCEPT !.slot = "mine", !.control = "prepare"]
           u == [w EXCEPT !.t = b]
<1>1. w.c \in Capture /\ w.t \in Tap /\ b \in Tap
  BY Zenon DEF World, Tap
<1>2. u \in World /\ u.s = w.s /\ u.c = w.c /\ u.t = b /\ u.v = w.v
  BY <1>1, Zenon DEF World
<1>3. u = [w EXCEPT !.t.slot = "mine", !.t.control = "prepare"]
  BY Zenon DEF World
<1>4. CASE w.c.stopping \/ ~w.c.tap
  BY <1>4, Zenon DEF StartTap, Leaves
<1>5. CASE ~(w.c.stopping \/ ~w.c.tap) /\ w.t.slot # "free"
  BY <1>5, DisableAudioLeaves, Zenon DEF StartTap
<1>6. CASE ~(w.c.stopping \/ ~w.c.tap) /\ w.t.slot = "free"
  <2>1. StartTap(w) = u
    BY <1>3, <1>6, Zenon DEF StartTap
  <2>2. Leaves(w, u)
    BY <1>2, Zenon DEF Leaves
  <2>3. TapInv(w.c, b)
    BY <1>1, <1>6, ZenonT(60) DEF TapInv, Tap
  <2> QED BY <1>2, <2>1, <2>2, <2>3, Zenon
<1> QED BY <1>4, <1>5, <1>6, Zenon

\* Making a tap is such an operation when no tap is left.
LEMMA CreateTapLeaves ==
  ASSUME NEW w \in World, TapInv(w.c, w.t), NEW r \in CreateTap(w),
         ~w.c.tap, ~w.c.stopping, ~w.c.restartPending, ~w.c.restartTimer,
         ~w.t.stopped \/ w.t.activation = "Cancelled" \/ w.t.destroy = "done"
  PROVE  Leaves(w, r) /\ TapInv(r.c, r.t)
<1> DEFINE d == [w.c EXCEPT !.tap = TRUE, !.audioStopped = FALSE, !.audioReady = FALSE]
           e == [w.c EXCEPT !.tap = FALSE, !.audioStopped = TRUE, !.audioReady = FALSE]
           b == NewTap(w.t.slot)
<1>1. w.c \in Capture /\ w.t \in Tap /\ b \in Tap /\ d \in Capture /\ e \in Capture
  BY ZenonT(60) DEF World, Tap, Capture, NewTap
<1>2. r = [w EXCEPT !.c = d, !.t = b] \/ r = [w EXCEPT !.c = e]
  BY Zenon DEF CreateTap, CreatedTap, WithoutTap, World
<1>3. TapInv(d, b)
  BY <1>1, Zenon DEF TapInv, Capture, NewTap, Fresh
<1>4. TapInv(e, w.t)
  BY <1>1, ZenonT(60) DEF TapInv, Capture
<1>5. CASE r = [w EXCEPT !.c = d, !.t = b]
  <2>1. r \in World /\ r.s = w.s /\ r.c = d /\ r.t = b /\ r.v = w.v
    BY <1>1, <1>5, Zenon DEF World
  <2>2. Leaves(w, r)
    BY <1>1, <2>1 DEF Leaves, Capture
  <2> QED BY <1>3, <2>1, <2>2, Zenon
<1>6. CASE r = [w EXCEPT !.c = e]
  <2>1. r \in World /\ r.s = w.s /\ r.c = e /\ r.t = w.t /\ r.v = w.v
    BY <1>1, <1>6, Zenon DEF World
  <2>2. Leaves(w, r)
    BY <1>1, <2>1 DEF Leaves, Capture
  <2> QED BY <1>4, <2>1, <2>2, Zenon
<1> QED BY <1>2, <1>5, <1>6, Zenon

\* The part of the invariant that holds between the steps of a handler as well.
Base(w) == TapInv(w.c, w.t) /\ DrainInv(w) /\ RateInv(w)

\* The session is the same, or its capture has drained and it may have finished.
Drains(s, e) ==
  /\ e.lease = s.lease /\ e.captureStarted = s.captureStarted
  /\ \/ e.state = s.state /\ e.waiting = s.waiting
     \/ s.state = "Stopping" /\ e.state = "Stopped" /\ ~e.waiting

\* What stopping the stream does to the rest of the world.
Kept(w, r) ==
  /\ r \in World /\ r.v = w.v
  /\ r.c.inFlight = w.c.inFlight /\ (r.c.tap => w.c.tap)
  /\ Drains(w.s, r.s)

\* An audio operation leaves the session alone but for the end of the drain.
LEMMA LeavesDrains ==
  ASSUME NEW w \in World, NEW r \in World, Leaves(w, r)
  PROVE  Drains(w.s, r.s)
<1>1. CASE r.s = w.s
  BY <1>1, Zenon DEF Drains
<1>2. CASE r.s = FinishSession([w.s EXCEPT !.captureDrained = TRUE])
  <2> DEFINE d == [w.s EXCEPT !.captureDrained = TRUE]
             e == [d EXCEPT !.state = "Stopped", !.endpoint = "freed", !.waiting = FALSE]
  <2>1. /\ d \in Session /\ d.state = w.s.state /\ d.waiting = w.s.waiting /\ d.lease = w.s.lease
        /\ d.captureStarted = w.s.captureStarted
    BY Zenon DEF World, Session
  <2>2. /\ e.state = "Stopped" /\ e.waiting = FALSE /\ e.lease = w.s.lease
        /\ e.captureStarted = w.s.captureStarted
    BY <2>1, Zenon DEF Session
  <2>3. r.s = d \/ (d.state = "Stopping" /\ r.s = e)
    BY <1>2, Zenon DEF FinishSession
  <2> QED BY <2>1, <2>2, <2>3, Zenon DEF Drains
<1> QED BY <1>1, <1>2, Zenon DEF Leaves

\* finishStopIfDrained keeps the base of the invariant and a live stream's
\* running.
LEMMA FinishCaptureKeeps ==
  ASSUME NEW w \in World, Base(w), w.s.captureStarted
  PROVE  /\ Base(FinishCapture(w)) /\ Kept(w, FinishCapture(w))
         /\ RunInv(w) => RunInv(FinishCapture(w))
<1> DEFINE r == FinishCapture(w)
<1>1. Leaves(w, r) /\ r.t = w.t /\ SameAudio(w.c, r.c) /\ r \in World
  BY FinishCaptureLeaves, ZenonT(60) DEF Leaves
<1> HIDE DEF r
<1>2. DrainInv(r) /\ RateInv(r) /\ (RunInv(w) => RunInv(r))
  BY <1>1, LeavesKeeps, Zenon DEF Base
<1>3. TapInv(r.c, r.t)
  BY <1>1, SameAudioKeeps, Zenon DEF Base
<1>4. Drains(w.s, r.s)
  BY <1>1, LeavesDrains, Zenon
<1>5. Kept(w, r)
  BY <1>1, <1>4, Zenon DEF Kept, Leaves, SameAudio
<1> QED BY <1>2, <1>3, <1>5, Zenon DEF Base, r

\* Stopping the ScreenCaptureKit stream keeps the base of the invariant.
LEMMA StopStreamKeeps ==
  ASSUME NEW w \in World, Base(w), w.s.captureStarted
  PROVE  Base(StopStream(w)) /\ Kept(w, StopStream(w))
<1>0. w.c \in Capture /\ w.s.captureStarted = w.s.captureStarted
  BY Zenon DEF World
<1>1. CASE w.c.hasStream
  <2> DEFINE d == [w.c EXCEPT !.stopAwaited = TRUE]
             r == [w EXCEPT !.c = d]
  <2>1. d \in Capture
    BY <1>0, Zenon DEF Capture
  <2>2. r \in World /\ r.s = w.s /\ r.c = d /\ r.t = w.t /\ r.v = w.v
    BY <2>1, Zenon DEF World
  <2>3. StopStream(w) = r
    BY <1>1, Zenon DEF StopStream, World
  <2> HIDE DEF r
  <2>4. TapInv(r.c, r.t)
    BY <1>0, <2>2 DEF Base, TapInv, Capture
  <2>5. DrainInv(r)
    BY <1>0, <2>2 DEF Base, DrainInv, CaptureIdle, Capture
  <2>6. RateInv(r)
    BY <1>0, <2>2 DEF Base, RateInv, Capture
  <2>7. Kept(w, r)
    BY <1>0, <2>2, Zenon DEF Kept, Drains, Capture
  <2> QED BY <2>3, <2>4, <2>5, <2>6, <2>7, Zenon DEF Base
<1>2. CASE ~w.c.hasStream
  <2> DEFINE d == [w.c EXCEPT !.captureStopped = TRUE]
             u == [w EXCEPT !.c = d]
  <2>1. d \in Capture
    BY <1>0, Zenon DEF Capture
  <2>2. u \in World /\ u.s = w.s /\ u.c = d /\ u.t = w.t /\ u.v = w.v
    BY <2>1, Zenon DEF World
  <2>3. StopStream(w) = FinishCapture(u)
    BY <1>2, Zenon DEF StopStream, World
  <2> HIDE DEF u
  <2>4. TapInv(u.c, u.t)
    BY <1>0, <2>2 DEF Base, TapInv, Capture
  <2>5. DrainInv(u)
    BY <1>0, <2>2 DEF Base, DrainInv, CaptureIdle, Capture
  <2>6. RateInv(u)
    BY <1>0, <2>2 DEF Base, RateInv, Capture
  <2>7. Base(FinishCapture(u)) /\ Kept(u, FinishCapture(u))
    BY <2>2, <2>4, <2>5, <2>6, FinishCaptureKeeps, Zenon DEF Base
  <2>8. Kept(w, FinishCapture(u))
    BY <1>0, <2>2, <2>7 DEF Kept, Capture
  <2> QED BY <2>3, <2>7, <2>8, Zenon
<1> QED BY <1>1, <1>2, Zenon

\* The session has begun to stop: its lease is gone and its endpoint closed or
\* freed.
Ended(s, e) ==
  /\ e.captureStarted = s.captureStarted
  /\ IF Live(s)
     THEN /\ e.lease = "ended"
          /\ \/ e.state = "Stopping" /\ e.waiting = s.waiting
             \/ e.state = "Stopped" /\ ~e.waiting
     ELSE e = s

\* What stopOnQueue does to the world.
Stops(w, r) ==
  /\ r \in World /\ r.v = w.v
  /\ r.c.inFlight = w.c.inFlight /\ (r.c.tap => w.c.tap)
  /\ ~Live(r.s) /\ Ended(w.s, r.s)

\* Stopping the capture of a session that just began to stop.
LEMMA StopCaptureStops ==
  ASSUME NEW w \in World, Base(w), Live(w.s), w.s.captureStarted,
         NEW s, s = [w.s EXCEPT !.state = "Stopping", !.lease = "ended", !.endpoint = "closed"]
  PROVE  /\ Base(StopCapture([w EXCEPT !.s = s]))
         /\ Stops(w, StopCapture([w EXCEPT !.s = s]))
<1> DEFINE x == [w EXCEPT !.s = s]
           d == [w.c EXCEPT !.stopping = TRUE, !.restartPending = FALSE, !.replacement = 0]
           u == [x EXCEPT !.c = d]
           q == StopTap(u)
           r == StopCapture(x)
<1>a. w.s \in Session /\ w.c \in Capture
  BY Zenon DEF World
<1>b. d \in Capture /\ d.inFlight = w.c.inFlight /\ ~d.restartPending
  BY <1>a, ZenonT(60) DEF Capture
<1>1. /\ s \in Session /\ s.state = "Stopping" /\ s.lease = "ended" /\ s.endpoint = "closed"
      /\ s.captureStarted = w.s.captureStarted /\ s.captureDrained = w.s.captureDrained
      /\ s.waiting = w.s.waiting /\ s.worker = w.s.worker
      /\ s.bitrate = w.s.bitrate /\ s.transportRate = w.s.transportRate
  BY <1>a, ZenonT(60) DEF Session
<1>2. x \in World /\ x.s = s /\ x.c = w.c /\ x.t = w.t /\ x.v = w.v
  BY <1>1, <1>a, Zenon DEF World
<1>3. u \in World /\ u.s = s /\ u.c = d /\ u.t = w.t /\ u.v = w.v
  BY <1>1, <1>b, Zenon DEF World
<1>4. ~w.c.stopping
  BY Zenon DEF Base, DrainInv
<1>5. u = [x EXCEPT !.c.stopping = TRUE, !.c.restartPending = FALSE, !.c.replacement = 0]
  BY Zenon DEF World
<1> HIDE DEF x, u
<1>6. r = IF Starting(w.c) THEN q ELSE StopStream(q)
  BY <1>2, <1>4, <1>5 DEF StopCapture
<1>7. TapInv(u.c, u.t)
  BY <1>a, <1>3, <1>4 DEF Base, TapInv, Capture
<1>8. DrainInv(u)
  BY <1>a, <1>1, <1>3, <1>4 DEF Base, DrainInv, Live, InputLeft, Capture
<1>9. RateInv(u)
  BY <1>a, <1>1, <1>3 DEF Base, RateInv, Capture
<1> HIDE DEF r, d
<1>10. Leaves(u, q) /\ TapInv(q.c, q.t) /\ ~q.c.tap /\ q \in World
  BY <1>b, <1>3, <1>7, StopTapLeaves, ZenonT(60) DEF Leaves
<1> HIDE DEF q
<1>11. DrainInv(q) /\ RateInv(q)
  BY <1>1, <1>3, <1>8, <1>9, <1>10, LeavesKeeps, Zenon
<1>12. Drains(s, q.s) /\ q.c.inFlight = w.c.inFlight /\ q.v = w.v
  BY <1>b, <1>3, <1>10, LeavesDrains, ZenonT(60) DEF Leaves
<1>13. Base(q) /\ q.s.captureStarted
  BY <1>1, <1>10, <1>11, <1>12, Zenon DEF Base, Drains
<1>14. Base(StopStream(q)) /\ Kept(q, StopStream(q))
  BY <1>10, <1>13, StopStreamKeeps, Zenon
<1>15. Stops(w, q)
  BY <1>1, <1>10, <1>12, ZenonT(60) DEF Stops, Drains, Ended, Live
<1>16. Stops(w, StopStream(q))
  BY <1>1, <1>10, <1>12, <1>14 DEF Stops, Drains, Ended, Live, Kept
<1> QED BY <1>6, <1>13, <1>14, <1>15, <1>16, Zenon DEF r, x

\* stopOnQueue keeps the base of the invariant in every state, and ends what it
\* finds alive.
LEMMA StopOnQueueStops ==
  ASSUME NEW w \in World, Base(w)
  PROVE  Base(StopOnQueue(w)) /\ Stops(w, StopOnQueue(w))
<1> DEFINE s == [w.s EXCEPT !.state = "Stopping", !.lease = "ended", !.endpoint = "closed"]
           d == [s EXCEPT !.captureDrained = TRUE]
           e == [d EXCEPT !.state = "Stopped", !.endpoint = "freed", !.waiting = FALSE]
           r == [w EXCEPT !.s = e]
<1>1. /\ w.s \in Session /\ w.c \in Capture /\ s \in Session /\ d \in Session /\ e \in Session
      /\ s.captureStarted = w.s.captureStarted
  BY ZenonT(60) DEF World, Session
<1>2. w.s.captureStarted \in BOOLEAN /\ (Live(w.s) <=> w.s.state \notin {"Stopping", "Stopped"})
  BY <1>1, Zenon DEF Live, Session
<1>3. CASE ~Live(w.s)
  <2>1. StopOnQueue(w) = w
    BY <1>2, <1>3, Zenon DEF StopOnQueue
  <2> QED BY <1>3, <2>1, Zenon DEF Stops, Ended
<1>4. CASE Live(w.s) /\ w.s.captureStarted
  <2>1. StopOnQueue(w) = StopCapture([w EXCEPT !.s = s])
    BY <1>1, <1>2, <1>4, Zenon DEF StopOnQueue
  <2> QED BY <1>4, <2>1, StopCaptureStops, Zenon
<1>5. CASE Live(w.s) /\ ~w.s.captureStarted
  <2>1. StopOnQueue(w) = [w EXCEPT !.s = FinishSession(d)]
    BY <1>1, <1>2, <1>5, Zenon DEF StopOnQueue
  <2>2. /\ e.captureStarted = FALSE /\ e.captureDrained /\ e.state = "Stopped" /\ e.endpoint = "freed"
        /\ e.lease = "ended" /\ ~e.waiting /\ e.worker = w.s.worker
        /\ e.bitrate = w.s.bitrate /\ e.transportRate = w.s.transportRate
    BY <1>1, <1>5 DEF Session
  <2>3. d.state = "Stopping" /\ d.captureDrained /\ d.worker = w.s.worker /\ w.s.worker = "none"
    BY <1>1, <1>5 DEF Session, Base, DrainInv, Unused
  <2>4. FinishSession(d) = e
    BY <2>3, Zenon DEF FinishSession, InputLeft
  <2>5. StopOnQueue(w) = r
    BY <2>1, <2>4, Zenon
  <2>6. r \in World /\ r.s = e /\ r.c = w.c /\ r.t = w.t /\ r.v = w.v
    BY <1>1, Zenon DEF World
  <2> HIDE DEF r, e
  <2>7. TapInv(r.c, r.t) /\ RateInv(r)
    BY <2>2, <2>6, ZenonT(60) DEF Base, RateInv
  <2>8. DrainInv(r)
    BY <1>5, <2>2, <2>3, <2>6 DEF Base, DrainInv, Unused, Live, InputLeft
  <2>9. Stops(w, r)
    BY <1>2, <1>5, <2>2, <2>6, Zenon DEF Stops, Ended, Live
  <2> QED BY <2>5, <2>7, <2>8, <2>9, Zenon DEF Base
<1> QED BY <1>2, <1>3, <1>4, <1>5, Zenon

\* Typed, within the frames in flight the capture admits, and with all but what
\* only a settled live stream owes.
Full(w) ==
  /\ w \in World /\ Len(w.c.inFlight) <= MaxInFlight
  /\ Base(w) /\ KeyInv(w)

\* The inductive invariant.
Good(w) == Full(w) /\ RunInv(w) /\ ChainInv(w)

\* The session as its owner sees it is the same.
Alike(s, e) ==
  e.state = s.state /\ (e.lease = "ended" <=> s.lease = "ended") /\ e.waiting = s.waiting

\* The session moves as StreamLife lets it.
LifeStep(s, e) ==
  \/ Alike(s, e)
  \/ /\ <<s.state, e.state>> \in {<<"Prepared", "Connecting">>, <<"Connecting", "Streaming">>}
     /\ (e.lease = "ended" <=> s.lease = "ended") /\ e.waiting = s.waiting
  \/ s.lease # "ended" /\ e.lease = "ended" /\ e.state = s.state /\ e.waiting = s.waiting
  \/ /\ Live(s) /\ e.lease = "ended"
     /\ e.state = "Stopping" \/ (e.state = "Stopped" /\ ~e.waiting)
  \/ /\ s.state = "Stopping" /\ (e.lease = "ended" <=> s.lease = "ended")
     /\ (e.state = "Stopping" /\ e.waiting) \/ (e.state = "Stopped" /\ ~e.waiting)

\* A tap is made only after the one before it is destroyed, or was never stopped
\* nor run.
Apart(z, r) == r.c.tap /\ ~z.c.tap => z.t.destroy \in {"none", "done"} /\ ~z.t.running

\* What every action is shown to do.
Step(z, r) == Good(r) /\ LifeStep(z.s, r.s) /\ Apart(z, r)

\* A handler that ends in stopOnQueue makes a step.
LEMMA StoppedStep ==
  ASSUME NEW z \in World, NEW w \in World, Full(w), Apart(z, w),
         Alike(z.s, w.s) \/ (Live(z.s) /\ Live(w.s))
  PROVE  Step(z, StopOnQueue(w))
<1> DEFINE r == StopOnQueue(w)
<1>1. Base(r) /\ Stops(w, r)
  BY StopOnQueueStops, Zenon DEF Full
<1> HIDE DEF r
<1>2. Full(r) /\ RunInv(r)
  BY <1>1, Zenon DEF Full, KeyInv, Stops, RunInv
<1>3. ChainInv(r)
  BY <1>1, Zenon DEF Stops, ChainInv, Base, DrainInv, Unused
<1>4. LifeStep(z.s, r.s)
  BY <1>1, Zenon DEF Stops, Ended, LifeStep, Alike, Live
<1>5. Apart(z, r)
  BY <1>1, Zenon DEF Apart, Stops
<1> QED BY <1>2, <1>3, <1>4, <1>5, Zenon DEF Step, Good, r

\* A handler that ends in an audio operation makes a step.
LEMMA LeavesStep ==
  ASSUME NEW z \in World, NEW w \in World, NEW r \in World,
         Good(w), w.s.captureStarted, Leaves(w, r), TapInv(r.c, r.t), Apart(z, r),
         \/ Alike(z.s, w.s)
         \/ LifeStep(z.s, w.s) /\ (~w.c.stopping \/ (Live(z.s) /\ ~Live(w.s)))
  PROVE  Step(z, r)
<1>1. DrainInv(r) /\ RateInv(r) /\ RunInv(r)
  BY LeavesKeeps, Zenon DEF Good, Full, Base
<1>2. Good(r)
  BY <1>1, Zenon DEF Good, Full, Base, Leaves, KeyInv, ChainInv
<1>3. Drains(w.s, r.s) /\ (~w.c.stopping => r.s = w.s)
  BY LeavesDrains, Zenon DEF Leaves
<1>4. LifeStep(z.s, r.s)
  BY <1>3, Zenon DEF Drains, LifeStep, Alike, Live
<1> QED BY <1>2, <1>4, Zenon DEF Step

\* A handler that ends in finishStopIfDrained makes a step.
LEMMA FinishedStep ==
  ASSUME NEW z \in World, NEW w \in World, Good(w), w.s.captureStarted, Apart(z, w),
         Alike(z.s, w.s) \/ (LifeStep(z.s, w.s) /\ Live(z.s) /\ ~Live(w.s))
  PROVE  Step(z, FinishCapture(w))
<1> DEFINE r == FinishCapture(w)
<1>1. Leaves(w, r) /\ r.t = w.t /\ SameAudio(w.c, r.c) /\ r \in World
  BY FinishCaptureLeaves, ZenonT(60) DEF Leaves
<1> HIDE DEF r
<1>2. TapInv(r.c, r.t) /\ Apart(z, r)
  BY <1>1, SameAudioKeeps, Zenon DEF Good, Full, Base, Apart, SameAudio
<1> QED BY <1>1, <1>2, LeavesStep, Zenon DEF r

\* The world after an action is the one its handler computed.
LEMMA NowIs ==
  ASSUME NEW r \in World, Becomes(r)
  PROVE  Now' = r
BY Zenon DEF Now, Becomes, World

\* The world now is made of the four variables.
LEMMA NowParts ==
  Now.s = session /\ Now.c = capture /\ Now.t = tap /\ Now.v = video
BY Zenon DEF Now

\* An action makes a step if the world its handler computed does.
LEMMA NowStep ==
  ASSUME NEW r, Becomes(r), Step(Now, r)
  PROVE  Step(Now, Now')
<1>1. r \in World
  BY Zenon DEF Step, Good, Full
<1>2. Now' = r
  BY <1>1, NowIs, Zenon
<1> QED BY <1>2, Zenon

\* A change of the session that touches nothing the capture depends on.
SessionMoves(z, e) ==
  /\ e \in Session /\ e.state = z.s.state
  /\ e.captureStarted = z.s.captureStarted /\ e.captureDrained = z.s.captureDrained
  /\ e.bitrate = z.s.bitrate /\ e.transportRate = z.s.transportRate
  /\ e.changingBitrate = z.s.changingBitrate
  /\ e.endpoint = "freed" <=> z.s.endpoint = "freed"
  /\ z.s.state = "Stopped" => InputLeft(e)
  /\ ~z.s.captureStarted => e.worker = "none"

\* Such a change keeps the invariant.
LEMMA SessionMoved ==
  ASSUME NEW z \in World, NEW e, SessionMoves(z, e)
  PROVE  LET r == [z EXCEPT !.s = e] IN
         /\ r \in World /\ r.s = e /\ r.c = z.c /\ r.t = z.t /\ r.v = z.v
         /\ Apart(z, r)
         /\ Full(z) => Full(r)
         /\ Good(z) => Good(r)
<1> DEFINE r == [z EXCEPT !.s = e]
<1>1. r \in World /\ r.s = e /\ r.c = z.c /\ r.t = z.t /\ r.v = z.v
  BY Zenon DEF World, SessionMoves
<1> HIDE DEF r
<1>2. Apart(z, r)
  BY <1>1, Zenon DEF Apart
<1>3. ASSUME Full(z) PROVE Full(r)
  <2>1. DrainInv(r)
    BY <1>1, <1>3, ZenonT(60) DEF Full, Base, DrainInv, SessionMoves, Unused, Live
  <2>2. RateInv(r)
    BY <1>1, <1>3 DEF Full, Base, RateInv, SessionMoves
  <2>3. TapInv(r.c, r.t) /\ KeyInv(r)
    BY <1>1, <1>3, Zenon DEF Full, Base, KeyInv
  <2> QED BY <1>1, <1>3, <2>1, <2>2, <2>3, Zenon DEF Full, Base
<1>4. ASSUME Good(z) PROVE Good(r)
  <2>1. RunInv(r)
    BY <1>1, <1>4, Zenon DEF Good, RunInv, SessionMoves, Live
  <2>2. ChainInv(r)
    BY <1>1, <1>4, Zenon DEF Good, ChainInv
  <2> QED BY <1>3, <1>4, <2>1, <2>2, Zenon DEF Good
<1> QED BY <1>1, <1>2, <1>3, <1>4, Zenon DEF r

\* The invariant now, conjunct by conjunct and in terms of the variables.
LEMMA GoodNow ==
  ASSUME Good(Now)
  PROVE  /\ Now \in World /\ Full(Now)
         /\ session \in Session /\ capture \in Capture /\ tap \in Tap /\ video \in Video
         /\ TapInv(capture, tap) /\ DrainInv(Now) /\ RateInv(Now) /\ KeyInv(Now)
         /\ RunInv(Now) /\ ChainInv(Now)
<1>1. Now \in World
  BY Zenon DEF Good, Full
<1>2. session \in Session /\ capture \in Capture /\ tap \in Tap /\ video \in Video
  BY <1>1, NowParts, Zenon DEF World
<1> QED BY <1>1, <1>2, NowParts, Zenon DEF Good, Full, Base

\* An action that makes only such a change makes a step.
LEMMA SessionStep ==
  ASSUME Good(Now), NEW e, SessionMoves(Now, e), LifeStep(session, e),
         session' = e, UNCHANGED <<capture, tap, video>>
  PROVE  Step(Now, Now')
<1> DEFINE r == [Now EXCEPT !.s = e]
<1>1. r.s = e /\ r.c = capture /\ r.t = tap /\ r.v = video /\ Apart(Now, r) /\ Good(r)
  BY GoodNow, NowParts, SessionMoved, Zenon
<1>2. Step(Now, r)
  BY <1>1, NowParts, Zenon DEF Step
<1>3. Becomes(r)
  BY <1>1, Zenon DEF Becomes
<1> QED BY <1>2, <1>3, NowStep, Zenon

\* The endpoint's answer or failure and the end of the lease make a step.
LEMMA OutsideStep ==
  ASSUME Good(Now), EndpointReady \/ EndpointFails \/ LeaseEnds
  PROVE  Step(Now, Now')
<1>1. session \in Session /\ DrainInv(Now)
  BY GoodNow, Zenon
<1>2. CASE EndpointReady
  <2> DEFINE e == [session EXCEPT !.endpoint = "ready"]
  <2>1. session' = e /\ session.endpoint = "connecting" /\ UNCHANGED <<capture, tap, video>>
    BY <1>2, Zenon DEF EndpointReady
  <2>2. SessionMoves(Now, e) /\ LifeStep(session, e)
    BY <1>1, <2>1, NowParts
       DEF SessionMoves, Session, LifeStep, Alike, DrainInv, InputLeft, Unused
  <2> QED BY <2>1, <2>2, SessionStep, Zenon
<1>3. CASE EndpointFails
  <2> DEFINE e == [session EXCEPT !.endpoint = "failed"]
  <2>1. session' = e /\ session.endpoint \in {"connecting", "ready"} /\ UNCHANGED <<capture, tap, video>>
    BY <1>3, Zenon DEF EndpointFails
  <2>2. SessionMoves(Now, e) /\ LifeStep(session, e)
    BY <1>1, <2>1, NowParts
       DEF SessionMoves, Session, LifeStep, Alike, DrainInv, InputLeft, Unused
  <2> QED BY <2>1, <2>2, SessionStep, Zenon
<1>4. CASE LeaseEnds
  <2> DEFINE e == [session EXCEPT !.lease = "ended"]
  <2>1. session' = e /\ session.lease # "ended" /\ UNCHANGED <<capture, tap, video>>
    BY <1>4, Zenon DEF LeaseEnds
  <2>2. SessionMoves(Now, e) /\ LifeStep(session, e)
    BY <1>1, <2>1, NowParts
       DEF SessionMoves, Session, LifeStep, Alike, DrainInv, InputLeft, Unused
  <2> QED BY <2>1, <2>2, SessionStep, Zenon
<1> QED BY <1>2, <1>3, <1>4, Zenon

\* Every step of the input worker makes a step: also its last, which may be what
\* the drain waited for.
LEMMA WorkerStep ==
  ASSUME Good(Now), WorkerNext
  PROVE  Step(Now, Now')
<1>1. Now \in World /\ session \in Session /\ DrainInv(Now)
  BY GoodNow, Zenon
<1> DEFINE W(to) == [session EXCEPT !.worker = to]
<1>2. ASSUME NEW to \in {"receiving", "handoff", "leaving", "left", "gone"}, session.worker # "none",
             InputLeft(session) => InputLeft(W(to))
      PROVE  SessionMoves(Now, W(to)) /\ Alike(session, W(to)) /\ LifeStep(session, W(to))
  <2>1. /\ W(to) \in Session /\ W(to).worker = to /\ W(to).state = session.state
        /\ W(to).lease = session.lease /\ W(to).endpoint = session.endpoint
        /\ W(to).waiting = session.waiting
        /\ W(to).captureStarted = session.captureStarted
        /\ W(to).captureDrained = session.captureDrained
        /\ W(to).bitrate = session.bitrate /\ W(to).transportRate = session.transportRate
        /\ W(to).changingBitrate = session.changingBitrate
    BY <1>1, <1>2, ZenonT(60) DEF Session
  <2> QED BY <1>1, <1>2, <2>1, NowParts, ZenonT(60)
            DEF SessionMoves, LifeStep, Alike, DrainInv, Unused
<1>3. CASE InputReceived
  <2>1. session.worker = "receiving" /\ session' = W("handoff") /\ UNCHANGED <<capture, tap, video>>
    BY <1>3, Zenon DEF InputReceived, WorkerMoves
  <2>2. SessionMoves(Now, W("handoff")) /\ LifeStep(session, W("handoff"))
    BY <1>2, <2>1, Zenon DEF InputLeft
  <2> QED BY <2>1, <2>2, SessionStep, Zenon
<1>4. CASE WorkerLeaves
  <2>1. session.worker = "leaving" /\ session' = W("left") /\ UNCHANGED <<capture, tap, video>>
    BY <1>4, Zenon DEF WorkerLeaves, WorkerMoves
  <2>2. SessionMoves(Now, W("left")) /\ LifeStep(session, W("left"))
    BY <1>2, <2>1, Zenon DEF InputLeft
  <2> QED BY <2>1, <2>2, SessionStep, Zenon
<1>5. CASE InputHandled
  <2> DEFINE on == [Now EXCEPT !.s = W("receiving")]
             off == [Now EXCEPT !.s = W("leaving")]
  <2>1. on = [Now EXCEPT !.s.worker = "receiving"] /\ off = [Now EXCEPT !.s.worker = "leaving"]
    BY NowParts, Zenon
  <2>2. session.worker = "handoff" /\ (Becomes(on) \/ Becomes(off) \/ Becomes(StopOnQueue(off)))
    BY <1>5, <2>1, Zenon DEF InputHandled
  <2>3. /\ SessionMoves(Now, W("receiving")) /\ LifeStep(session, W("receiving"))
        /\ SessionMoves(Now, W("leaving")) /\ LifeStep(session, W("leaving"))
        /\ Alike(session, W("leaving"))
    BY <1>2, <2>2, Zenon DEF InputLeft
  <2>4. /\ on \in World /\ on.s = W("receiving") /\ Apart(Now, on) /\ Good(on)
        /\ off \in World /\ off.s = W("leaving") /\ Apart(Now, off) /\ Good(off)
    BY <1>1, <2>3, SessionMoved, Zenon
  <2> HIDE DEF on, off, W
  <2>5. Step(Now, on) /\ Step(Now, off)
    BY <2>3, <2>4, NowParts, Zenon DEF Step
  <2>6. Step(Now, StopOnQueue(off))
    BY <1>1, <2>3, <2>4, NowParts, StoppedStep, Zenon DEF Good
  <2> QED BY <2>2, <2>5, <2>6, NowStep, Zenon
<1>6. CASE WorkerGone
  <2> DEFINE d == W("gone")
             e == [d EXCEPT !.state = "Stopped", !.endpoint = "freed", !.waiting = FALSE]
             u == [Now EXCEPT !.s = d]
             r == [Now EXCEPT !.s = e]
  <2>1. session.worker = "left" /\ Becomes([Now EXCEPT !.s = FinishSession(d)])
    BY <1>6, Zenon DEF WorkerGone
  <2>2. SessionMoves(Now, d) /\ LifeStep(session, d) /\ Alike(session, d)
    BY <1>2, <2>1 DEF InputLeft
  <2>3. u \in World /\ u.s = d /\ u.c = capture /\ u.t = tap /\ u.v = video /\ Apart(Now, u) /\ Good(u)
    BY <1>1, <2>2, SessionMoved, NowParts, Zenon
  <2>4. Step(Now, u)
    BY <2>2, <2>3, NowParts, Zenon DEF Step
  <2>5. CASE FinishSession(d) = d
    BY <2>1, <2>4, <2>5, NowStep, Zenon
  <2>6. CASE FinishSession(d) # d
    <3>1. d.state = "Stopping" /\ d.captureDrained /\ InputLeft(d) /\ FinishSession(d) = e
      BY <2>6, Zenon DEF FinishSession
    <3>2. /\ d \in Session /\ e \in Session /\ e.state = "Stopped" /\ e.endpoint = "freed" /\ ~e.waiting
          /\ e.worker = d.worker /\ e.captureStarted = d.captureStarted /\ e.captureDrained = d.captureDrained
          /\ e.bitrate = d.bitrate /\ e.transportRate = d.transportRate /\ e.lease = d.lease
      BY <2>3, ZenonT(60) DEF World, Session
    <3>3. r \in World /\ r.s = e /\ r.c = capture /\ r.t = tap /\ r.v = video
      BY <1>1, <3>2, NowParts, Zenon DEF World
    <3> HIDE DEF r, u, e, d
    <3>4. DrainInv(r)
      BY <2>3, <3>1, <3>2, <3>3, ZenonT(60)
         DEF Good, Full, Base, DrainInv, Unused, Live, InputLeft
    <3>5. RateInv(r) /\ RunInv(r) /\ KeyInv(r) /\ ChainInv(r)
      BY <2>3, <3>2, <3>3 DEF Good, Full, Base, RateInv, RunInv, KeyInv, ChainInv, Live
    <3>6. Good(r)
      BY <2>3, <3>3, <3>4, <3>5, Zenon DEF Good, Full, Base
    <3>7. LifeStep(session, r.s) /\ Apart(Now, r)
      BY <2>2, <3>1, <3>2, <3>3, NowParts DEF LifeStep, Alike, Live, Apart, SessionMoves
    <3>8. Becomes(r)
      BY <2>1, <3>1, Zenon DEF r
    <3> QED BY <3>6, <3>7, <3>8, NowParts, NowStep, Zenon DEF Step
  <2> QED BY <2>5, <2>6, Zenon
<1> QED BY <1>3, <1>4, <1>5, <1>6, Zenon DEF WorkerNext

\* start makes a step.
LEMMA StartStep ==
  ASSUME Good(Now), Start
  PROVE  Step(Now, Now')
<1> DEFINE e == [session EXCEPT !.state = "Connecting", !.endpoint = "connecting"]
           r == [Now EXCEPT !.s = e]
<1>1. Now \in World /\ session \in Session /\ DrainInv(Now)
  BY GoodNow, Zenon
<1>2. session.state = "Prepared" /\ (Becomes(r) \/ Becomes(StopOnQueue(r)))
  BY NowParts, Zenon DEF Start
<1>3. /\ e \in Session /\ e.state = "Connecting" /\ e.endpoint = "connecting"
      /\ e.lease = session.lease /\ e.waiting = session.waiting /\ e.worker = session.worker
      /\ e.captureStarted = session.captureStarted /\ e.captureDrained = session.captureDrained
      /\ e.bitrate = session.bitrate /\ e.transportRate = session.transportRate
  BY <1>1, Zenon DEF Session
<1>4. r \in World /\ r.s = e /\ r.c = capture /\ r.t = tap /\ r.v = video
  BY <1>1, <1>3, NowParts, Zenon DEF World
<1> HIDE DEF r, e
<1>5. DrainInv(r)
  BY <1>1, <1>2, <1>3, <1>4, NowParts, ZenonT(60) DEF DrainInv, Unused, Live
<1>6. RateInv(r) /\ KeyInv(r) /\ ChainInv(r) /\ Full(r)
  BY <1>3, <1>4, <1>5, GoodNow, NowParts DEF Full, Base, RateInv, KeyInv, ChainInv
<1>7. RunInv(r)
  BY <1>2, <1>3, <1>4, GoodNow, NowParts, ZenonT(60) DEF RunInv, Live, DrainInv, Unused
<1>8. LifeStep(session, r.s) /\ Apart(Now, r)
  BY <1>2, <1>3, <1>4, NowParts, Zenon DEF LifeStep, Apart
<1>9. Step(Now, r)
  BY <1>6, <1>7, <1>8, NowParts, Zenon DEF Step, Good
<1>10. Step(Now, StopOnQueue(r))
  BY <1>1, <1>2, <1>3, <1>4, <1>6, <1>8, NowParts, StoppedStep, Zenon DEF Live
<1> QED BY <1>2, <1>9, <1>10, NowStep, Zenon

\* stop makes a step, with a callback or without, in every state of the session.
LEMMA StopStep ==
  ASSUME Good(Now), NEW callback \in BOOLEAN, Stop(callback)
  PROVE  Step(Now, Now')
<1> DEFINE r == StopOnQueue(Now)
           flag == r.s.state # "Stopped" /\ (r.s.waiting \/ callback)
           e == [r.s EXCEPT !.waiting = flag]
           q == [r EXCEPT !.s = e]
<1>1. Now \in World /\ session \in Session /\ Full(Now)
  BY GoodNow, Zenon
<1>2. Base(r) /\ Stops(Now, r)
  BY <1>1, StopOnQueueStops, Zenon DEF Full
<1>3. Step(Now, r)
  BY <1>1, StoppedStep, Zenon DEF Alike, Apart
<1>4. session.state # "Stopped" /\ Becomes([r EXCEPT !.s.waiting = flag])
  BY Zenon DEF Stop
<1> HIDE DEF r
<1>5. r \in World /\ Good(r) /\ r.s \in Session /\ flag \in BOOLEAN
  BY <1>3, Zenon DEF Step, Good, Full, World
<1>6. [r EXCEPT !.s.waiting = flag] = q
  BY <1>5, Zenon DEF World
<1> HIDE DEF flag
<1>7. /\ e \in Session /\ e.state = r.s.state /\ e.waiting = flag /\ e.lease = r.s.lease
      /\ e.endpoint = r.s.endpoint /\ e.worker = r.s.worker
      /\ e.captureStarted = r.s.captureStarted /\ e.captureDrained = r.s.captureDrained
      /\ e.bitrate = r.s.bitrate /\ e.transportRate = r.s.transportRate
      /\ e.changingBitrate = r.s.changingBitrate
  BY <1>5, Zenon DEF Session
<1> HIDE DEF e
<1>8. SessionMoves(r, e)
  BY <1>5, <1>7, Zenon DEF SessionMoves, Good, Full, Base, DrainInv, InputLeft, Unused
<1>9. q.s = e /\ q.c = r.c /\ Good(q)
  BY <1>5, <1>8, SessionMoved, Zenon
<1> HIDE DEF q
<1>10. LifeStep(session, e)
  <2>1. CASE Live(session)
    BY <1>2, <1>7, <2>1, NowParts, Zenon DEF Stops, Ended, LifeStep, flag
  <2>2. CASE ~Live(session)
    <3>1. session.state = "Stopping" /\ session.waiting \in BOOLEAN
      BY <1>1, <1>4, <2>2, Zenon DEF Live, Session
    <3>2. r.s = session
      BY <1>2, <2>2, NowParts, Zenon DEF Stops, Ended
    <3>3. flag = (session.waiting \/ callback)
      BY <3>1, <3>2, Zenon DEF flag
    <3>4. CASE flag
      BY <1>7, <3>1, <3>2, <3>4, Zenon DEF LifeStep
    <3>5. CASE ~flag
      BY <1>5, <1>7, <3>1, <3>2, <3>3, <3>5, Zenon DEF LifeStep, Alike
    <3> QED BY <3>4, <3>5, Zenon
  <2> QED BY <2>1, <2>2, Zenon
<1>11. Apart(Now, q)
  BY <1>3, <1>9, Zenon DEF Step, Apart
<1> QED BY <1>4, <1>6, <1>9, <1>10, <1>11, NowParts, NowStep, Zenon DEF Step

\* The handlers that do nothing but stopOnQueue (a tick that finds the lease or
\* the peer lost, a capture that failed) make a step.
LEMMA StopNowStep ==
  ASSUME Good(Now), Becomes(StopOnQueue(Now))
  PROVE  Step(Now, Now')
<1>1. Step(Now, StopOnQueue(Now))
  BY GoodNow, StoppedStep, Zenon DEF Alike, Apart
<1> QED BY <1>1, NowStep, Zenon

\* A change of the tap that keeps its life in order keeps the invariant.
LEMMA TapMoved ==
  ASSUME NEW z, Good(z), NEW b \in Tap, TapInv(z.c, b), b.stopped = z.t.stopped
  PROVE  LET r == [z EXCEPT !.t = b] IN
         /\ r \in World /\ r.s = z.s /\ r.c = z.c /\ r.t = b /\ r.v = z.v
         /\ Good(r)
<1> DEFINE r == [z EXCEPT !.t = b]
<1>1. z \in World
  BY Zenon DEF Good, Full
<1>2. r \in World /\ r.s = z.s /\ r.c = z.c /\ r.t = b /\ r.v = z.v
  BY <1>1, Zenon DEF World
<1> HIDE DEF r
<1>3. Base(r)
  BY <1>2, ZenonT(60) DEF Good, Full, Base, DrainInv, Unused, RateInv
<1>4. Good(r)
  BY <1>2, <1>3, Zenon DEF Good, Full, KeyInv, RunInv, ChainInv
<1> QED BY <1>2, <1>4, Zenon DEF r

\* The control queue's operations, activate and deactivate, make a step, also
\* after the tap was stopped.
LEMMA TapControlStep ==
  ASSUME Good(Now), TapControl
  PROVE  Step(Now, Now')
<1>1. tap \in Tap /\ TapInv(capture, tap)
  BY GoodNow, Zenon
<1>2. tap' \in Tap /\ UNCHANGED <<session, capture, video>>
  BY <1>1, ZenonT(60)
     DEF TapControl, TapPrepared, TapActivated, TapDestroyed, OtherTapDestroyed, Tap
<1>3. TapInv(capture, tap') /\ tap'.stopped = tap.stopped
  <2>1. CASE TapPrepared
    BY <1>1, <2>1, ZenonT(60) DEF TapPrepared, MayActivate, TapInv, Tap, Fresh
  <2>2. CASE TapActivated
    BY <1>1, <2>2, ZenonT(60) DEF TapActivated, TapInv, Tap, Fresh
  <2>3. CASE TapDestroyed
    BY <1>1, <2>3, ZenonT(60) DEF TapDestroyed, TapInv, Tap, Fresh
  <2>4. CASE OtherTapDestroyed
    BY <1>1, <2>4, Zenon DEF OtherTapDestroyed, TapInv, Tap, Fresh
  <2> QED BY <2>1, <2>2, <2>3, <2>4, Zenon DEF TapControl
<1> DEFINE r == [Now EXCEPT !.t = tap']
<1>4. /\ r.s = session /\ r.c = capture /\ r.t = tap' /\ r.v = video
      /\ Good(r)
  BY <1>2, <1>3, NowParts, TapMoved, Zenon
<1> HIDE DEF r
<1>5. Becomes(r)
  BY <1>2, <1>4, Zenon DEF Becomes
<1>6. Step(Now, r)
  BY <1>4, NowParts, Zenon DEF Step, LifeStep, Alike, Apart
<1> QED BY <1>5, <1>6, NowStep, Zenon

\* A change of the tap alone makes a step.
LEMMA TapMovedStep ==
  ASSUME Good(Now), NEW b \in Tap, TapInv(capture, b), b.stopped = tap.stopped
  PROVE  LET r == [Now EXCEPT !.t = b] IN
         /\ r \in World /\ r.s = session /\ r.c = capture /\ r.t = b /\ r.v = video
         /\ Good(r) /\ Step(Now, r)
<1> DEFINE r == [Now EXCEPT !.t = b]
<1>1. /\ r \in World /\ r.s = session /\ r.c = capture /\ r.t = b /\ r.v = video
      /\ Good(r)
  BY NowParts, TapMoved, Zenon
<1> HIDE DEF r
<1>2. Step(Now, r)
  BY <1>1, NowParts, Zenon DEF Step, LifeStep, Alike, Apart
<1> QED BY <1>1, <1>2, Zenon DEF r

\* The tap's answer makes a step: the consent that comes in time, too late, or
\* after the capture has gone on without audio.
LEMMA TapAnswersStep ==
  ASSUME Good(Now), TapAnswers
  PROVE  Step(Now, Now')
<1>1. /\ Now \in World /\ session \in Session /\ capture \in Capture /\ tap \in Tap
      /\ TapInv(capture, tap) /\ DrainInv(Now)
  BY GoodNow, Zenon
<1> DEFINE b == [tap EXCEPT !.answer = "none"]
           w == [Now EXCEPT !.t = b]
           D(ready) == [capture EXCEPT !.audioReady = ready]
           R(ready) == [w EXCEPT !.c = D(ready)]
<1>2. b \in Tap /\ TapInv(capture, b) /\ b.stopped = tap.stopped /\ b.activation = tap.activation
  BY <1>1 DEF Tap, TapInv, Fresh
<1>3. /\ w \in World /\ w.s = session /\ w.c = capture /\ w.t = b /\ w.v = video
      /\ Good(w) /\ Step(Now, w)
  BY <1>2, TapMovedStep, Zenon
<1>4. session.captureStarted
  BY <1>1, NowParts, Zenon DEF TapAnswers, DrainInv, Unused, TapInv, Fresh
<1>5. ASSUME NEW ready \in BOOLEAN
      PROVE  R(ready) = [w EXCEPT !.c.audioReady = ready]
  BY <1>3, Zenon
<1>6. /\ tap.answer # "none"
      /\ Becomes(IF tap.stopped \/ capture.stopping THEN w
                 ELSE IF tap.answer = "yes" THEN R(TRUE) ELSE DisableAudio(R(FALSE)))
  BY <1>5, NowParts, Zenon DEF TapAnswers
<1> HIDE DEF w
<1>7. ASSUME NEW ready \in BOOLEAN, ready => tap.answer = "yes"
      PROVE  /\ R(ready) \in World /\ Leaves(w, R(ready)) /\ Step(Now, R(ready))
             /\ R(ready).s = session /\ R(ready).c.tap = capture.tap
  <2>1. D(ready) \in Capture
    BY <1>1, Zenon DEF Capture
  <2>2. /\ R(ready) \in World /\ R(ready).s = session /\ R(ready).c = D(ready)
        /\ R(ready).t = b /\ R(ready).v = video
    BY <1>3, <2>1, Zenon DEF World
  <2> HIDE DEF R
  <2>3. Leaves(w, R(ready))
    BY <1>1, <1>3, <2>2, ZenonT(60) DEF Leaves, Capture
  <2>4. TapInv(D(ready), b)
    BY <1>1, <1>2, <1>7, ZenonT(60) DEF TapInv, Capture
  <2>5. R(ready).c.tap = capture.tap
    BY <1>1, <2>2, Zenon DEF Capture
  <2>6. Step(Now, R(ready))
    <3> HIDE DEF D, b
    <3>1. TapInv(R(ready).c, R(ready).t) /\ Apart(Now, R(ready)) /\ Alike(Now.s, w.s)
      BY <1>3, <2>2, <2>4, <2>5, NowParts, Zenon DEF Apart, Alike
    <3> QED BY <1>1, <1>3, <1>4, <2>2, <2>3, <3>1, LeavesStep, Zenon
  <2> QED BY <2>2, <2>3, <2>5, <2>6, Zenon
<1>8. Step(Now, DisableAudio(R(FALSE)))
  <2> DEFINE u == R(FALSE)
  <2>1. u \in World /\ Good(u) /\ u.s = session /\ u.c.tap = capture.tap /\ TapInv(u.c, u.t)
    BY <1>7, Zenon DEF Step, Good, Full, Base
  <2> HIDE DEF u
  <2>2. /\ Leaves(u, DisableAudio(u)) /\ TapInv(DisableAudio(u).c, DisableAudio(u).t)
        /\ DisableAudio(u).c.tap => u.c.tap
        /\ DisableAudio(u) \in World
    BY <2>1, DisableAudioLeaves, ZenonT(60) DEF Leaves
  <2>3. Step(Now, DisableAudio(u))
    BY <1>1, <1>4, <2>1, <2>2, NowParts, LeavesStep, Zenon DEF Apart, Alike
  <2> QED BY <2>3, Zenon DEF u
<1>9. CASE ~(tap.stopped \/ capture.stopping) /\ tap.answer = "yes"
  <2>1. Step(Now, R(TRUE))
    BY <1>7, <1>9, Zenon
  <2> HIDE DEF R
  <2> QED BY <1>6, <1>9, <2>1, NowStep, Zenon
<1>10. CASE ~(tap.stopped \/ capture.stopping) /\ tap.answer # "yes"
  <2> HIDE DEF R
  <2> QED BY <1>6, <1>8, <1>10, NowStep, Zenon
<1>11. CASE tap.stopped \/ capture.stopping
  BY <1>3, <1>6, <1>11, NowStep, Zenon
<1> QED BY <1>9, <1>10, <1>11, Zenon

\* A failure of a tap that was started makes a step.
LEMMA TapFailsStep ==
  ASSUME Good(Now), TapFails
  PROVE  Step(Now, Now')
<1>1. Now \in World /\ TapInv(capture, tap) /\ DrainInv(Now)
  BY GoodNow, Zenon
<1>2. session.captureStarted
  BY <1>1, NowParts, Zenon DEF TapFails, DrainInv, Unused, TapInv, Fresh
<1> DEFINE r == DisableAudio(Now)
<1>3. Leaves(Now, r) /\ TapInv(r.c, r.t) /\ (r.c.tap => capture.tap) /\ r \in World
  BY <1>1, NowParts, DisableAudioLeaves, ZenonT(60) DEF Leaves
<1>4. Becomes(r)
  BY Zenon DEF TapFails
<1> HIDE DEF r
<1>5. Step(Now, r)
  BY <1>1, <1>2, <1>3, NowParts, LeavesStep, Zenon DEF Apart, Alike
<1> QED BY <1>4, <1>5, NowStep, Zenon

\* The destruction of a tap and the callback to the capture make a step.
LEMMA TapStoppedStep ==
  ASSUME Good(Now), TapStopped
  PROVE  Step(Now, Now')
<1>1. Now \in World /\ tap \in Tap /\ TapInv(capture, tap) /\ DrainInv(Now)
  BY GoodNow, Zenon
<1> DEFINE b == [tap EXCEPT !.destroy = "done"]
           w == [Now EXCEPT !.t = b]
           r == AudioStopped(w)
<1>2. tap.destroy = "posted" /\ Becomes(IF tap.activation = "Cancelled" THEN w ELSE r)
  BY NowParts, Zenon DEF TapStopped
<1>3. b \in Tap /\ TapInv(capture, b) /\ b.stopped = tap.stopped /\ b.destroy = "done"
  BY <1>1, <1>2, ZenonT(60) DEF Tap, TapInv, Fresh
<1>4. /\ w \in World /\ w.s = session /\ w.c = capture /\ w.t = b /\ w.v = video
      /\ Good(w) /\ Step(Now, w)
  BY <1>3, TapMovedStep, Zenon
<1>5. session.captureStarted /\ ~capture.tap
  BY <1>1, <1>2, NowParts, Zenon DEF DrainInv, Unused, TapInv
<1> HIDE DEF w, b
<1>a. TapInv(w.c, w.t) /\ ~w.c.tap /\ w.t.destroy = "done"
  BY <1>3, <1>4, <1>5, Zenon
<1>6. Leaves(w, r) /\ TapInv(r.c, r.t) /\ ~r.c.tap /\ r \in World
  BY <1>4, <1>a, AudioStoppedLeaves, ZenonT(60) DEF Leaves
<1> HIDE DEF r
<1>7. Step(Now, r)
  BY <1>1, <1>4, <1>5, <1>6, NowParts, LeavesStep, Zenon DEF Apart, Alike
<1> QED BY <1>2, <1>4, <1>7, NowStep, Zenon

\* The restart timer makes a step: it makes a new tap, or finds the capture
\* stopping.
LEMMA AudioRestartsStep ==
  ASSUME Good(Now), AudioRestarts
  PROVE  Step(Now, Now')
<1>1. Now \in World /\ capture \in Capture /\ TapInv(capture, tap) /\ DrainInv(Now)
  BY GoodNow, Zenon
<1> DEFINE d == [capture EXCEPT !.restartTimer = FALSE]
           w == [Now EXCEPT !.c = d]
           e == [d EXCEPT !.restartPending = FALSE]
           u == [w EXCEPT !.c = e]
<1>2. capture.restartTimer /\ session.captureStarted
  BY <1>1, NowParts, Zenon DEF AudioRestarts, DrainInv, Unused
<1>3. d \in Capture /\ e \in Capture
  BY <1>1, ZenonT(60) DEF Capture
<1>4. w \in World /\ w.s = session /\ w.c = d /\ w.t = tap /\ w.v = video
  BY <1>1, <1>3, NowParts, Zenon DEF World
<1>5. u \in World /\ u.s = session /\ u.c = e /\ u.t = tap /\ u.v = video
  BY <1>3, <1>4, Zenon DEF World
<1>6. w = [Now EXCEPT !.c.restartTimer = FALSE] /\ u = [w EXCEPT !.c.restartPending = FALSE]
  BY <1>4, NowParts, Zenon
<1> HIDE DEF w, u
<1>7. IF capture.stopping \/ ~capture.restartPending THEN Becomes(w)
      ELSE \E made \in CreateTap(u) : Becomes(StartTap(made))
  BY <1>6, Zenon DEF AudioRestarts
<1>8. CASE capture.stopping \/ ~capture.restartPending
  <2>1. Leaves(Now, w)
    BY <1>1, <1>4, NowParts, ZenonT(60) DEF Leaves, Capture
  <2>2. TapInv(d, tap) /\ d.tap = capture.tap
    BY <1>1, Zenon DEF TapInv, Capture
  <2> HIDE DEF d
  <2>3. TapInv(w.c, w.t) /\ Apart(Now, w) /\ Alike(Now.s, Now.s) /\ Now.s.captureStarted
    BY <1>2, <1>4, <2>2, NowParts, Zenon DEF Apart, Alike
  <2>4. Step(Now, w)
    BY <1>1, <1>4, <2>1, <2>3, LeavesStep, Zenon
  <2> QED BY <1>7, <1>8, <2>4, NowStep, Zenon
<1>9. CASE ~(capture.stopping \/ ~capture.restartPending)
  <2>1. PICK made \in CreateTap(u) : Becomes(StartTap(made))
    BY <1>7, <1>9, Zenon
  <2>2. tap.destroy = "done" /\ ~tap.running /\ ~capture.tap
    BY <1>1, <1>2, <1>9, Zenon DEF TapInv
  <2>3. /\ TapInv(e, tap) /\ ~e.tap /\ ~e.stopping /\ ~e.restartPending /\ ~e.restartTimer
        /\ e.drained = capture.drained
    BY <1>1, <1>9, <2>2, Zenon DEF TapInv, Capture
  <2>4. Leaves(Now, u)
    BY <1>1, <1>3, <1>5, NowParts DEF Leaves, Capture
  <2> HIDE DEF e, d
  <2>5. Leaves(u, made) /\ TapInv(made.c, made.t) /\ made \in World
    BY <1>5, <2>2, <2>3, CreateTapLeaves DEF Leaves
  <2>6. Leaves(Now, made)
    BY <1>1, <1>5, <2>3, <2>4, <2>5, NowParts, LeavesThenLeaves, Zenon
  <2>7. Apart(Now, made) /\ Apart(Now, StartTap(made)) /\ Alike(Now.s, Now.s) /\ Now.s.captureStarted
    BY <1>2, <2>2, NowParts, Zenon DEF Apart, Alike
  <2>8. Step(Now, made)
    BY <1>1, <2>5, <2>6, <2>7, LeavesStep, Zenon
  <2>9. Leaves(made, StartTap(made)) /\ TapInv(StartTap(made).c, StartTap(made).t) /\ StartTap(made) \in World
    BY <2>5, StartTapLeaves, Zenon DEF Leaves
  <2>10. made.s = session
    BY <1>9, <2>6, NowParts, Zenon DEF Leaves
  <2>11. Alike(Now.s, made.s) /\ made.s.captureStarted /\ Good(made)
    BY <1>2, <2>8, <2>10, NowParts, Zenon DEF Alike, Step
  <2>12. Step(Now, StartTap(made))
    BY <1>1, <2>5, <2>7, <2>9, <2>11, LeavesStep, Zenon
  <2> QED BY <2>1, <2>12, NowStep, Zenon
<1> QED BY <1>8, <1>9, Zenon


\* A change of the capture's stage of startup keeps the invariant.
LEMMA StageMoved ==
  ASSUME NEW z, Full(z), z.s.captureStarted, NEW to \in {"discovering", "starting", "settled"},
         to = "discovering" => z.c.stage = "unused"
  PROVE  LET r == [z EXCEPT !.c.stage = to] IN
         /\ r \in World /\ r.s = z.s /\ r.c = [z.c EXCEPT !.stage = to] /\ r.t = z.t /\ r.v = z.v
         /\ Full(r) /\ Apart(z, r) /\ r.c.stopping = z.c.stopping
         /\ Good(z) /\ to # "starting" => Good(r)
<1> DEFINE d == [z.c EXCEPT !.stage = to]
           r == [z EXCEPT !.c = d]
<1>1. z \in World /\ z.c \in Capture
  BY Zenon DEF Full, World
<1>2. d \in Capture
  BY <1>1, Zenon DEF Capture
<1>3. r \in World /\ r.s = z.s /\ r.c = d /\ r.t = z.t /\ r.v = z.v
  BY <1>1, <1>2, Zenon DEF World
<1>4. r = [z EXCEPT !.c.stage = to]
  BY <1>1, Zenon DEF World
<1> HIDE DEF r
<1>5. TapInv(d, z.t) /\ d.tap = z.c.tap /\ d.stopping = z.c.stopping /\ d.inFlight = z.c.inFlight
  BY <1>1, Zenon DEF Full, Base, TapInv, Capture
<1>6. DrainInv(r)
  BY <1>1, <1>3 DEF Full, Base, DrainInv, CaptureIdle, Capture
<1>7. RateInv(r)
  BY <1>1, <1>3 DEF Full, Base, RateInv, Capture
<1>8. Full(r)
  BY <1>3, <1>5, <1>6, <1>7, Zenon DEF Full, Base, KeyInv
<1>9. Apart(z, r)
  BY <1>3, <1>5, Zenon DEF Apart
<1>10. Good(z) /\ to # "starting" => Good(r)
  <2>1. ChainInv(z) => ChainInv(r)
    BY <1>3, <1>5, Zenon DEF ChainInv
  <2>2. to # "starting" /\ RunInv(z) => RunInv(r)
    BY <1>1, <1>3, ZenonT(60) DEF RunInv, Capture
  <2> QED BY <1>8, <2>1, <2>2, Zenon DEF Good
<1> QED BY <1>3, <1>4, <1>5, <1>8, <1>9, <1>10, Zenon

\* A handler that stops the ScreenCaptureKit stream while the session stops
\* makes a step.
LEMMA KeptStep ==
  ASSUME NEW z \in World, NEW w \in World, NEW r \in World,
         Full(w), ~Live(w.s), w.s.captureStarted, Base(r), Kept(w, r), Alike(z.s, w.s), Apart(z, w)
  PROVE  Step(z, r)
<1>1. Full(r) /\ Apart(z, r)
  BY Zenon DEF Full, KeyInv, Kept, Apart
<1>2. LifeStep(z.s, r.s) /\ ~Live(r.s)
  BY Zenon DEF Kept, Drains, LifeStep, Alike, Live
<1>3. r.s.captureStarted
  BY Zenon DEF Kept, Drains
<1>4. RunInv(r) /\ ChainInv(r)
  BY <1>2, <1>3, Zenon DEF RunInv, ChainInv, Base, DrainInv
<1> QED BY <1>1, <1>2, <1>4, Zenon DEF Step, Good

\* The answer to the query for displays makes a step, also when the session was
\* stopped meanwhile.
LEMMA DiscoveredStep ==
  ASSUME Good(Now), Discovered
  PROVE  Step(Now, Now')
<1>1. Now \in World /\ Full(Now) /\ session \in Session /\ capture \in Capture
      /\ DrainInv(Now) /\ RateInv(Now)
  BY GoodNow, Zenon
<1>2. capture.stage = "discovering" /\ session.captureStarted
  BY <1>1, NowParts, Zenon DEF Discovered, DrainInv, Unused
<1> DEFINE w == [Now EXCEPT !.c.stage = "settled"]
           c == [capture EXCEPT !.stage = "settled"]
<1>3. /\ w \in World /\ w.s = session /\ w.c = c /\ w.t = tap /\ w.v = video
      /\ Full(w) /\ Good(w) /\ Apart(Now, w)
  BY <1>1, <1>2, NowParts, StageMoved, ZenonT(60)
<1> DEFINE d == [c EXCEPT !.captureStopped = TRUE]
           u == [w EXCEPT !.c = d]
           e == [c EXCEPT !.encoder = session.bitrate, !.hasStream = TRUE]
           begun == [w EXCEPT !.c = e]
           r == [begun EXCEPT !.c.stage = "starting"]
<1>4. u = [w EXCEPT !.c.captureStopped = TRUE]
  BY <1>3, Zenon
<1>5. begun = [w EXCEPT !.c.encoder = w.s.bitrate, !.c.hasStream = TRUE]
  <2> HIDE DEF w, c
  <2> QED BY <1>3, Zenon DEF World
<1>6. \/ capture.stopping /\ Becomes(FinishCapture(u))
      \/ ~capture.stopping /\ Becomes(StopOnQueue(w))
      \/ ~capture.stopping /\ Becomes(StopOnQueue(begun))
      \/ ~capture.stopping /\ Becomes(r)
  BY <1>4, <1>5, Zenon DEF Discovered
<1>7. c \in Capture /\ d \in Capture
  BY <1>1, Zenon DEF Capture
<1>8. e \in Capture
  BY <1>1, <1>7, ZenonT(60) DEF Capture, Session
<1>9. u \in World /\ u.s = session /\ u.c = d /\ u.t = tap /\ u.v = video
  BY <1>3, <1>7, Zenon DEF World
<1>10. begun \in World /\ begun.s = session /\ begun.c = e /\ begun.t = tap /\ begun.v = video
  BY <1>3, <1>8, Zenon DEF World
<1>11. Alike(Now.s, session) /\ Now.s = session
  BY NowParts, Zenon DEF Alike
<1> HIDE DEF w, begun, u
<1>12. CASE capture.stopping /\ Becomes(FinishCapture(u))
  <2>1. d.tap = capture.tap /\ c.tap = capture.tap
    BY <1>1, Zenon DEF Capture
  <2>2. TapInv(d, tap)
    BY <1>1, GoodNow, Zenon DEF TapInv, Capture
  <2>3. DrainInv(u)
    BY <1>1, <1>2, <1>9, NowParts DEF DrainInv, CaptureIdle, Capture
  <2>4. RateInv(u)
    BY <1>1, <1>9, NowParts DEF RateInv, Capture
  <2>5. Full(u) /\ ChainInv(u)
    BY <1>1, <1>9, <2>2, <2>3, <2>4, NowParts, GoodNow, SMTT(60)
       DEF Full, Base, KeyInv, ChainInv, Capture
  <2>6. RunInv(u)
    BY <1>1, <1>2, <1>9, <1>12, NowParts, <2>3 DEF RunInv, DrainInv, Capture
  <2>7. Good(u) /\ Apart(Now, u)
    BY <1>9, <2>1, <2>5, <2>6, NowParts, Zenon DEF Good, Apart
  <2>8. Step(Now, FinishCapture(u))
    BY <1>1, <1>2, <1>9, <1>11, <2>7, FinishedStep, Zenon
  <2> QED BY <1>12, <2>8, NowStep, Zenon
<1>13. CASE Becomes(StopOnQueue(w))
  <2>1. Step(Now, StopOnQueue(w))
    BY <1>1, <1>3, <1>11, StoppedStep, Zenon
  <2> QED BY <1>13, <2>1, NowStep, Zenon
<1>14. ~capture.stopping => Full(begun) /\ Apart(Now, begun)
  <2> SUFFICES ASSUME ~capture.stopping PROVE Full(begun) /\ Apart(Now, begun)
    BY Zenon
  <2>1. TapInv(e, tap) /\ e.tap = capture.tap /\ e.inFlight = capture.inFlight
    BY <1>1, GoodNow, ZenonT(60) DEF TapInv, Capture
  <2>2. DrainInv(begun)
    BY <1>1, <1>2, <1>10, NowParts DEF DrainInv, CaptureIdle, Capture
  <2>3. RateInv(begun)
    BY <1>1, <1>2, <1>10, NowParts DEF RateInv, Capture
  <2>4. Full(begun)
    BY <1>1, <1>10, <2>1, <2>2, <2>3, NowParts, Zenon DEF Full, Base, KeyInv
  <2> QED BY <1>10, <2>1, <2>4, NowParts, Zenon DEF Apart
<1>15. CASE ~capture.stopping /\ Becomes(StopOnQueue(begun))
  <2>1. Step(Now, StopOnQueue(begun))
    BY <1>1, <1>10, <1>11, <1>14, <1>15, StoppedStep, Zenon
  <2> QED BY <1>15, <2>1, NowStep, Zenon
<1>16. CASE ~capture.stopping /\ Becomes(r)
  <2> DEFINE f == [e EXCEPT !.stage = "starting"]
  <2>1. r \in World /\ r.s = session /\ r.c = f /\ r.t = tap /\ r.v = video /\ Full(r) /\ Apart(begun, r)
    <3> HIDE DEF e
    <3>1. Full(begun) /\ begun.s.captureStarted
      BY <1>2, <1>10, <1>14, <1>16, Zenon
    <3> QED BY <1>10, <3>1, StageMoved, ZenonT(60)
  <2> HIDE DEF r
  <2>2. /\ f.encoder = session.bitrate /\ f.tap = capture.tap /\ ~f.changing /\ ~f.stopping
    BY <1>1, <1>2, <1>16, NowParts, Zenon DEF RateInv, Capture
  <2>3. session.bitrate # 0
    BY <1>1, StreamAssumption, Zenon DEF Session
  <2> HIDE DEF f
  <2>4. RunInv(r) /\ Apart(Now, r) /\ LifeStep(session, r.s)
    BY <2>1, <2>2, <2>3, NowParts, Zenon DEF RunInv, Apart, LifeStep, Alike
  <2>5. ChainInv(r)
    BY <1>16, <2>1, NowParts, GoodNow, Zenon DEF ChainInv
  <2>6. Step(Now, r)
    BY <2>1, <2>4, <2>5, NowParts, Zenon DEF Step, Good
  <2> QED BY <1>16, <2>6, NowStep, Zenon
<1> QED BY <1>6, <1>12, <1>13, <1>15, <1>16, Zenon


\* Beginning to stream keeps the invariant.
LEMMA StreamsGood ==
  ASSUME NEW w \in World, Good(w), w.s.captureStarted, ~w.c.stopping,
         w.s.state = "Connecting" => w.c.encoder = w.s.bitrate
  PROVE  /\ Good(Streams(w)) /\ LifeStep(w.s, Streams(w).s)
         /\ Streams(w).c = w.c /\ Streams(w).t = w.t /\ Streams(w).s.captureStarted
<1>1. CASE w.s.state # "Connecting"
  BY <1>1, Zenon DEF Streams, LifeStep, Alike
<1>2. CASE w.s.state = "Connecting"
  <2> DEFINE e == [w.s EXCEPT !.state = "Streaming", !.worker = "receiving"]
             r == [w EXCEPT !.s = e]
  <2>1. w.s \in Session
    BY Zenon DEF World
  <2>2. /\ e \in Session /\ e.state = "Streaming" /\ e.worker = "receiving" /\ e.lease = w.s.lease
        /\ e.waiting = w.s.waiting /\ e.endpoint = w.s.endpoint
        /\ e.captureStarted = w.s.captureStarted /\ e.captureDrained = w.s.captureDrained
        /\ e.bitrate = w.s.bitrate /\ e.transportRate = w.s.transportRate
    BY <2>1, ZenonT(60) DEF Session
  <2>3. r \in World /\ r.s = e /\ r.c = w.c /\ r.t = w.t /\ r.v = w.v
    BY <2>2, Zenon DEF World
  <2>4. Streams(w) = r
    BY <1>2, Zenon DEF Streams, World
  <2> HIDE DEF r, e
  <2>5. DrainInv(r)
    BY <1>2, <2>2, <2>3, Zenon DEF Good, Full, Base, DrainInv, Live
  <2>6. RateInv(r) /\ KeyInv(r) /\ ChainInv(r)
    BY <2>2, <2>3 DEF Good, Full, Base, RateInv, KeyInv, ChainInv
  <2>7. RunInv(r)
    BY <1>2, <2>2, <2>3, Zenon DEF Good, RunInv, Live
  <2>8. Good(r)
    BY <2>3, <2>5, <2>6, <2>7, Zenon DEF Good, Full, Base
  <2>9. LifeStep(w.s, r.s)
    BY <1>2, <2>2, <2>3, Zenon DEF LifeStep
  <2> QED BY <2>2, <2>3, <2>4, <2>8, <2>9, Zenon
<1> QED BY <1>1, <1>2, Zenon

\* The answer of startCapture makes a step, also when it comes after the stop.
LEMMA CaptureStartedStep ==
  ASSUME Good(Now), CaptureStarted
  PROVE  Step(Now, Now')
<1>1. /\ Now \in World /\ Full(Now) /\ session \in Session /\ capture \in Capture
      /\ DrainInv(Now) /\ RunInv(Now)
  BY GoodNow, Zenon
<1>2. capture.stage = "starting" /\ session.captureStarted
  BY <1>1, NowParts, Zenon DEF CaptureStarted, DrainInv, Unused
<1> DEFINE w == [Now EXCEPT !.c.stage = "settled"]
           c == [capture EXCEPT !.stage = "settled"]
<1>3. /\ w \in World /\ w.s = session /\ w.c = c /\ w.t = tap /\ w.v = video
      /\ Full(w) /\ Good(w) /\ Apart(Now, w)
  BY <1>1, <1>2, NowParts, StageMoved, ZenonT(60)
<1>4. \/ capture.stopping /\ Becomes(StopStream(w))
      \/ ~capture.stopping /\ Becomes(StopOnQueue(w))
      \/ ~capture.stopping /\ Becomes(StartTap(Streams(w)))
  BY Zenon DEF CaptureStarted
<1>5. c.encoder = capture.encoder /\ c.stopping = capture.stopping /\ c.tap = capture.tap
  BY <1>1, Zenon DEF Capture
<1>6. Alike(Now.s, session) /\ Now.s = session
  BY NowParts, Zenon DEF Alike
<1> HIDE DEF w, c
<1>7. CASE capture.stopping /\ Becomes(StopStream(w))
  <2>1. ~Live(session)
    BY <1>1, <1>2, <1>7, NowParts, Zenon DEF DrainInv
  <2>2. Base(StopStream(w)) /\ Kept(w, StopStream(w)) /\ StopStream(w) \in World
    BY <1>2, <1>3, StopStreamKeeps, Zenon DEF Full, Kept
  <2>3. Step(Now, StopStream(w))
    BY <1>1, <1>2, <1>3, <1>6, <2>1, <2>2, KeptStep, Zenon
  <2> QED BY <1>7, <2>3, NowStep, Zenon
<1>8. CASE Becomes(StopOnQueue(w))
  <2>1. Step(Now, StopOnQueue(w))
    BY <1>1, <1>3, <1>6, StoppedStep, Zenon
  <2> QED BY <1>8, <2>1, NowStep, Zenon
<1>9. CASE ~capture.stopping /\ Becomes(StartTap(Streams(w)))
  <2> DEFINE u == Streams(w)
             r == StartTap(u)
  <2>1. Live(session)
    BY <1>1, <1>2, <1>9, NowParts, Zenon DEF DrainInv
  <2>2. session.state = "Connecting" => capture.encoder = session.bitrate
    BY <1>1, <1>2, <2>1, NowParts, Zenon DEF RunInv
  <2>3. /\ Good(u) /\ LifeStep(session, u.s) /\ u.c = c /\ u.t = tap /\ u.s.captureStarted
    BY <1>2, <1>3, <1>5, <1>9, <2>2, StreamsGood, Zenon
  <2> HIDE DEF u
  <2>4. u \in World /\ TapInv(u.c, u.t)
    BY <2>3, Zenon DEF Good, Full, Base
  <2>5. Leaves(u, r) /\ TapInv(r.c, r.t) /\ (r.c.tap => u.c.tap) /\ r \in World
    BY <2>4, StartTapLeaves, ZenonT(60) DEF Leaves
  <2> HIDE DEF r
  <2>6. Apart(Now, r)
    BY <1>5, <2>3, <2>5, NowParts, Zenon DEF Apart
  <2>7. Step(Now, r)
    BY <1>1, <1>5, <1>6, <1>9, <2>3, <2>4, <2>5, <2>6, LeavesStep, Zenon
  <2> QED BY <1>9, <2>7, NowStep, Zenon DEF r, u
<1> QED BY <1>4, <1>7, <1>8, <1>9, Zenon

\* The answer of stopCapture makes a step.
LEMMA CaptureStoppedStep ==
  ASSUME Good(Now), CaptureStopped
  PROVE  Step(Now, Now')
<1>1. /\ Now \in World /\ session \in Session /\ capture \in Capture /\ TapInv(capture, tap)
      /\ DrainInv(Now) /\ RateInv(Now) /\ RunInv(Now)
  BY GoodNow, Zenon
<1> DEFINE d == [capture EXCEPT !.stopAwaited = FALSE, !.captureStopped = TRUE]
           u == [Now EXCEPT !.c = d]
<1>2. capture.stopAwaited /\ session.captureStarted
  BY <1>1, NowParts, Zenon DEF CaptureStopped, DrainInv, Unused
<1>3. u = [Now EXCEPT !.c.stopAwaited = FALSE, !.c.captureStopped = TRUE]
  BY <1>1, NowParts, Zenon DEF World
<1>4. Becomes(FinishCapture(u))
  BY <1>3, Zenon DEF CaptureStopped
<1>5. d \in Capture /\ d.tap = capture.tap /\ d.inFlight = capture.inFlight /\ d.stopping = capture.stopping
  BY <1>1, ZenonT(60) DEF Capture
<1>6. u \in World /\ u.s = session /\ u.c = d /\ u.t = tap /\ u.v = video
  BY <1>1, <1>5, NowParts, Zenon DEF World
<1> HIDE DEF u
<1>7. TapInv(d, tap)
  BY <1>1, Zenon DEF TapInv, Capture
<1>8. DrainInv(u)
  BY <1>1, <1>2, <1>6, NowParts DEF DrainInv, CaptureIdle, Capture
<1>9. RateInv(u)
  BY <1>1, <1>6, NowParts DEF RateInv, Capture
<1>10. RunInv(u)
  BY <1>1, <1>6, NowParts DEF RunInv, Capture
<1> HIDE DEF d
<1>11. Good(u)
  BY <1>5, <1>6, <1>7, <1>8, <1>9, <1>10, NowParts, GoodNow, Zenon
     DEF Good, Full, Base, KeyInv, ChainInv
<1>12. Apart(Now, u) /\ Alike(Now.s, u.s) /\ u.s.captureStarted
  BY <1>2, <1>5, <1>6, NowParts, Zenon DEF Apart, Alike
<1>13. Step(Now, FinishCapture(u))
  BY <1>1, <1>6, <1>11, <1>12, FinishedStep, Zenon
<1> QED BY <1>4, <1>13, NowStep, Zenon

\* The tick that finds the endpoint ready makes a step.
LEMMA TickReadyStep ==
  ASSUME Good(Now), TickReady
  PROVE  Step(Now, Now')
<1>1. /\ Now \in World /\ session \in Session /\ capture \in Capture /\ TapInv(capture, tap)
      /\ DrainInv(Now) /\ RateInv(Now) /\ RunInv(Now)
  BY GoodNow, Zenon
<1> DEFINE e == [session EXCEPT !.lease = "active", !.captureStarted = TRUE]
           w == [Now EXCEPT !.s = e]
           made == IF w.c.desktopTap THEN CreateTap(w) ELSE {w}
<1>2. session.state = "Connecting" /\ ~session.captureStarted /\ session.lease = "pending"
  BY Zenon DEF TickReady
<1>3. w = [Now EXCEPT !.s.lease = "active", !.s.captureStarted = TRUE]
  BY <1>1, NowParts, Zenon DEF World
<1>4. PICK m \in made : Becomes(StopOnQueue(m)) \/ Becomes([m EXCEPT !.c.stage = "discovering"])
  BY <1>3, Zenon DEF TickReady, StartCapture
<1>5. /\ e \in Session /\ e.lease = "active" /\ e.captureStarted /\ e.state = session.state
      /\ e.endpoint = session.endpoint /\ e.waiting = session.waiting /\ e.worker = session.worker
      /\ e.captureDrained = session.captureDrained
      /\ e.bitrate = session.bitrate /\ e.transportRate = session.transportRate
  BY <1>1, Zenon DEF Session
<1>6. w \in World /\ w.s = e /\ w.c = capture /\ w.t = tap /\ w.v = video
  BY <1>1, <1>5, NowParts, Zenon DEF World
<1>7. Unused(Now)
  BY <1>1, <1>2, NowParts, Zenon DEF DrainInv
<1> HIDE DEF w, e
<1>8. DrainInv(w)
  BY <1>1, <1>2, <1>5, <1>6, <1>7, NowParts, ZenonT(60) DEF DrainInv, Unused, Live
<1>9. RateInv(w) /\ RunInv(w)
  BY <1>1, <1>2, <1>5, <1>6, <1>7, NowParts
     DEF RateInv, RunInv, Unused
<1>10. Good(w)
  BY <1>1, <1>6, <1>8, <1>9, NowParts, GoodNow, Zenon DEF Good, Full, Base, KeyInv, ChainInv
<1>11. Alike(session, w.s)
  BY <1>2, <1>5, <1>6, Zenon DEF Alike
<1>12. tap.destroy = "none" /\ ~tap.running /\ ~tap.stopped /\ \A r : Apart(Now, r)
  BY <1>1, <1>7, NowParts, Zenon DEF TapInv, Unused, Fresh, Apart
<1>13. m \in World /\ Leaves(w, m) /\ TapInv(m.c, m.t)
  <2>1. CASE m = w
    BY <1>1, <1>6, <2>1, Zenon DEF Leaves
  <2>2. CASE m \in CreateTap(w)
    BY <1>1, <1>6, <1>7, <1>12, <2>2, CreateTapLeaves, NowParts
       DEF Leaves, Unused
  <2> QED BY <1>4, <2>1, <2>2, Zenon
<1>14. Step(Now, m)
  BY <1>1, <1>5, <1>6, <1>10, <1>11, <1>12, <1>13, NowParts, LeavesStep, Zenon
<1>15. m.s = e /\ m.c.stage = "unused"
  BY <1>6, <1>7, <1>13, NowParts, ZenonT(60) DEF Leaves, Unused
<1>16. Full(m) /\ Good(m) /\ Alike(Now.s, m.s)
  BY <1>6, <1>11, <1>14, <1>15, NowParts, Zenon DEF Step, Good
<1>17. Step(Now, StopOnQueue(m))
  BY <1>1, <1>12, <1>13, <1>16, StoppedStep, Zenon
<1> DEFINE r == [m EXCEPT !.c.stage = "discovering"]
<1>18. r.s = e /\ Good(r)
  BY <1>5, <1>15, <1>16, StageMoved, Zenon
<1> HIDE DEF r
<1>19. Step(Now, r)
  BY <1>6, <1>11, <1>12, <1>18, NowParts, Zenon DEF Step, LifeStep
<1> QED BY <1>4, <1>17, <1>19, NowStep, Zenon DEF r


\* A captured frame makes a step: given to the encoder, skipped, or failed.
LEMMA FrameCapturedStep ==
  ASSUME Good(Now), FrameCaptured
  PROVE  Step(Now, Now')
<1>1. /\ Now \in World /\ session \in Session /\ capture \in Capture /\ video \in Video
      /\ TapInv(capture, tap) /\ DrainInv(Now) /\ RateInv(Now) /\ RunInv(Now) /\ KeyInv(Now)
  BY GoodNow, Zenon
<1> DEFINE frame == [rate |-> capture.encoder, forced |-> ForcesKey]
           q == Append(capture.inFlight, frame)
           d == [capture EXCEPT !.inFlight = q]
           y == [video EXCEPT !.encoding = video.encoding \/ ForcesKey]
           r == [Now EXCEPT !.c = d, !.v = y]
<1>2. /\ capture.hasStream /\ ~capture.stopping /\ ~capture.changing
      /\ ~(Len(capture.inFlight) >= MaxInFlight)
      /\ session.captureStarted
  BY <1>1, NowParts, Zenon DEF FrameCaptured, EncoderBusy, DrainInv, Unused
<1>3. r = [Now EXCEPT !.c.inFlight = Append(@, frame), !.v.encoding = @ \/ ForcesKey]
  BY <1>1, NowParts, Zenon DEF World
<1>4. Becomes(r) \/ Becomes(StopOnQueue(Now))
  BY <1>3, Zenon DEF FrameCaptured
<1>5. capture.inFlight \in Seq(Frame) /\ ForcesKey \in BOOLEAN /\ video.encoding \in BOOLEAN
  BY <1>1, Zenon DEF Capture, Video, ForcesKey
<1>6. capture.encoder \in Bitrates /\ capture.encoder # 0
  BY <1>1, <1>2, NowParts, Zenon DEF DrainInv, RunInv, Capture
<1>7. frame \in Frame /\ frame.rate = capture.encoder /\ frame.forced = ForcesKey
  BY <1>5, <1>6, Zenon DEF Frame
<1> HIDE DEF frame
<1>8. /\ q \in Seq(Frame) /\ Len(q) = Len(capture.inFlight) + 1 /\ Len(q) <= MaxInFlight
      /\ q[Len(q)] = frame
      /\ \A i \in DOMAIN q : i # Len(q) => i \in DOMAIN capture.inFlight /\ q[i] = capture.inFlight[i]
      /\ \A i \in DOMAIN capture.inFlight : i \in DOMAIN q /\ i # Len(q) /\ q[i] = capture.inFlight[i]
      /\ Len(q) \in DOMAIN q
  BY <1>2, <1>5, <1>7, StreamAssumption
<1> HIDE DEF q
<1>9. d \in Capture /\ d.inFlight = q
  BY <1>1, <1>8, Zenon DEF Capture
<1>10. y \in Video /\ y.encoding = (video.encoding \/ ForcesKey) /\ y.requested = video.requested
       /\ y.intact = video.intact
  BY <1>1, <1>5, Zenon DEF Video
<1> HIDE DEF y
<1>11. r \in World /\ r.s = session /\ r.c = d /\ r.t = tap /\ r.v = y
  BY <1>1, <1>9, <1>10, NowParts, Zenon DEF World
<1> HIDE DEF r
<1>12. TapInv(d, tap) /\ d.tap = capture.tap
  BY <1>1, Zenon DEF TapInv, Capture
<1>13. DrainInv(r)
  BY <1>1, <1>2, <1>11, NowParts DEF DrainInv, CaptureIdle, Capture
<1>14. RateInv(r)
  <2>1. \A i \in DOMAIN q : q[i].rate = capture.encoder
    BY <1>1, <1>7, <1>8, NowParts DEF RateInv
  <2> QED BY <1>1, <1>2, <1>9, <1>11, <2>1, NowParts, SMTT(60)
            DEF RateInv, Capture
<1>15. RunInv(r)
  BY <1>1, <1>11, NowParts DEF RunInv, Capture
<1>16. KeyInv(r)
  <2>1. video.encoding <=> \E i \in DOMAIN capture.inFlight : capture.inFlight[i].forced
    BY <1>1, NowParts, Zenon DEF KeyInv
  <2>2. \A i, j \in DOMAIN capture.inFlight :
          capture.inFlight[i].forced /\ capture.inFlight[j].forced => i = j
    BY <1>1, NowParts, Zenon DEF KeyInv
  <2>3. ForcesKey => ~video.encoding
    BY Zenon DEF ForcesKey
  <2>4. y.encoding <=> \E i \in DOMAIN q : q[i].forced
    BY <1>7, <1>8, <1>10, <2>1, Zenon
  <2>5. \A i, j \in DOMAIN q : q[i].forced /\ q[j].forced => i = j
    BY <1>7, <1>8, <2>1, <2>2, <2>3, Zenon
  <2> QED BY <1>9, <1>11, <2>4, <2>5, Zenon DEF KeyInv
<1>17. ChainInv(r)
  BY <1>2, <1>10, <1>11, NowParts, GoodNow, Zenon DEF ChainInv
<1>18. Good(r)
  BY <1>8, <1>9, <1>11, <1>12, <1>13, <1>14, <1>15, <1>16, <1>17, ZenonT(60)
     DEF Good, Full, Base
<1>19. Step(Now, r)
  BY <1>11, <1>12, <1>18, NowParts, Zenon DEF Step, LifeStep, Alike, Apart
<1> QED BY <1>4, <1>19, StopNowStep, NowStep, Zenon

\* Taking up the new encoder when the last frame is out keeps the invariant.
LEMMA ReplaceGood ==
  ASSUME NEW w, Good(w)
  PROVE  /\ Good(ReplaceWhenDrained(w)) /\ ReplaceWhenDrained(w) \in World
         /\ ReplaceWhenDrained(w).s = w.s /\ ReplaceWhenDrained(w).c.tap = w.c.tap
<1>1. w \in World /\ w.c \in Capture
  BY Zenon DEF Good, Full, World
<1>2. CASE w.c.changing /\ ~w.c.building /\ w.c.inFlight = <<>> /\ ~w.c.stopping
  <2> DEFINE d == [w.c EXCEPT !.building = TRUE, !.encoder = 0]
             r == [w EXCEPT !.c = d]
  <2>1. ReplaceWhenDrained(w) = r
    BY <1>1, <1>2, Zenon DEF ReplaceWhenDrained, World
  <2>2. d \in Capture /\ d.tap = w.c.tap
    BY <1>1, ZenonT(60) DEF Capture
  <2>3. r \in World /\ r.s = w.s /\ r.c = d /\ r.t = w.t /\ r.v = w.v
    BY <1>1, <2>2, Zenon DEF World
  <2> HIDE DEF r
  <2>4. TapInv(r.c, r.t)
    BY <1>1, <2>3, SMTT(60) DEF Good, Full, Base, TapInv, Capture
  <2>5. DrainInv(r)
    BY <1>1, <1>2, <2>3 DEF Good, Full, Base, DrainInv, Unused, Capture
  <2>6. RateInv(r)
    BY <1>1, <1>2, <2>3 DEF Good, Full, Base, RateInv, Capture
  <2>7. RunInv(r)
    BY <1>1, <1>2, <2>3, ZenonT(60) DEF Good, RunInv, Capture
  <2>8. KeyInv(r) /\ ChainInv(r) /\ Len(r.c.inFlight) <= MaxInFlight
    BY <1>1, <2>3, ZenonT(60) DEF Good, Full, KeyInv, ChainInv, Capture
  <2> QED BY <2>1, <2>2, <2>3, <2>4, <2>5, <2>6, <2>7, <2>8, Zenon DEF Good, Full, Base
<1>3. CASE ~(w.c.changing /\ ~w.c.building /\ w.c.inFlight = <<>> /\ ~w.c.stopping)
  BY <1>1, <1>3, Zenon DEF ReplaceWhenDrained
<1> QED BY <1>2, <1>3, Zenon

\* A change of the recovery state alone keeps the base of the invariant.
LEMMA VideoMoved ==
  ASSUME NEW z \in World, NEW y \in Video, ~z.s.captureStarted => y.requested
  PROVE  LET r == [z EXCEPT !.v = y] IN
         /\ r \in World /\ r.s = z.s /\ r.c = z.c /\ r.t = z.t /\ r.v = y
         /\ Base(z) => Base(r)
         /\ RunInv(z) => RunInv(r)
<1> DEFINE r == [z EXCEPT !.v = y]
<1>1. r \in World /\ r.s = z.s /\ r.c = z.c /\ r.t = z.t /\ r.v = y
  BY Zenon DEF World
<1> HIDE DEF r
<1>2. Base(z) => Base(r)
  BY <1>1, ZenonT(60) DEF Base, DrainInv, Unused, RateInv
<1>3. RunInv(z) => RunInv(r)
  BY <1>1, Zenon DEF RunInv
<1> QED BY <1>1, <1>2, <1>3, Zenon DEF r

\* A request for a key frame keeps the invariant.
LEMMA RequestKeyKeeps ==
  ASSUME NEW w \in World
  PROVE  LET r == RequestKey(w) IN
         /\ r \in World /\ r.s = w.s /\ r.c = w.c /\ r.t = w.t
         /\ r.v.encoding = w.v.encoding /\ r.v.requested
         /\ Base(w) => Base(r)
         /\ RunInv(w) => RunInv(r)
         /\ ChainInv(r)
<1> DEFINE y == [w.v EXCEPT !.requested = TRUE, !.intact = FALSE]
<1>1. w.v \in Video
  BY Zenon DEF World
<1>2. y \in Video /\ y.encoding = w.v.encoding /\ y.requested
  BY <1>1, Zenon DEF Video
<1>3. RequestKey(w) = [w EXCEPT !.v = y]
  BY Zenon DEF RequestKey, World
<1> HIDE DEF y
<1> QED BY <1>2, <1>3, VideoMoved DEF ChainInv

\* Delivering a sample keeps the invariant, also where the send fails and ends
\* the stream.
LEMMA DeliveredKeeps ==
  ASSUME NEW u \in World, Base(u), RunInv(u), ChainInv(u), u.s.captureStarted,
         NEW forced \in BOOLEAN, NEW w \in Delivered(u, forced)
  PROVE  /\ w \in World /\ Base(w) /\ RunInv(w) /\ ChainInv(w)
         /\ w.c.inFlight = u.c.inFlight /\ w.v.encoding = u.v.encoding
         /\ w.c.tap => u.c.tap
         /\ w.s.captureStarted
         /\ \/ w.s = u.s
            \/ LifeStep(u.s, w.s) /\ Live(u.s) /\ ~Live(w.s)
<1> DEFINE lost == [u.v EXCEPT !.intact = FALSE]
           x == [u EXCEPT !.v = lost]
<1>1. u.v \in Video /\ lost \in Video /\ lost.encoding = u.v.encoding /\ lost.requested = u.v.requested
      /\ lost.intact = FALSE
  BY Zenon DEF World, Video
<1>2. [u EXCEPT !.v.intact = FALSE] = x
  BY Zenon DEF World
<1>3. /\ x \in World /\ x.s = u.s /\ x.c = u.c /\ x.t = u.t /\ x.v = lost
      /\ Base(x) /\ RunInv(x)
  BY <1>1, VideoMoved, Zenon
<1> HIDE DEF x, lost
<1>4. \/ w = u
      \/ w = RequestKey(u)
      \/ ~u.c.stopping /\ w = StopOnQueue(x)
      \/ \E key, evicted \in BOOLEAN : w = Sample(u, key, evicted)
  <2> DEFINE sent == {Sample(u, f.key, f.evicted) : f \in [key: {TRUE, forced}, evicted: BOOLEAN]}
  <2>1. \/ w = u \/ w = RequestKey(u)
        \/ ~u.c.stopping /\ w = StopOnQueue(x)
        \/ w \in sent
    BY <1>2, Zenon DEF Delivered
  <2>2. ASSUME w \in sent
        PROVE  \E key, evicted \in BOOLEAN : w = Sample(u, key, evicted)
    <3>1. PICK f \in [key: {TRUE, forced}, evicted: BOOLEAN] : w = Sample(u, f.key, f.evicted)
      BY <2>2, Zenon
    <3>2. f.key \in BOOLEAN /\ f.evicted \in BOOLEAN
      BY Zenon
    <3> QED BY <3>1, <3>2, Zenon
  <2> HIDE DEF sent
  <2> QED BY <2>1, <2>2, Zenon
<1>5. CASE w = u
  BY <1>5, Zenon
<1>6. CASE w = RequestKey(u)
  BY <1>6, RequestKeyKeeps, Zenon
<1>7. CASE ~u.c.stopping /\ w = StopOnQueue(x)
  <2>1. Base(w) /\ Stops(x, w)
    BY <1>3, <1>7, StopOnQueueStops, Zenon
  <2>2. Live(u.s)
    BY <1>7, Zenon DEF Base, DrainInv
  <2>3. ~Live(w.s) /\ w.s.captureStarted /\ LifeStep(u.s, w.s)
    BY <1>3, <2>1, <2>2, Zenon DEF Stops, Ended, LifeStep
  <2>4. RunInv(w) /\ ChainInv(w)
    BY <2>1, <2>3, Zenon DEF RunInv, ChainInv, Base, DrainInv
  <2> QED BY <1>1, <1>3, <2>1, <2>2, <2>3, <2>4, Zenon DEF Stops
<1>8. ASSUME NEW key \in BOOLEAN, NEW evicted \in BOOLEAN, w = Sample(u, key, evicted)
      PROVE  /\ w \in World /\ Base(w) /\ RunInv(w) /\ ChainInv(w) /\ w.s = u.s /\ w.c = u.c
             /\ w.v.encoding = u.v.encoding
  <2>1. CASE u.v.requested /\ ~key
    <3>1. w = x
      BY <1>2, <1>8, <2>1, Zenon DEF Sample
    <3> QED BY <1>1, <1>3, <2>1, <3>1, Zenon DEF ChainInv
  <2>2. CASE ~(u.v.requested /\ ~key)
    <3> DEFINE a == IF key THEN FALSE ELSE u.v.requested \/ evicted
               b == key \/ (u.v.intact /\ ~evicted)
               y == [u.v EXCEPT !.requested = a, !.intact = b]
    <3>1. a \in BOOLEAN /\ b \in BOOLEAN
      BY <1>1, Zenon DEF Video
    <3>2. w = [u EXCEPT !.v = y]
      BY <1>8, <2>2, Zenon DEF Sample, Recovered
    <3>3. ~u.c.stopping /\ ~a => b
      BY <2>2, Zenon DEF ChainInv
    <3> HIDE DEF a, b
    <3>4. y \in Video /\ y.encoding = u.v.encoding /\ y.requested = a /\ y.intact = b
      BY <1>1, <3>1, Zenon DEF Video
    <3> HIDE DEF y
    <3> QED BY <3>2, <3>3, <3>4, VideoMoved, ZenonT(60) DEF ChainInv
  <2> QED BY <2>1, <2>2, Zenon
<1> QED BY <1>4, <1>5, <1>6, <1>7, <1>8, Zenon

\* The encoder's answer, in time or after the stop, makes a step.
LEMMA FrameEncodedStep ==
  ASSUME Good(Now), FrameEncoded
  PROVE  Step(Now, Now')
<1>1. /\ Now \in World /\ session \in Session /\ capture \in Capture /\ video \in Video
      /\ TapInv(capture, tap) /\ DrainInv(Now) /\ RateInv(Now) /\ RunInv(Now) /\ KeyInv(Now)
      /\ ChainInv(Now) /\ Full(Now)
  BY GoodNow, Zenon
<1> DEFINE old == capture.inFlight
           q == Tail(old)
           forced == Head(old).forced
           d == [capture EXCEPT !.inFlight = q]
           u == [Now EXCEPT !.c = d]
<1>2. old # <<>> /\ old \in Seq(Frame) /\ session.captureStarted
  BY <1>1, NowParts, Zenon DEF FrameEncoded, DrainInv, Unused, Capture
<1>3. u = [Now EXCEPT !.c.inFlight = Tail(@)]
  BY NowParts, Zenon
<1>4. PICK w \in Delivered(u, forced) :
        Becomes(FinishCapture(ReplaceWhenDrained(Completed(w, forced))))
  BY <1>3, Zenon DEF FrameEncoded
<1>5. /\ q \in Seq(Frame) /\ Len(q) = Len(old) - 1 /\ Len(old) \in Nat \ {0} /\ Len(q) \in Nat
      /\ \A i \in 1 .. Len(q) : i + 1 \in 1 .. Len(old) /\ q[i] = old[i + 1]
      /\ \A i \in 1 .. Len(old) : i # 1 => i - 1 \in 1 .. Len(q) /\ q[i - 1] = old[i]
      /\ forced = old[1].forced /\ forced \in BOOLEAN /\ 1 \in 1 .. Len(old)
      /\ DOMAIN q = 1 .. Len(q) /\ DOMAIN old = 1 .. Len(old)
  <2>1. old \in Seq(Frame) /\ old # <<>>
    BY <1>2, Zenon
  <2> HIDE DEF old
  <2>2. /\ q \in Seq(Frame) /\ Len(q) = Len(old) - 1 /\ Len(old) \in Nat \ {0} /\ Len(q) \in Nat
        /\ DOMAIN q = 1 .. Len(q) /\ DOMAIN old = 1 .. Len(old) /\ 1 \in 1 .. Len(old)
    BY <2>1
  <2>3. \A i \in 1 .. Len(q) : i + 1 \in 1 .. Len(old) /\ q[i] = old[i + 1]
    BY <2>1, <2>2
  <2>4. \A i \in 1 .. Len(old) : i # 1 => i - 1 \in 1 .. Len(q) /\ q[i - 1] = old[i]
    <3> TAKE i \in 1 .. Len(old)
    <3> HAVE i # 1
    <3>1. i - 1 \in 1 .. Len(q) /\ (i - 1) + 1 = i
      BY <2>2
    <3> HIDE DEF q
    <3> QED BY <2>3, <3>1, Zenon
  <2>5. Head(old) = old[1] /\ old[1] \in Frame
    BY <2>1, <2>2
  <2>6. forced = old[1].forced /\ forced \in BOOLEAN
    BY <2>5, Zenon DEF Frame
  <2> QED BY <2>2, <2>3, <2>4, <2>6, Zenon
<1> HIDE DEF q, forced
<1>6. d \in Capture /\ d.tap = capture.tap /\ d.inFlight = q /\ d.stopping = capture.stopping
  BY <1>1, <1>5, Zenon DEF Capture
<1>7. u \in World /\ u.s = session /\ u.c = d /\ u.t = tap /\ u.v = video
  BY <1>1, <1>6, NowParts, Zenon DEF World
<1> HIDE DEF u
<1>8. Base(u)
  <2>1. TapInv(d, tap)
    BY <1>1, Zenon DEF TapInv, Capture
  <2>2. DrainInv(u)
    BY <1>1, <1>2, <1>7, NowParts DEF DrainInv, CaptureIdle, Capture
  <2>3. \A i \in DOMAIN q : q[i].rate = capture.encoder
    BY <1>1, <1>5, NowParts, SMTT(60) DEF RateInv
  <2>4. RateInv(u)
    BY <1>1, <1>2, <1>6, <1>7, <2>3, NowParts DEF RateInv, Capture
  <2> QED BY <1>7, <2>1, <2>2, <2>4, Zenon DEF Base
<1>9. RunInv(u) /\ ChainInv(u)
  BY <1>1, <1>7, NowParts DEF RunInv, ChainInv, Capture
<1> HIDE DEF d
<1>10. /\ w \in World /\ Base(w) /\ RunInv(w) /\ ChainInv(w)
       /\ w.c.inFlight = q /\ w.v.encoding = video.encoding
       /\ w.c.tap => capture.tap
       /\ w.s.captureStarted
       /\ \/ w.s = session
          \/ LifeStep(session, w.s) /\ Live(session) /\ ~Live(w.s)
  BY <1>2, <1>4, <1>5, <1>6, <1>7, <1>8, <1>9, DeliveredKeeps
<1> DEFINE y == [w.v EXCEPT !.encoding = FALSE]
           x == Completed(w, forced)
<1>11. /\ x \in World /\ x.s = w.s /\ x.c = w.c
       /\ Base(x) /\ RunInv(x) /\ ChainInv(x)
       /\ x.v.encoding = IF forced THEN FALSE ELSE video.encoding
  <2>1. CASE ~forced
    BY <1>10, <2>1, Zenon DEF Completed
  <2>2. CASE forced
    <3>1. y \in Video /\ y.encoding = FALSE /\ y.requested = w.v.requested /\ y.intact = w.v.intact
      BY <1>10, Zenon DEF World, Video
    <3>2. x = [w EXCEPT !.v = y]
      BY <1>10, <2>2, Zenon DEF Completed, World
    <3> HIDE DEF x, y
    <3>3. x \in World /\ x.s = w.s /\ x.c = w.c /\ x.v = y /\ Base(x) /\ RunInv(x)
      BY <1>10, <3>1, <3>2, VideoMoved, Zenon
    <3>4. ChainInv(x)
      BY <1>10, <3>1, <3>3, Zenon DEF ChainInv
    <3> QED BY <2>2, <3>1, <3>3, <3>4, Zenon
  <2> QED BY <2>1, <2>2, Zenon
<1> HIDE DEF x
<1>12. KeyInv(x)
  <2>1. video.encoding <=> \E i \in 1 .. Len(old) : old[i].forced
    BY <1>1, <1>5, NowParts, Zenon DEF KeyInv
  <2>2. \A i, j \in 1 .. Len(old) : old[i].forced /\ old[j].forced => i = j
    BY <1>1, <1>5, NowParts, Zenon DEF KeyInv
  <2> HIDE DEF old
  <2>3. \A i, j \in 1 .. Len(q) : q[i].forced /\ q[j].forced => i = j
    BY <1>5, <2>2, SMTT(60)
  <2>4. CASE forced
    <3>1. \A i \in 1 .. Len(q) : ~q[i].forced
      <4> TAKE i \in 1 .. Len(q)
      <4>1. i + 1 \in 1 .. Len(old) /\ q[i] = old[i + 1] /\ i + 1 # 1
        BY <1>5
      <4> QED BY <1>5, <2>2, <2>4, <4>1, Zenon
    <3> QED BY <1>5, <1>10, <1>11, <2>3, <2>4, <3>1, Zenon DEF KeyInv
  <2>5. CASE ~forced
    <3>1. video.encoding <=> \E i \in 1 .. Len(q) : q[i].forced
      BY <1>5, <2>1, <2>5, Zenon
    <3> QED BY <1>5, <1>10, <1>11, <2>3, <2>5, <3>1, Zenon DEF KeyInv
  <2> QED BY <2>4, <2>5, Zenon
<1>13. Good(x)
  <2>1. Len(q) <= MaxInFlight
    BY <1>1, <1>5, NowParts, StreamAssumption DEF Full
  <2> QED BY <1>10, <1>11, <1>12, <2>1, Zenon DEF Good, Full
<1> DEFINE r == ReplaceWhenDrained(x)
<1>14. Good(r) /\ r \in World /\ r.s = w.s /\ (r.c.tap => capture.tap)
  BY <1>10, <1>11, <1>13, ReplaceGood, Zenon
<1> HIDE DEF r
<1>15. Apart(Now, r)
  BY <1>14, NowParts, Zenon DEF Apart
<1>16. Alike(Now.s, r.s) \/ (LifeStep(Now.s, r.s) /\ Live(Now.s) /\ ~Live(r.s))
  BY <1>10, <1>14, NowParts, Zenon DEF Alike
<1>17. Step(Now, FinishCapture(r))
  BY <1>1, <1>10, <1>14, <1>15, <1>16, FinishedStep, Zenon
<1> QED BY <1>4, <1>17, NowStep, Zenon DEF r, x

\* A change of the session that touches its bitrates only, both of them
\* together.
RatesMove(s, e) ==
  /\ e \in Session /\ e.transportRate = e.bitrate
  /\ e.state = s.state /\ e.lease = s.lease /\ e.waiting = s.waiting
  /\ e.endpoint = s.endpoint /\ e.worker = s.worker
  /\ e.captureStarted = s.captureStarted /\ e.captureDrained = s.captureDrained

\* Such a change keeps all but what a settled live stream owes.
LEMMA RatesMoved ==
  ASSUME NEW z, Full(z), NEW e, RatesMove(z.s, e)
  PROVE  LET r == [z EXCEPT !.s = e] IN
         /\ r \in World /\ r.s = e /\ r.c = z.c /\ r.t = z.t /\ r.v = z.v
         /\ Full(r) /\ (ChainInv(z) => ChainInv(r))
<1> DEFINE r == [z EXCEPT !.s = e]
<1>1. r \in World /\ r.s = e /\ r.c = z.c /\ r.t = z.t /\ r.v = z.v
  BY Zenon DEF Full, World, RatesMove
<1> HIDE DEF r
<1>2. DrainInv(r)
  BY <1>1, ZenonT(60) DEF Full, Base, DrainInv, RatesMove, Unused, Live, InputLeft
<1>3. RateInv(r) /\ KeyInv(r) /\ (ChainInv(z) => ChainInv(r))
  BY <1>1 DEF Full, Base, RateInv, KeyInv, ChainInv, RatesMove
<1> QED BY <1>1, <1>2, <1>3, Zenon DEF Full, Base, r

\* The end of a bitrate change makes a step: adopted by the session and the
\* transport together, or the stream ends.
LEMMA BitrateChangedStep ==
  ASSUME NEW z \in World, NEW x \in World, Full(x), ChainInv(x), Alike(z.s, x.s), Apart(z, x),
         x.s.state = "Streaming", ~x.c.changing, NEW b \in Bitrates, x.c.encoder \in {0, b},
         NEW r \in BitrateChanged(x, b)
  PROVE  Step(z, r)
<1> DEFINE e == [x.s EXCEPT !.changingBitrate = FALSE]
           changed == [x EXCEPT !.s = e]
           f == [e EXCEPT !.transportRate = b, !.bitrate = b]
           applied == [x EXCEPT !.s = f]
<1>1. x.s \in Session /\ x.s.transportRate = x.s.bitrate /\ b # 0
  BY StreamAssumption, Zenon DEF World, Full, Base, RateInv
<1>2. RatesMove(x.s, e) /\ e \in Session
  BY <1>1, Zenon DEF RatesMove, Session
<1>3. RatesMove(x.s, f) /\ f.bitrate = b
  BY <1>1, Zenon DEF RatesMove, Session
<1>4. /\ changed = [x EXCEPT !.s.changingBitrate = FALSE]
      /\ applied = [changed EXCEPT !.s.transportRate = b, !.s.bitrate = b]
  <2>1. changed = [x EXCEPT !.s.changingBitrate = FALSE]
    BY Zenon
  <2>2. changed \in World /\ changed.s = e
    BY <1>2, Zenon DEF World
  <2>3. applied = [changed EXCEPT !.s = f]
    BY <1>2, Zenon DEF World
  <2> HIDE DEF changed, e
  <2>4. [changed EXCEPT !.s = f] = [changed EXCEPT !.s.transportRate = b, !.s.bitrate = b]
    BY <1>2, <2>2, Zenon DEF World, Session
  <2> QED BY <2>1, <2>3, <2>4, Zenon
<1> HIDE DEF e, f
<1>5. /\ changed \in World /\ changed.s = e /\ changed.c = x.c /\ Full(changed)
  BY <1>2, RatesMoved, ZenonT(60)
<1>6. /\ applied \in World /\ applied.s = f /\ applied.c = x.c /\ Full(applied) /\ ChainInv(applied)
  BY <1>3, RatesMoved
<1> HIDE DEF changed, applied
<1>7. \/ r = StopOnQueue(changed)
      \/ x.c.encoder = b /\ (r = applied \/ r = StopOnQueue(applied))
  BY <1>4, Zenon DEF BitrateChanged, Acknowledged
<1>8. Step(z, StopOnQueue(changed)) /\ Step(z, StopOnQueue(applied))
  <2>1. Alike(z.s, changed.s) /\ Apart(z, changed) /\ Alike(z.s, applied.s) /\ Apart(z, applied)
    BY <1>2, <1>3, <1>5, <1>6, Zenon DEF RatesMove, Alike, Apart
  <2> QED BY <1>5, <1>6, <2>1, StoppedStep, Zenon
<1>9. CASE x.c.encoder = b /\ r = applied
  <2>1. RunInv(applied)
    BY <1>1, <1>3, <1>6, <1>9, Zenon DEF RunInv, RatesMove
  <2>2. Alike(z.s, applied.s) /\ Apart(z, applied)
    BY <1>3, <1>6, Zenon DEF RatesMove, Alike, Apart
  <2> QED BY <1>6, <1>9, <2>1, <2>2, Zenon DEF Step, Good, LifeStep
<1> QED BY <1>7, <1>8, <1>9, Zenon

\* The new encoder, built or failed, makes a step, also when the capture stopped
\* meanwhile.
LEMMA EncoderBuiltStep ==
  ASSUME Good(Now), EncoderBuilt
  PROVE  Step(Now, Now')
<1>1. /\ Now \in World /\ session \in Session /\ capture \in Capture /\ video \in Video
      /\ TapInv(capture, tap) /\ DrainInv(Now) /\ RateInv(Now) /\ RunInv(Now) /\ KeyInv(Now)
      /\ ChainInv(Now) /\ Full(Now)
  BY GoodNow, Zenon
<1> DEFINE b == capture.replacement
           d == [capture EXCEPT !.building = FALSE, !.changing = FALSE, !.replacement = 0]
           w == [Now EXCEPT !.c = d]
<1>2. /\ capture.building /\ capture.inFlight = <<>> /\ session.captureStarted
      /\ capture.stage \notin {"unused", "discovering"}
  BY <1>1, NowParts, Zenon DEF EncoderBuilt, DrainInv, Unused, RateInv
<1>3. w = [Now EXCEPT !.c.building = FALSE, !.c.changing = FALSE, !.c.replacement = 0]
  BY <1>1, NowParts, Zenon DEF World
<1>4. d \in Capture /\ d.tap = capture.tap /\ d.inFlight = capture.inFlight /\ d.stopping = capture.stopping
      /\ ~d.changing /\ ~d.building
  BY <1>1, Zenon DEF Capture
<1>5. w \in World /\ w.s = session /\ w.c = d /\ w.t = tap /\ w.v = video
  BY <1>1, <1>4, NowParts, Zenon DEF World
<1>6. IF capture.stopping THEN Becomes(FinishCapture(w))
      ELSE \E encoder \in {0, b} : \E done \in BitrateChanged(NewEncoder(w, encoder), b) : Becomes(done)
  BY <1>3, Zenon DEF EncoderBuilt
<1> HIDE DEF w
<1>7. Full(w)
  <2>1. TapInv(d, tap)
    BY <1>1, Zenon DEF TapInv, Capture
  <2>2. DrainInv(w)
    BY <1>1, <1>2, <1>5, NowParts DEF DrainInv, CaptureIdle, Capture
  <2>3. RateInv(w)
    BY <1>1, <1>2, <1>5, NowParts DEF RateInv, Capture
  <2> QED BY <1>1, <1>4, <1>5, <2>1, <2>2, <2>3, NowParts, Zenon DEF Full, Base, KeyInv
<1>8. CASE capture.stopping
  <2>1. ~Live(session)
    BY <1>1, <1>2, <1>8, NowParts, Zenon DEF DrainInv
  <2>2. RunInv(w) /\ ChainInv(w)
    BY <1>4, <1>5, <1>8, <2>1, Zenon DEF RunInv, ChainInv
  <2>3. Apart(Now, w) /\ Alike(Now.s, w.s)
    BY <1>4, <1>5, NowParts, Zenon DEF Apart, Alike
  <2>4. Step(Now, FinishCapture(w))
    BY <1>1, <1>2, <1>5, <1>7, <2>2, <2>3, FinishedStep, Zenon DEF Good
  <2> QED BY <1>6, <1>8, <2>4, NowStep, Zenon
<1>9. CASE ~capture.stopping
  <2>1. session.state = "Streaming" /\ b \in Bitrates
    BY <1>1, <1>2, <1>9, NowParts, Zenon DEF DrainInv, RunInv, RateInv, Capture
  <2>2. PICK encoder \in {0, b} : \E done \in BitrateChanged(NewEncoder(w, encoder), b) : Becomes(done)
    BY <1>6, <1>9, Zenon
  <2> DEFINE e == [d EXCEPT !.encoder = encoder]
             u == [w EXCEPT !.c = e]
             x == RequestKey(u)
  <2>3. PICK r \in BitrateChanged(x, b) : Becomes(r)
    BY <2>2, <1>5, Zenon DEF NewEncoder
  <2>4. /\ e \in Capture /\ e.tap = capture.tap /\ e.inFlight = <<>> /\ ~e.changing /\ e.encoder = encoder
    BY <1>2, <1>4, <2>1, <2>2, ZenonT(60) DEF Capture
  <2>5. u \in World /\ u.s = session /\ u.c = e /\ u.t = tap /\ u.v = video
    BY <1>5, <2>4, Zenon DEF World
  <2> HIDE DEF u
  <2>6. TapInv(e, tap)
    BY <1>4, <1>5, <1>7 DEF Full, Base, TapInv, Capture
  <2>7. DrainInv(u)
    BY <1>2, <1>4, <1>5, <1>7, <2>5, SMTT(60) DEF Full, Base, DrainInv, CaptureIdle, Capture
  <2>8. RateInv(u)
    BY <1>1, <1>2, <1>4, <1>5, <1>7, <2>4, <2>5 DEF Full, Base, RateInv, Capture
  <2>9. x \in World /\ x.s = session /\ x.c = e /\ x.v.encoding = video.encoding /\ Base(x) /\ ChainInv(x)
    BY <2>5, <2>6, <2>7, <2>8, RequestKeyKeeps, Zenon DEF Base
  <2> HIDE DEF e, x, d, b
  <2>10. Full(x)
    BY <1>1, <1>2, <2>4, <2>9, NowParts, Zenon DEF Full, KeyInv
  <2>11. Alike(Now.s, x.s) /\ Apart(Now, x)
    BY <2>4, <2>9, NowParts, Zenon DEF Alike, Apart
  <2>12. Step(Now, r)
    BY <1>1, <2>1, <2>2, <2>3, <2>4, <2>9, <2>10, <2>11, BitrateChangedStep, Zenon
  <2> QED BY <2>3, <2>12, NowStep, Zenon
<1> QED BY <1>8, <1>9, Zenon

\* The beginning of a bitrate change makes a step.
LEMMA ChangeEncoderStep ==
  ASSUME NEW z \in World, NEW x \in World, Good(x), Alike(z.s, x.s), Apart(z, x),
         x.s.state = "Streaming", x.s.changingBitrate, NEW b \in Bitrates
  PROVE  Step(z, ChangeEncoder(x, b))
<1>1. x.s \in Session /\ x.c \in Capture /\ b # 0
  BY StreamAssumption, Zenon DEF World
<1>2. CASE MayChange(x.c)
  <2> DEFINE d == [x.c EXCEPT !.changing = TRUE, !.replacement = b]
             y == [x EXCEPT !.c = d]
  <2>1. ChangeEncoder(x, b) = ReplaceWhenDrained(y)
    BY <1>2, Zenon DEF ChangeEncoder, World
  <2>2. d \in Capture /\ d.tap = x.c.tap /\ d.changing /\ d.replacement = b
    BY <1>1, Zenon DEF Capture
  <2>3. y \in World /\ y.s = x.s /\ y.c = d /\ y.t = x.t /\ y.v = x.v
    BY <2>2, Zenon DEF World
  <2>4. x.s.captureStarted /\ x.c.stage \notin {"unused", "discovering"}
    BY <1>2, Zenon DEF Good, Full, Base, DrainInv, RateInv, MayChange
  <2> HIDE DEF y
  <2>5. TapInv(d, x.t)
    BY <1>1, Zenon DEF Good, Full, Base, TapInv, Capture
  <2>6. DrainInv(y)
    BY <1>1, <2>3, <2>4 DEF Good, Full, Base, DrainInv, CaptureIdle, Capture
  <2>7. RateInv(y)
    BY <1>1, <2>3, <2>4 DEF Good, Full, Base, RateInv, Capture
  <2>8. RunInv(y)
    BY <1>1, <2>2, <2>3, Zenon DEF RunInv
  <2>9. Good(y)
    BY <1>1, <2>3, <2>5, <2>6, <2>7, <2>8, ZenonT(60)
       DEF Good, Full, Base, KeyInv, ChainInv, Capture
  <2> HIDE DEF d
  <2>10. /\ Good(ReplaceWhenDrained(y)) /\ ReplaceWhenDrained(y).s = x.s
         /\ ReplaceWhenDrained(y).c.tap = x.c.tap
    BY <2>2, <2>3, <2>9, ReplaceGood, Zenon
  <2> QED BY <2>1, <2>10, Zenon DEF Step, LifeStep, Alike, Apart
<1>3. CASE ~MayChange(x.c)
  <2> DEFINE e == [x.s EXCEPT !.changingBitrate = FALSE]
             y == [x EXCEPT !.s = e]
  <2>1. ChangeEncoder(x, b) = StopOnQueue(y)
    BY <1>3, Zenon DEF ChangeEncoder, World
  <2>2. RatesMove(x.s, e)
    BY <1>1, Zenon DEF Good, Full, Base, RateInv, RatesMove, Session
  <2> HIDE DEF e
  <2>3. y \in World /\ y.s = e /\ y.c = x.c /\ Full(y)
    BY <2>2, RatesMoved, Zenon DEF Good
  <2> HIDE DEF y
  <2>4. Alike(z.s, y.s) /\ Apart(z, y)
    BY <2>2, <2>3, Zenon DEF RatesMove, Alike, Apart
  <2> QED BY <2>1, <2>3, <2>4, StoppedStep, Zenon
<1> QED BY <1>2, <1>3, Zenon

\* Applying a pending bitrate makes a step, whether one is pending or not.
LEMMA AppliedStep ==
  ASSUME NEW z \in World, NEW w \in World, Good(w), Alike(z.s, w.s), Apart(z, w),
         w.s.state = "Streaming", NEW r \in Applied(w)
  PROVE  Step(z, r)
<1> DEFINE b == w.s.pendingBitrate
           e == [w.s EXCEPT !.pendingBitrate = 0]
           taken == [w EXCEPT !.s = e]
           f == [e EXCEPT !.changingBitrate = TRUE]
           x == [taken EXCEPT !.s = f]
<1>1. w.s \in Session /\ w.s.transportRate = w.s.bitrate
  BY Zenon DEF World, Good, Full, Base, RateInv
<1>2. RatesMove(w.s, e) /\ e.bitrate = w.s.bitrate /\ e.changingBitrate = w.s.changingBitrate
  BY <1>1, Zenon DEF RatesMove, Session
<1>3. /\ RatesMove(w.s, f) /\ RatesMove(e, f) /\ f.bitrate = w.s.bitrate /\ f.changingBitrate
  BY <1>1, <1>2, Zenon DEF RatesMove, Session
<1>4. taken = [w EXCEPT !.s.pendingBitrate = 0] /\ x = [taken EXCEPT !.s.changingBitrate = TRUE]
  <2>1. taken = [w EXCEPT !.s.pendingBitrate = 0]
    BY Zenon
  <2>2. taken.s = e
    BY <1>2, Zenon DEF World
  <2> HIDE DEF taken, e
  <2> QED BY <2>1, <2>2, Zenon
<1>5. /\ taken \in World /\ taken.s = e /\ taken.c = w.c /\ Full(taken) /\ ChainInv(taken)
  BY <1>2, RatesMoved DEF Good
<1>6. /\ x \in World /\ x.s = f /\ x.c = w.c /\ Full(x) /\ ChainInv(x)
  <2> HIDE DEF taken, f, e
  <2> QED BY <1>3, <1>5, RatesMoved
<1>7. MayApply(w.s) => b \in Bitrates
  BY <1>1, Zenon DEF MayApply, Session
<1> HIDE DEF taken, x
<1>8. \/ r = w
      \/ r = taken \/ r = StopOnQueue(taken)
      \/ MayApply(w.s) /\ r = ChangeEncoder(x, b)
  BY <1>4, Zenon DEF Applied, Acknowledged
<1> HIDE DEF e, f
<1>9. RunInv(taken) /\ RunInv(x)
  BY <1>2, <1>3, <1>5, <1>6, ZenonT(60) DEF Good, RunInv, RatesMove, Live
<1>10. /\ Alike(z.s, taken.s) /\ Apart(z, taken) /\ Alike(z.s, x.s) /\ Apart(z, x)
       /\ x.s.state = "Streaming"
  BY <1>2, <1>3, <1>5, <1>6 DEF RatesMove, Alike, Apart
<1>11. Step(z, w) /\ Step(z, taken)
  BY <1>5, <1>9, <1>10, Zenon DEF Step, Good, LifeStep
<1>12. Step(z, StopOnQueue(taken))
  BY <1>5, <1>10, StoppedStep, Zenon
<1>13. MayApply(w.s) => Step(z, ChangeEncoder(x, b))
  BY <1>3, <1>6, <1>7, <1>9, <1>10, ChangeEncoderStep, Zenon DEF Good
<1> QED BY <1>8, <1>11, <1>12, <1>13, Zenon

\* The tick of a running stream makes a step: the input messages, a request for
\* a key frame, a bitrate.
LEMMA TickStreamsStep ==
  ASSUME Good(Now), NEW key \in BOOLEAN, NEW bitrate \in Bitrates \cup {0}, NEW due \in BOOLEAN,
         TickStreams(key, bitrate, due)
  PROVE  Step(Now, Now')
<1>1. Now \in World /\ session \in Session /\ Full(Now)
  BY GoodNow, Zenon
<1> DEFINE asked == IF key THEN RequestKey(Now) ELSE Now
           e == IF bitrate = 0 THEN session ELSE [session EXCEPT !.pendingBitrate = bitrate]
           w == [asked EXCEPT !.s = e]
<1>2. /\ asked \in World /\ asked.s = session /\ asked.c = capture /\ Good(asked)
  <2>1. CASE key
    BY <1>1, <2>1, NowParts, RequestKeyKeeps, Zenon DEF Good, Full, KeyInv
  <2>2. CASE ~key
    BY <1>1, <2>2, NowParts, Zenon
  <2> QED BY <2>1, <2>2, Zenon
<1> HIDE DEF asked
<1>3. Requested(Now, key, bitrate) = w
  BY <1>2, Zenon DEF Requested, asked, World
<1>4. session.state = "Streaming" /\ \E done \in IF due THEN Applied(w) ELSE {w} : Becomes(done)
  BY <1>3, Zenon DEF TickStreams
<1>5. RatesMove(session, e) /\ e.changingBitrate = session.changingBitrate /\ e.bitrate = session.bitrate
  BY <1>1, GoodNow, NowParts, ZenonT(60) DEF RatesMove, Session, RateInv
<1>6. w \in World /\ w.s = e /\ w.c = capture /\ Full(w) /\ ChainInv(w)
  BY <1>2, <1>5, RatesMoved DEF Good
<1> HIDE DEF w, e
<1>7. RunInv(w)
  BY <1>2, <1>5, <1>6, ZenonT(60) DEF Good, RunInv, RatesMove, Live
<1>8. Good(w) /\ Alike(Now.s, w.s) /\ Apart(Now, w) /\ w.s.state = "Streaming"
  BY <1>4, <1>5, <1>6, <1>7, NowParts, Zenon
     DEF Good, Alike, Apart, RatesMove
<1>9. Step(Now, w)
  BY <1>8, Zenon DEF Step, LifeStep
<1>10. \A r \in Applied(w) : Step(Now, r)
  BY <1>1, <1>6, <1>8, AppliedStep, Zenon
<1> QED BY <1>4, <1>9, <1>10, NowStep, Zenon

\* The inductive invariant of the stream.
StreamInv == Good(Now)

\* A new stream has the invariant.
LEMMA StreamStart ==
  Init => StreamInv
<1> SUFFICES ASSUME Init PROVE Good(Now)
  BY Zenon DEF StreamInv
<1>1. /\ session \in Session /\ session.state = "Prepared" /\ session.endpoint = "idle"
      /\ ~session.captureStarted /\ ~session.captureDrained /\ session.worker = "none"
      /\ session.transportRate = session.bitrate
  BY StreamAssumption, Zenon DEF Init, Session
<1>2. /\ capture \in Capture
      /\ capture.stage = "unused" /\ capture.inFlight = <<>> /\ capture.encoder = 0
      /\ ~capture.hasStream /\ ~capture.building /\ ~capture.changing /\ ~capture.tap
      /\ ~capture.stopAwaited /\ ~capture.stopping /\ capture.audioStopped /\ ~capture.restartTimer
      /\ ~capture.restartPending /\ ~capture.audioReady /\ ~capture.drained
  BY StreamAssumption DEF Init, Capture
<1>3. tap \in Tap /\ Fresh(tap) /\ ~tap.stopped /\ tap.destroy = "none"
  BY DEF Init, Tap, NewTap, Fresh
<1>4. video \in Video /\ video.requested /\ ~video.encoding
  BY Zenon DEF Init, Video
<1>5. Now \in World
  BY <1>1, <1>2, <1>3, <1>4, Zenon DEF Now, World
<1>6. TapInv(capture, tap)
  BY <1>2, <1>3, Zenon DEF TapInv, Fresh
<1>7. DrainInv(Now)
  BY <1>1, <1>2, <1>3, <1>4, NowParts, ZenonT(60) DEF DrainInv, Unused, Live
<1>8. RateInv(Now) /\ KeyInv(Now) /\ RunInv(Now) /\ ChainInv(Now)
  BY <1>1, <1>2, <1>4, NowParts DEF RateInv, KeyInv, RunInv, ChainInv
<1>9. Len(capture.inFlight) <= MaxInFlight
  BY <1>2, StreamAssumption
<1> QED BY <1>5, <1>6, <1>7, <1>8, <1>9, NowParts, Zenon DEF Good, Full, Base

\* Every step of Next keeps the invariant, moves the session as StreamLife lets
\* it, and makes no tap beside another.
LEMMA StreamStep ==
  ASSUME StreamInv, [Next]_vars
  PROVE  Step(Now, Now')
<1>0. Good(Now)
  BY Zenon DEF StreamInv
<1>1. CASE SessionNext
  <2>1. CASE Start
    BY <1>0, <2>1, StartStep, Zenon
  <2>2. ASSUME NEW callback \in BOOLEAN, Stop(callback) PROVE Step(Now, Now')
    BY <1>0, <2>2, StopStep, Zenon
  <2>3. CASE TickStops
    BY <1>0, <2>3, StopNowStep, Zenon DEF TickStops
  <2>4. CASE TickReady
    BY <1>0, <2>4, TickReadyStep, Zenon
  <2>5. ASSUME NEW key \in BOOLEAN, NEW due \in BOOLEAN, NEW bitrate \in Bitrates \cup {0},
               TickStreams(key, bitrate, due)
        PROVE  Step(Now, Now')
    BY <1>0, <2>5, TickStreamsStep, Zenon
  <2> QED BY <1>1, <2>1, <2>2, <2>3, <2>4, <2>5, Zenon DEF SessionNext
<1>2. CASE WorkerNext
  BY <1>0, <1>2, WorkerStep, Zenon
<1>3. CASE CaptureNext
  <2>1. CASE CaptureFails
    BY <1>0, <2>1, StopNowStep, Zenon DEF CaptureFails
  <2> QED BY <1>0, <1>3, <2>1, DiscoveredStep, CaptureStartedStep, CaptureStoppedStep,
             FrameCapturedStep, FrameEncodedStep, EncoderBuiltStep, Zenon DEF CaptureNext
<1>4. CASE AudioNext
  BY <1>0, <1>4, TapControlStep, TapAnswersStep, TapFailsStep, TapStoppedStep,
     AudioRestartsStep, Zenon
  DEF AudioNext
<1>5. CASE EndpointReady \/ EndpointFails \/ LeaseEnds
  BY <1>0, <1>5, OutsideStep, Zenon
<1>6. CASE UNCHANGED vars
  <2>1. Now' = Now
    BY <1>6, Zenon DEF Now, vars
  <2> QED BY <1>0, <2>1, Zenon DEF Step, LifeStep, Alike, Apart
<1> QED BY <1>1, <1>2, <1>3, <1>4, <1>5, <1>6, Zenon DEF Next

\* The invariant holds in every run of the stream.
THEOREM StreamInvariant == Spec => []StreamInv
<1>1. StreamInv /\ [Next]_vars => StreamInv'
  <2> SUFFICES ASSUME StreamInv, [Next]_vars PROVE StreamInv'
    BY Zenon
  <2>1. Good(Now')
    BY StreamStep, Zenon DEF Step
  <2> QED BY <2>1, Zenon DEF StreamInv
<1> QED BY StreamStart, <1>1, PTL DEF Spec

\* The session, the capture, the tap and the recovery state stay in their types,
\* the frames in flight within the encoder's limit.
THEOREM StreamTyped == Spec => []TypeOK
<1>1. StreamInv => TypeOK
  BY GoodNow, NowParts, Zenon DEF StreamInv, TypeOK, Good, Full
<1> QED BY StreamInvariant, <1>1, PTL

\* Nothing after the drain: once finishStop has freed the endpoint no input,
\* frame, encoder under construction or audio IO uses it, and once the capture
\* is drained no tap runs or comes to run, however late the consent dialog is
\* answered.
THEOREM DrainIsLast == Spec => []NothingAfterDrain
<1>1. StreamInv => NothingAfterDrain
  <2> SUFFICES ASSUME Good(Now) PROVE NothingAfterDrain
    BY Zenon DEF StreamInv
  <2>1. /\ TapInv(capture, tap) /\ DrainInv(Now)
    BY GoodNow, Zenon
  <2>2. capture.audioStopped => ~tap.running /\ tap.control # "activate"
    BY <2>1, GoodNow, Zenon DEF TapInv, Fresh, Tap
  <2>3. EndpointOutlivesUse
    BY <2>1, <2>2, NowParts, Zenon
       DEF EndpointOutlivesUse, DrainInv, CaptureIdle, Unused, InputLeft
  <2>4. NoAudioAfterDrain
    BY <2>1, <2>2, NowParts, Zenon DEF NoAudioAfterDrain, DrainInv, CaptureIdle
  <2> QED BY <2>3, <2>4, Zenon DEF NothingAfterDrain
<1> QED BY StreamInvariant, <1>1, PTL

\* No frame crosses a bitrate change: setBitrate replaces the encoder only when
\* none is in flight, and outside a change the session, the encoder and the
\* transport have one bitrate.
THEOREM BitrateIsOne == Spec => []OneBitrate
<1>1. StreamInv => OneBitrate
  <2> SUFFICES ASSUME Good(Now) PROVE OneBitrate
    BY Zenon DEF StreamInv
  <2>1. DrainInv(Now) /\ RateInv(Now) /\ RunInv(Now)
    BY GoodNow, Zenon
  <2>2. capture.hasStream /\ ~capture.stopping => Live(session)
    BY <2>1, NowParts, Zenon DEF DrainInv, Unused
  <2>3. FramesMatchEncoder
    BY <2>1, <2>2, NowParts, Zenon DEF FramesMatchEncoder, RateInv, RunInv
  <2>4. BitratesAgree
    BY <2>1, NowParts, Zenon DEF BitratesAgree, RateInv, RunInv, Live
  <2> QED BY <2>3, <2>4, Zenon DEF OneBitrate
<1> QED BY StreamInvariant, <1>1, PTL

\* Key frame recovery neither stays on, suppressing every later one, nor stops
\* short: the flag is set exactly while a forced key is with the encoder, and
\* sendSample lets a delta through only on a whole chain.
THEOREM RecoveryIsSound == Spec => []RecoverySound
<1>1. StreamInv => RecoverySound
  BY GoodNow, NowParts, Zenon
     DEF StreamInv, RecoverySound, RecoveryNotStuck, ChainIntact, KeyInv, ChainInv
<1> QED BY StreamInvariant, <1>1, PTL

\* A restart of audio makes a tap only when the tap before it is destroyed and
\* does not run.
THEOREM TapsApart == Spec => TapsDoNotOverlap
<1>1. StreamInv /\ [Next]_vars
        => [capture'.tap /\ ~capture.tap => tap.destroy \in {"none", "done"} /\ ~tap.running]_vars
  <2> SUFFICES ASSUME StreamInv, [Next]_vars
               PROVE  capture'.tap /\ ~capture.tap => tap.destroy \in {"none", "done"} /\ ~tap.running
    BY Zenon
  <2>1. Apart(Now, Now')
    BY StreamStep, Zenon DEF Step
  <2> QED BY <2>1, Zenon DEF Apart, Now
<1> QED BY StreamInvariant, <1>1, PTL DEF Spec, TapsDoNotOverlap

\* The stream implements the safety part of StreamLife: its states in order, no
\* lease once it stops, and one answer to those who wait for the stop.
THEOREM StreamImplementsLife == Spec => Life!Spec
<1>1. Init => Life!Init
  BY DEF Init, Life!Init
<1>2. StreamInv /\ [Next]_vars => [Life!Next]_(Life!life)
  <2> SUFFICES ASSUME StreamInv, [Next]_vars PROVE [Life!Next]_(Life!life)
    BY Zenon
  <2>1. LifeStep(session, session') /\ session' \in Session
    BY StreamStep, Zenon DEF Step, Now, Good, Full, World
  <2> QED BY <2>1, Zenon
            DEF LifeStep, Alike, Live, Session, Life!Next, Life!Start, Life!Run, Life!Lose,
                      Life!End, Life!Ask, Life!Drain, Life!life
<1> QED BY StreamInvariant, <1>1, <1>2, PTL DEF Spec, Life!Spec
==============================================================================
