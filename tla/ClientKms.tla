------------------------------ MODULE ClientKms ------------------------------
(***************************************************************************)
(* probes/video/plank-probe-client-kms.cpp: decode a bitstream and scan it *)
(* out by page flips.  The streaming thread holds frame 2 back until the   *)
(* first frame is on screen (phase_ready) and later frames until frame 2   *)
(* has flipped (steady_phase_ready); display_worker flips behind a         *)
(* one-sample slot; main waits for the pipeline's message.  The decoder    *)
(* may hold frames back and reuses a buffer once its sample is released.   *)
(* Times are left out: late and paced are choices.                         *)
(***************************************************************************)
EXTENDS Integers, Sequences

CONSTANTS Buffers,          \* the decoder's pool
          StreamFrames,     \* access units in the bitstream
          DecoderDepth,     \* frames the decoder may hold
          ExpectedFrames    \* values of FRAME_COUNT considered

VARIABLES
  expected, main, stream, worker,
  asleep,                   \* threads blocked in a condition variable
  drm,                      \* closed, open or master
  submitted, submit_queue,
  decoding,                 \* the frames inside the decoder
  lost,                     \* frames the decoder swallowed
  ended,                    \* downstream has returned EOS
  bus, pulled, ready_sample, next, current,   \* samples, in the order they move
  producer_done, worker_stop, failed, reached_eos,
  phase_ready, steady_phase_ready,
  framebuffer_cache,        \* buffers with a framebuffer
  screen,                   \* buffers being scanned out or about to be
  live,                     \* buffers whose sample is referenced
  abandoned,                \* history: buffers released by a display call that
                            \* failed after it gave them to the screen
  missed,                   \* history: a failure was announced between the
                            \* streaming thread's check and its sleep
  queued, displayed, stale,
  measured,                 \* recorded flips: the frame and its stamp
  code

source == <<submitted, submit_queue, decoding, lost, ended>>
phase == <<phase_ready, steady_phase_ready>>
output == <<framebuffer_cache, screen, abandoned, displayed, stale, measured, phase>>
vars == <<expected, main, stream, worker, asleep, drm, source, bus, pulled, ready_sample,
          next, current, producer_done, worker_stop, failed, missed, reached_eos, output,
          live, queued, code>>

Nothing == [frame |-> 0, stamp |-> 0, buffer |-> 0]

Init ==
  /\ expected \in ExpectedFrames
  /\ main = "drm" /\ stream = "off" /\ worker = "off" /\ asleep = {} /\ drm = "closed"
  /\ submitted = 0 /\ submit_queue = <<>> /\ decoding = <<>> /\ lost = {} /\ ended = FALSE
  /\ bus = "none" /\ pulled = Nothing /\ ready_sample = Nothing /\ next = Nothing
  /\ current = Nothing
  /\ producer_done = FALSE /\ worker_stop = FALSE /\ failed = FALSE /\ reached_eos = FALSE
  /\ phase_ready = FALSE /\ steady_phase_ready = FALSE
  /\ framebuffer_cache = {} /\ screen = {} /\ live = {} /\ abandoned = {} /\ missed = FALSE
  /\ queued = 0 /\ displayed = 0 /\ stale = 0 /\ measured = <<>> /\ code = -1

-----------------------------------------------------------------------------
(* main.                                                                   *)

threads == <<stream, worker, asleep, source, bus, pulled, ready_sample, next, current,
             failed, missed, live, queued>>
ends == <<producer_done, worker_stop, reached_eos>>

\* FRAME_COUNT is refused, or the device cannot be opened and mastered or
\* has no 60 Hz output: every path closes it.
OpenDevice ==
  /\ main = "drm"
  /\ \/ expected = 0 /\ main' = "exited" /\ code' = 2 /\ UNCHANGED drm
     \/ expected # 0 /\ main' = "exited" /\ code' = 3 /\ UNCHANGED drm
     \/ expected # 0 /\ main' = "pipeline" /\ drm' = "master" /\ UNCHANGED code
  /\ UNCHANGED <<expected, threads, ends, output>>

\* A description that does not parse; or the worker starts and the pipeline
\* plays.  Unlike its sibling this main asks for no message after a failed
\* state change.
StartPipeline ==
  /\ main = "pipeline"
  /\ \/ /\ main' = "exited" /\ code' = 4 /\ drm' = "closed"
        /\ UNCHANGED <<worker, stream, reached_eos>>
     \/ /\ worker' = "wait"
        /\ \/ main' = "bus" /\ stream' = "idle" /\ reached_eos' = TRUE
           \/ main' = "stop" /\ UNCHANGED <<stream, reached_eos>>
        /\ UNCHANGED <<code, drm>>
  /\ UNCHANGED <<expected, asleep, source, bus, pulled, ready_sample, next, current,
                 producer_done, worker_stop, failed, missed, output, live, queued>>

WaitBus ==
  /\ main = "bus" /\ bus # "none"
  /\ main' = "stop" /\ reached_eos' = (bus = "eos")
  /\ UNCHANGED <<expected, threads, producer_done, worker_stop, output, drm, code>>

\* Wakes the waiters of ready_available and ready_consumed only.
OnSlot == (IF stream = "handoff" THEN {"stream"} ELSE {}) \union {"worker"}

StopWorker ==
  /\ main = "stop"
  /\ main' = "join" /\ producer_done' = TRUE
  /\ worker_stop' = (worker_stop \/ ~reached_eos)
  /\ asleep' = asleep \ OnSlot
  /\ UNCHANGED <<expected, stream, worker, source, bus, pulled, ready_sample, next, current,
                 failed, missed, reached_eos, output, live, queued, drm, code>>

\* Mutant: the output is left showing the last frame.
JoinWithoutBlank ==
  /\ main = "join" /\ worker = "exited" /\ stream \in {"off", "done"}
  /\ main' = "release"
  /\ UNCHANGED <<expected, threads, ends, output, drm, code>>

\* The worker, the pipeline, then the CRTC.
JoinAndBlank ==
  /\ main = "join" /\ worker = "exited" /\ stream \in {"off", "done"}
  /\ main' = "release" /\ screen' = {}
  /\ UNCHANGED <<expected, threads, ends, framebuffer_cache, abandoned, displayed, stale,
                 measured, phase, drm, code>>

\* The current frame, the cache, the device; then the gates, of which paced
\* stands for the frame rate, the missed refreshes and the latency.
ReleaseAll ==
  /\ main = "release"
  /\ live' = live \ {current.buffer} /\ current' = Nothing
  /\ framebuffer_cache' = {} /\ drm' = "closed" /\ main' = "exited"
  /\ \E paced \in BOOLEAN :
       code' = IF /\ reached_eos /\ ~failed /\ displayed = expected
                  /\ Len(measured) + 1 = expected /\ stale = 0 /\ paced
               THEN 0 ELSE 1
  /\ UNCHANGED <<expected, stream, worker, asleep, source, bus, pulled, ready_sample, next,
                 failed, missed, ends, screen, abandoned, displayed, stale, measured, phase,
                 queued>>

-----------------------------------------------------------------------------
(* The streaming thread.                                                   *)

rest == <<expected, main, worker, drm, ends, output, missed, next, current, code>>

Ends(message) == stream' = "done" /\ bus' = IF bus = "none" THEN message ELSE bus

\* The pad probe counts the frame; making the buffer writable may fail.
DecoderInput ==
  /\ stream = "idle" /\ ~ended /\ Len(decoding) < DecoderDepth /\ submitted < StreamFrames
  /\ submitted' = submitted + 1
  /\ \/ stream' = (IF submitted = 0 THEN "stamp" ELSE "phase") /\ UNCHANGED failed
     \/ failed' = TRUE /\ UNCHANGED stream
  /\ UNCHANGED <<rest, asleep, submit_queue, decoding, lost, ended, bus, pulled,
                 ready_sample, live, queued>>

PhaseReady == (IF submitted = 2 THEN phase_ready ELSE steady_phase_ready) \/ failed

\* phase_available.wait: the predicate is evaluated, then the thread sleeps;
\* phase_mutex is held in between.
PhaseCheck ==
  /\ stream = "phase" /\ "stream" \notin asleep
  /\ stream' = IF ~PhaseReady THEN "phase_sleep" ELSE IF failed THEN "idle" ELSE "schedule"
  /\ UNCHANGED <<rest, asleep, source, bus, pulled, ready_sample, failed, live, queued>>

PhaseSleep ==
  /\ stream = "phase_sleep"
  /\ stream' = "phase" /\ asleep' = asleep \union {"stream"}
  /\ UNCHANGED <<rest, source, bus, pulled, ready_sample, failed, live, queued>>

\* The absolute sleep until the frame's wake time may fail.
Schedule ==
  /\ stream = "schedule"
  /\ \/ stream' = "stamp" /\ UNCHANGED failed
     \/ stream' = "idle" /\ failed' = TRUE
  /\ UNCHANGED <<rest, asleep, source, bus, pulled, ready_sample, live, queued>>

Stamp ==
  /\ stream = "stamp"
  /\ submit_queue' = Append(submit_queue, submitted)
  /\ decoding' = Append(decoding, submitted) /\ stream' = "idle"
  /\ UNCHANGED <<rest, asleep, submitted, lost, ended, bus, pulled, ready_sample, failed,
                 live, queued>>

\* The decoder swallows a frame, or gives up.
DecoderFault ==
  /\ stream = "idle" /\ decoding # <<>> /\ decoding' = Tail(decoding)
  /\ \/ lost' = lost \union {Head(decoding)} /\ UNCHANGED <<stream, bus>>
     \/ Ends("error") /\ UNCHANGED lost
  /\ UNCHANGED <<rest, asleep, submitted, submit_queue, ended, pulled, ready_sample, failed,
                 live, queued>>

\* The file or downstream has ended and the decoder is empty.
PostEos ==
  /\ stream = "idle" /\ decoding = <<>> /\ (ended \/ submitted = StreamFrames)
  /\ Ends("eos")
  /\ UNCHANGED <<rest, asleep, source, pulled, ready_sample, failed, live, queued>>

\* Mutant: the oldest stamp, whichever frame this is.
OldestStamp == IF submit_queue = <<>> THEN {} ELSE {1}

\* The stamp whose timestamp is this frame's.
MatchingStamp == {i \in DOMAIN submit_queue : submit_queue[i] = Head(decoding)}

\* on_new_sample takes the matching stamp and drops the older ones with it;
\* or the sink has no sample, or the sample no known timestamp.
NewSample ==
  /\ stream = "idle" /\ decoding # <<>> /\ decoding' = Tail(decoding)
  /\ \/ \E i \in MatchingStamp, b \in Buffers \ live :
          /\ pulled' = [frame |-> Head(decoding), stamp |-> submit_queue[i], buffer |-> b]
          /\ live' = live \union {b}
          /\ submit_queue' = SubSeq(submit_queue, i + 1, Len(submit_queue))
          /\ stream' = "handoff" /\ UNCHANGED <<failed, bus>>
     \/ /\ \E pulledOne \in BOOLEAN : failed' = (failed \/ pulledOne)
        /\ Ends("error")
        /\ UNCHANGED <<submit_queue, pulled, live>>
  /\ UNCHANGED <<rest, asleep, submitted, lost, ended, ready_sample, queued>>

HandOff ==
  /\ stream = "handoff" /\ "stream" \notin asleep
  /\ \/ /\ worker_stop
        /\ live' = live \ {pulled.buffer} /\ pulled' = Nothing /\ Ends("error")
        /\ UNCHANGED <<asleep, ready_sample, queued, ended>>
     \/ /\ ~worker_stop /\ ready_sample = Nothing
        /\ ready_sample' = pulled /\ pulled' = Nothing /\ queued' = queued + 1
        /\ asleep' = asleep \ {"worker"}
        /\ stream' = "idle" /\ ended' = (ended \/ queued + 1 >= expected)
        /\ UNCHANGED <<live, bus>>
     \/ /\ ~worker_stop /\ ready_sample # Nothing
        /\ asleep' = asleep \union {"stream"}
        /\ UNCHANGED <<stream, bus, live, pulled, ready_sample, queued, ended>>
  /\ UNCHANGED <<rest, submitted, submit_queue, decoding, lost, failed>>

-----------------------------------------------------------------------------
(* display_worker.                                                         *)

others == <<expected, main, drm, source, bus, pulled, producer_done, reached_eos, queued,
            code>>

WorkerTake ==
  /\ worker = "wait" /\ "worker" \notin asleep
  /\ \/ /\ worker_stop
        /\ live' = live \ {ready_sample.buffer} /\ ready_sample' = Nothing
        /\ asleep' = asleep \ OnSlot /\ worker' = "exited" /\ UNCHANGED next
     \/ /\ ~worker_stop /\ ready_sample # Nothing
        /\ next' = ready_sample /\ ready_sample' = Nothing /\ worker' = "display"
        /\ asleep' = asleep \ OnSlot /\ UNCHANGED live
     \/ /\ ~worker_stop /\ ready_sample = Nothing
        /\ \/ producer_done /\ worker' = "exited" /\ UNCHANGED asleep
           \/ ~producer_done /\ asleep' = asleep \union {"worker"} /\ UNCHANGED worker
        /\ UNCHANGED <<next, ready_sample, live>>
  /\ UNCHANGED <<others, stream, current, worker_stop, failed, missed, output>>

\* phase_available.notify_all wakes a thread that is asleep, not one that is
\* about to sleep.
NotifyPhase == asleep' = IF stream = "phase" THEN asleep \ {"stream"} ELSE asleep

\* display_sample releases next and returns false, although the screen may
\* have the buffer (given).
Fail(given) ==
  /\ live' = live \ {next.buffer} /\ next' = Nothing
  /\ abandoned' = abandoned \union (given \cap {next.buffer})
  /\ worker' = "failing"
  /\ UNCHANGED <<failed, asleep, current, displayed, measured, phase>>

\* The worker sets failed, without phase_mutex.
SetFailed ==
  /\ worker = "failing"
  /\ failed' = TRUE /\ worker' = "notify"
  /\ UNCHANGED <<others, stream, asleep, ready_sample, next, current, worker_stop, missed,
                 output, live>>

\* Mutant: nobody is told of the failure.
NotifyFailedSilently ==
  /\ worker = "notify"
  /\ worker' = "stop"
  /\ UNCHANGED <<others, stream, asleep, ready_sample, next, current, worker_stop, failed,
                 missed, output, live>>

\* It announces the failure, also without phase_mutex; worker_stop follows.
NotifyFailed ==
  /\ worker = "notify"
  /\ NotifyPhase /\ missed' = (stream = "phase_sleep") /\ worker' = "stop"
  /\ UNCHANGED <<others, stream, ready_sample, next, current, worker_stop, failed, output,
                 live>>

\* Mutant: the failed worker does not wake the slot's waiters.
StopSilently ==
  /\ worker = "stop"
  /\ worker_stop' = TRUE /\ worker' = "exited"
  /\ UNCHANGED <<others, stream, asleep, ready_sample, next, current, failed, missed, output,
                 live>>

Stop ==
  /\ worker = "stop"
  /\ worker_stop' = TRUE /\ asleep' = asleep \ OnSlot /\ worker' = "exited"
  /\ UNCHANGED <<others, stream, ready_sample, next, current, failed, missed, output, live>>

\* A frame whose refresh has passed is dropped; frame 2 never is, for no flip
\* is recorded before its own.
DropStale ==
  /\ current # Nothing /\ next.frame > 2
  /\ stale' = stale + 1 /\ live' = live \ {next.buffer} /\ next' = Nothing
  /\ worker' = "wait"
  /\ UNCHANGED <<failed, asleep, current, displayed, measured, phase, framebuffer_cache,
                 screen, abandoned>>

\* The framebuffer of the buffer, made once and then cached.
CreateFrame == framebuffer_cache' = framebuffer_cache \union {next.buffer}

\* drmModeSetCrtc or establish_phase fails, or drmModePageFlip does.
DisplayFails ==
  \/ Fail({}) /\ UNCHANGED screen
  \/ current = Nothing /\ screen' = {next.buffer} /\ Fail(screen')

\* The first frame sets the mode and announces the phase, under phase_mutex.
SetCrtc ==
  /\ current = Nothing /\ stream # "phase_sleep"
  /\ screen' = {next.buffer} /\ current' = next /\ next' = Nothing
  /\ displayed' = displayed + 1
  /\ phase_ready' = TRUE /\ NotifyPhase /\ worker' = "wait"
  /\ UNCHANGED <<live, abandoned, failed, measured, steady_phase_ready>>

PageFlip ==
  /\ current # Nothing
  /\ screen' = screen \union {next.buffer} /\ worker' = "flip"
  /\ UNCHANGED <<live, abandoned, next, failed, asleep, current, displayed, measured, phase>>

\* display_sample up to the flip.
Display ==
  /\ worker = "display"
  /\ \/ DropStale
     \/ Fail({}) /\ UNCHANGED <<framebuffer_cache, screen, stale>>
     \/ CreateFrame /\ (DisplayFails \/ SetCrtc \/ PageFlip) /\ UNCHANGED stale
  /\ UNCHANGED <<others, stream, ready_sample, worker_stop, missed>>

\* The new frame is on the screen and the old one is released; frame 2
\* announces the steady phase, under phase_mutex.
Presented ==
  /\ next.frame = 2 => stream # "phase_sleep"
  /\ screen' = {next.buffer}
  /\ live' = live \ {current.buffer} /\ current' = next /\ next' = Nothing
  /\ measured' = Append(measured, [frame |-> next.frame, stamp |-> next.stamp])
  /\ displayed' = displayed + 1
  /\ IF next.frame = 2
     THEN steady_phase_ready' = TRUE /\ NotifyPhase
     ELSE UNCHANGED <<steady_phase_ready, asleep>>
  /\ worker' = "wait" /\ UNCHANGED <<abandoned, failed, phase_ready>>

\* wait_for_flip: the event, an event with an impossible time, or a second
\* without one.
Flipped ==
  /\ worker = "flip"
  /\ Presented \/ (screen' \in {screen, {next.buffer}} /\ Fail(screen'))
  /\ UNCHANGED <<others, stream, ready_sample, worker_stop, missed, framebuffer_cache, stale>>

-----------------------------------------------------------------------------

MainStep == OpenDevice \/ StartPipeline \/ WaitBus \/ StopWorker \/ JoinAndBlank \/ ReleaseAll
StreamStep == DecoderInput \/ PhaseCheck \/ PhaseSleep \/ Schedule \/ Stamp
              \/ DecoderFault \/ PostEos \/ NewSample \/ HandOff
WorkerStep == WorkerTake \/ Display \/ Flipped \/ SetFailed \/ NotifyFailed \/ Stop

Next == MainStep \/ StreamStep \/ WorkerStep

\* The threads run and GStreamer keeps moving data; wait_for_flip gives up
\* by itself.
Spec == Init /\ [][Next]_vars
        /\ WF_vars(MainStep) /\ WF_vars(StreamStep) /\ WF_vars(WorkerStep)

-----------------------------------------------------------------------------
(* Properties.                                                             *)

\* A passing run displayed the requested number of frames in stream order
\* and timed each flip from its own frame's submission, also when the
\* decoder swallowed frames.
FlipsAreMeasured ==
  (main = "exited" /\ code = 0) =>
    /\ displayed = expected /\ Len(measured) + 1 = expected
    /\ \A i \in DOMAIN measured : measured[i].stamp = measured[i].frame
    /\ \A i, j \in DOMAIN measured : i < j => measured[i].frame < measured[j].frame

\* A buffer that is scanned out, or queued to be, has a framebuffer and is not
\* back in the decoder's pool, except the one that a failed or timed-out
\* display call itself gave to the screen and released.  In particular the
\* frame shown before the failure stays held until the CRTC is blanked.
ScreenIsHeld ==
  /\ screen \ abandoned \subseteq live
  /\ screen \subseteq framebuffer_cache

\* The streaming thread sleeps on a phase that nobody will announce: the
\* worker's failure was announced between its check and its sleep, or the frame
\* that establishes the phase was swallowed by the decoder or is still in it.
Stranded ==
  LET awaited == IF submitted = 2 THEN 1 ELSE 2
  IN /\ stream = "phase" /\ "stream" \in asleep
     /\ missed \/ awaited \in lost \/ \E i \in DOMAIN decoding : decoding[i] = awaited

\* The probe ends, unless the streaming thread is stranded: these three are
\* the only ways to hang.
EndsUnlessStranded == <>(main = "exited" \/ Stranded)

=============================================================================
