--------------------------- MODULE ClientPipeline ---------------------------
(***************************************************************************)
(* probes/video/plank-probe-client-pipeline.cpp: decode a bitstream and    *)
(* present it on a Wayland surface.  GStreamer's streaming thread stamps   *)
(* the decoder's input and receives its output; the samples are presented  *)
(* there (serial) or by presentation_worker behind a one-sample slot       *)
(* (threaded, async); main waits for the pipeline's EOS or error message.  *)
(* Times are left out: what they decide (late, stale, paced) is a choice.  *)
(***************************************************************************)
EXTENDS Integers, Sequences, FiniteSets, TLC

CONSTANTS OptionSets,     \* the command lines considered
          StreamFrames,   \* access units in the bitstream
          DecoderDepth,   \* frames the decoder may hold
          MaxFaults       \* frames it may swallow or repeat

VARIABLES
  opts, main, stream, worker, asleep,
  held, stage,            \* Wayland and EGL objects, and the next step on them
  submitted, submit_queue,
  decoder,                \* frames inside the decoder
  lost,                   \* frames the decoder swallowed
  extra,                  \* frames it gave out twice
  ended,                  \* downstream has returned EOS
  bus,                    \* the first EOS or ERROR message
  pulled, current,        \* samples in on_new_sample and in process_sample
  ready_sample, producer_done, worker_stop, failed, reached_eos,
  proc,                   \* where process_sample is
  inflight,               \* asynchronous feedback the compositor owes
  queued, presented, stale,
  measured,               \* recorded presentations: the frame and its stamp
  live,                   \* samples that are referenced
  code

gfx == <<held, stage>>
source == <<submitted, decoder, lost, extra>>
slot == <<ready_sample, producer_done, worker_stop>>
counts == <<queued, presented, stale, measured>>
vars == <<opts, main, stream, worker, asleep, gfx, source, submit_queue, ended, bus,
          pulled, current, slot, failed, reached_eos, proc, inflight, counts, live, code>>

Nothing == [frame |-> 0, stamp |-> 0]
Threaded == opts.mode # "serial"
Async == opts.mode \in {"async", "async-nofifo"}

-----------------------------------------------------------------------------
(* Graphics.                                                               *)

\* What each step of initialize_graphics makes; in steps 2 and 5 some of it
\* may be missing.
Makes ==
  << {"display"}, {"compositor", "wm_base", "presentation", "managers"},
     {"surface", "extras", "xdg_surface", "toplevel"}, {"egl"},
     {"window", "egl_surface", "context"}, {"program"}, {"vertex_array"} >>
Partial == {2, 5}

\* Mutant: the display connection is closed before the objects made on it.
ShutdownDisplayFirst ==
  << "vertex_array", "program", "context", "egl_surface", "egl", "window",
     "display", "toplevel", "xdg_surface", "extras", "surface", "presentation",
     "managers", "wm_base", "compositor" >>

\* The order of shutdown_graphics.
Shutdown ==
  << "vertex_array", "program", "context", "egl_surface", "egl", "window",
     "toplevel", "xdg_surface", "extras", "surface", "presentation",
     "managers", "wm_base", "compositor", "display" >>

Owner == [r \in {"compositor", "wm_base", "presentation", "managers", "egl"} |-> {"display"}]
         @@ [r \in {"display"} |-> {}]
         @@ [r \in {"surface"} |-> {"compositor"}]
         @@ [r \in {"extras"} |-> {"managers", "surface"}]
         @@ [r \in {"xdg_surface"} |-> {"wm_base", "surface"}]
         @@ [r \in {"toplevel"} |-> {"xdg_surface"}]
         @@ [r \in {"window"} |-> {"surface"}]
         @@ [r \in {"egl_surface"} |-> {"egl", "window"}]
         @@ [r \in {"context"} |-> {"egl"}]
         @@ [r \in {"program", "vertex_array", "texture"} |-> {"context"}]
         @@ [r \in {"image"} |-> {"egl"}]

\* A frame's objects, which go with their owner if they are left.
Imported == {"image", "texture"}

\* The protocol extensions are optional.
Wanted == IF "managers" \in held THEN Makes[stage] ELSE Makes[stage] \ {"extras"}
Obtainable ==
  IF stage \in Partial THEN {got \in SUBSET Wanted : "egl_surface" \in got => "window" \in got}
  ELSE {{}, Wanted}

Leave(c) == main' = "shutdown" /\ stage' = 1 /\ code' = c

Init ==
  /\ opts \in OptionSets
  /\ main = "options" /\ stream = "off" /\ worker = "off" /\ asleep = {}
  /\ held = {} /\ stage = 1
  /\ submitted = 0 /\ submit_queue = <<>> /\ decoder = <<>> /\ lost = {} /\ extra = {}
  /\ ended = FALSE /\ bus = "none"
  /\ pulled = Nothing /\ current = Nothing /\ ready_sample = Nothing
  /\ producer_done = FALSE /\ worker_stop = FALSE
  /\ failed = FALSE /\ reached_eos = FALSE
  /\ proc = "none" /\ inflight = <<>>
  /\ queued = 0 /\ presented = 0 /\ stale = 0 /\ measured = <<>>
  /\ live = {} /\ code = -1

Rejected(o) ==
  \/ o.frames = 0
  \/ o.lead_us >= 16667
  \/ o.mode \notin {"serial", "threaded", "async", "async-nofifo"}
  \/ o.limit_given /\ (o.mode \in {"serial", "threaded"} \/ o.limit \notin 1 .. 4)

ParseArguments ==
  /\ main = "options"
  /\ IF Rejected(opts)
     THEN main' = "exited" /\ code' = 2
     ELSE main' = "graphics" /\ UNCHANGED code
  /\ UNCHANGED <<opts, stream, worker, asleep, gfx, source, submit_queue, ended, bus,
                 pulled, current, slot, failed, reached_eos, proc, inflight, counts, live>>

InitializeGraphics ==
  /\ main = "graphics"
  /\ \E got \in Obtainable :
       /\ held' = held \union got
       /\ \/ Leave(3)
          \/ /\ Wanted \ got \subseteq {"managers"}
             /\ stage' = stage + 1
             /\ main' = IF stage = Len(Makes) THEN "pipeline" ELSE main
             /\ UNCHANGED code
  /\ UNCHANGED <<opts, stream, worker, asleep, source, submit_queue, ended, bus,
                 pulled, current, slot, failed, reached_eos, proc, inflight, counts, live>>

ShutdownGraphics ==
  /\ main = "shutdown"
  /\ IF stage <= Len(Shutdown)
     THEN /\ held' = held \ ({Shutdown[stage]}
                             \union {r \in Imported : Shutdown[stage] \in Owner[r]})
          /\ stage' = stage + 1 /\ UNCHANGED main
     ELSE main' = "exited" /\ UNCHANGED gfx
  /\ UNCHANGED <<opts, stream, worker, asleep, source, submit_queue, ended, bus, pulled,
                 current, slot, failed, reached_eos, proc, inflight, counts, live, code>>

-----------------------------------------------------------------------------
(* main.                                                                   *)

\* The description does not parse or lacks an element; or the worker starts
\* and the pipeline is set to PLAYING.  A state change that fails posts an
\* error (GStreamer), for which main waits like for any other.
StartPipeline ==
  /\ main = "pipeline"
  /\ \/ Leave(4) /\ UNCHANGED <<worker, stream, bus, reached_eos>>
     \/ /\ main' = "bus"
        /\ worker' = IF Threaded THEN "wait" ELSE "off"
        /\ \/ stream' = "idle" /\ reached_eos' = TRUE /\ UNCHANGED bus
           \/ bus' = "error" /\ UNCHANGED <<stream, reached_eos>>
        /\ UNCHANGED <<stage, code>>
  /\ UNCHANGED <<opts, asleep, held, source, submit_queue, ended, pulled, current,
                 slot, failed, proc, inflight, counts, live>>

\* The message, then producer_done and worker_stop under ready_mutex and
\* both notifications.
WaitBus ==
  LET eos == reached_eos /\ bus = "eos"
  IN /\ main = "bus" /\ bus # "none"
     /\ reached_eos' = eos
     /\ main' = IF Threaded THEN "join" ELSE "null"
     /\ producer_done' = Threaded
     /\ worker_stop' = (worker_stop \/ (Threaded /\ ~eos))
     /\ asleep' = {}
     /\ UNCHANGED <<opts, stream, worker, gfx, source, submit_queue, ended, bus, pulled,
                    current, ready_sample, failed, proc, inflight, counts, live, code>>

JoinWorker ==
  /\ main = "join" /\ worker = "exited"
  /\ main' = "null"
  /\ UNCHANGED <<opts, stream, worker, asleep, gfx, source, submit_queue, ended, bus,
                 pulled, current, slot, failed, reached_eos, proc, inflight, counts, live, code>>

\* GST_STATE_NULL waits for the streaming thread; paced is the pacing gate.
StopPipeline ==
  /\ main = "null" /\ stream \in {"off", "done"}
  /\ \E paced \in BOOLEAN :
       Leave(IF reached_eos /\ ~failed /\ presented = opts.frames
                 /\ Len(measured) = presented /\ paced
             THEN 0 ELSE 1)
  /\ UNCHANGED <<opts, stream, worker, asleep, held, source, submit_queue, ended, bus,
                 pulled, current, slot, failed, reached_eos, proc, inflight, counts, live>>

-----------------------------------------------------------------------------
(* The streaming thread up to the sample.                                  *)

\* What the callback's flow return makes of the thread.
Flow(result) ==
  /\ stream' = IF result = "error" THEN "done" ELSE "idle"
  /\ bus' = IF result = "error" /\ bus = "none" THEN "error" ELSE bus
  /\ ended' = (ended \/ result = "eos")

\* Mutant: the stamp is queued before the sleep, whose failure is not noted.
StampBeforeSleep ==
  LET frame == submitted + 1
  IN /\ stream = "idle" /\ ~ended
     /\ submitted < StreamFrames /\ Len(decoder) < DecoderDepth
     /\ submitted' = frame
     /\ submit_queue' = Append(submit_queue, frame)
     /\ \/ decoder' = Append(decoder, frame)
        \/ opts.lead_us # 0 /\ UNCHANGED decoder
     /\ UNCHANGED <<opts, main, stream, worker, asleep, gfx, lost, extra, ended, bus, pulled,
                    current, slot, failed, reached_eos, proc, inflight, counts, live, code>>

\* The pad probe: schedule the frame, or fail to sleep and drop it.
DecoderInput ==
  LET frame == submitted + 1
  IN /\ stream = "idle" /\ ~ended
     /\ submitted < StreamFrames /\ Len(decoder) < DecoderDepth
     /\ submitted' = frame
     /\ \/ /\ submit_queue' = Append(submit_queue, frame)
           /\ decoder' = Append(decoder, frame)
           /\ UNCHANGED failed
        \/ /\ opts.lead_us # 0
           /\ failed' = TRUE
           /\ UNCHANGED <<submit_queue, decoder>>
     /\ UNCHANGED <<opts, main, stream, worker, asleep, gfx, lost, extra, ended, bus, pulled,
                    current, slot, reached_eos, proc, inflight, counts, live, code>>

\* The decoder swallows a frame, will give one out twice, or gives up.
DecoderFault ==
  /\ stream = "idle" /\ decoder # <<>>
  /\ \/ /\ Head(decoder) \notin lost \union extra
        /\ Cardinality(lost \union extra) < MaxFaults
        /\ \/ /\ lost' = lost \union {Head(decoder)} /\ decoder' = Tail(decoder)
              /\ UNCHANGED extra
           \/ /\ extra' = extra \union {Head(decoder)}
              /\ decoder' = <<Head(decoder)>> \o decoder
              /\ UNCHANGED lost
        /\ UNCHANGED <<stream, bus, ended>>
     \/ Flow("error") /\ UNCHANGED <<lost, extra, decoder>>
  /\ UNCHANGED <<opts, main, worker, asleep, gfx, submitted, submit_queue, pulled, current,
                 slot, failed, reached_eos, proc, inflight, counts, live, code>>

\* The file or downstream has ended and the decoder is empty.
PostEos ==
  /\ stream = "idle" /\ decoder = <<>> /\ (ended \/ submitted = StreamFrames)
  /\ stream' = "done" /\ bus' = IF bus = "none" THEN "eos" ELSE bus
  /\ UNCHANGED <<opts, main, worker, asleep, gfx, source, submit_queue, ended, pulled,
                 current, slot, failed, reached_eos, proc, inflight, counts, live, code>>

\* on_new_sample takes the oldest stamp, whichever frame this is; or the sink
\* has no sample.
NewSample ==
  /\ stream = "idle" /\ decoder # <<>>
  /\ decoder' = Tail(decoder)
  /\ \/ /\ Flow("error")
        /\ UNCHANGED <<failed, submit_queue, live, pulled, current, queued, proc>>
     \/ /\ submit_queue = <<>>
        /\ failed' = TRUE /\ Flow("error")
        /\ UNCHANGED <<submit_queue, live, pulled, current, queued, proc>>
     \/ /\ submit_queue # <<>>
        /\ LET sample == [frame |-> Head(decoder), stamp |-> Head(submit_queue)]
           IN /\ submit_queue' = Tail(submit_queue)
              /\ live' = live \union {sample}
              /\ IF Threaded
                 THEN stream' = "handoff" /\ pulled' = sample /\ UNCHANGED <<current, queued, proc>>
                 ELSE /\ stream' = "process" /\ current' = sample /\ proc' = "admit"
                      /\ queued' = queued + 1 /\ UNCHANGED pulled
        /\ UNCHANGED <<failed, bus, ended>>
  /\ UNCHANGED <<opts, main, worker, asleep, gfx, submitted, lost, extra, slot, reached_eos,
                 inflight, presented, stale, measured, code>>

\* ready_consumed.wait, then the slot; a stopped worker refuses the sample.
HandOff ==
  /\ stream = "handoff" /\ "stream" \notin asleep
  /\ \/ /\ worker_stop
        /\ live' = live \ {pulled} /\ pulled' = Nothing
        /\ Flow("error")
        /\ UNCHANGED <<asleep, ready_sample, queued>>
     \/ /\ ~worker_stop /\ ready_sample = Nothing
        /\ ready_sample' = pulled /\ pulled' = Nothing
        /\ queued' = queued + 1
        /\ asleep' = asleep \ {"worker"}
        /\ Flow(IF queued + 1 >= opts.frames THEN "eos" ELSE "ok")
        /\ UNCHANGED live
     \/ /\ ~worker_stop /\ ready_sample # Nothing
        /\ asleep' = asleep \union {"stream"}
        /\ UNCHANGED <<stream, bus, ended, live, pulled, ready_sample, queued>>
  /\ UNCHANGED <<opts, main, worker, gfx, source, submit_queue, current, producer_done,
                 worker_stop, failed, reached_eos, proc, inflight, presented, stale,
                 measured, code>>

-----------------------------------------------------------------------------
(* process_sample, in the streaming thread or in the worker.               *)

\* One feedback event: presented, presented at an impossible time, discarded.
Feedback ==
  /\ inflight # <<>>
  /\ inflight' = Tail(inflight)
  /\ \/ /\ measured' = Append(measured, Head(inflight))
        /\ presented' = presented + 1 /\ UNCHANGED failed
     \/ failed' = TRUE /\ presented' = presented + 1 /\ UNCHANGED measured
     \/ failed' = TRUE /\ UNCHANGED <<presented, measured>>

\* Mutant: the failed worker stops without waking the streaming thread.
ReturnsSilently(valid, bad, count) ==
  /\ proc' = "none" /\ current' = Nothing /\ live' = live \ {current}
  /\ failed' = (bad \/ ~valid)
  /\ IF Threaded
     THEN /\ worker' = IF valid THEN "wait" ELSE "drain"
          /\ worker_stop' = (worker_stop \/ ~valid)
          /\ presented' = IF valid /\ ~Async THEN count + 1 ELSE count
          /\ UNCHANGED <<stream, bus, ended, asleep>>
     ELSE /\ presented' = IF valid THEN count + 1 ELSE count
          /\ Flow(IF ~valid THEN "error"
                  ELSE IF count + 1 >= opts.frames THEN "eos" ELSE "ok")
          /\ UNCHANGED <<worker, worker_stop, asleep>>

\* process_sample returns and its caller drops the sample: the worker goes
\* back to its queue, or fails and stops everybody; on_new_sample counts the
\* frame or returns an error.  count is presented so far.
Returns(valid, bad, count) ==
  /\ proc' = "none" /\ current' = Nothing /\ live' = live \ {current}
  /\ failed' = (bad \/ ~valid)
  /\ IF Threaded
     THEN /\ worker' = IF valid THEN "wait" ELSE "drain"
          /\ worker_stop' = (worker_stop \/ ~valid)
          /\ asleep' = IF valid THEN asleep ELSE {}
          /\ presented' = IF valid /\ ~Async THEN count + 1 ELSE count
          /\ UNCHANGED <<stream, bus, ended>>
     ELSE /\ presented' = IF valid THEN count + 1 ELSE count
          /\ Flow(IF ~valid THEN "error"
                  ELSE IF count + 1 >= opts.frames THEN "eos" ELSE "ok")
          /\ UNCHANGED <<worker, worker_stop, asleep>>

\* Mutant: the limit is compared with >.
AtLimitLate == Len(inflight) > opts.limit

AtLimit == Len(inflight) >= opts.limit

\* Asynchronous mode first waits for room, then drops what is already late.
Admit ==
  /\ proc = "admit"
  /\ \/ /\ Async /\ AtLimit
        /\ \/ Feedback
              /\ UNCHANGED <<proc, current, live, worker, worker_stop, asleep, stream, bus,
                             ended, stale>>
           \/ Returns(FALSE, TRUE, presented) /\ UNCHANGED <<inflight, measured, stale>>
     \/ /\ Async /\ ~AtLimit /\ opts.lead_us # 0
        /\ stale' = stale + 1
        /\ Returns(TRUE, failed, presented) /\ UNCHANGED <<inflight, measured>>
     \/ /\ ~(Async /\ AtLimit)
        /\ proc' = "present"
        /\ UNCHANGED <<inflight, measured, presented, failed, current, live, worker,
                       worker_stop, asleep, stream, bus, ended, stale>>
  /\ UNCHANGED <<opts, main, gfx, source, submit_queue, pulled, ready_sample, producer_done,
                 reached_eos, queued, code>>

\* import_and_present: the buffer is unusable or a call fails, which may leave
\* the EGL image, or also the texture, behind; the frame is presented and
\* recorded (or the feedback says otherwise); or, asynchronous, the feedback
\* is outstanding.
Present ==
  /\ proc = "present"
  /\ \/ /\ Returns(FALSE, failed, presented)
        /\ \E left \in {{}, {"image"}, Imported} : held' = held \union left
        /\ UNCHANGED <<inflight, measured>>
     \/ /\ ~Async
        /\ measured' = Append(measured, current)
        /\ Returns(TRUE, failed, presented) /\ UNCHANGED <<held, inflight>>
     \/ /\ Async
        /\ inflight' = Append(inflight, current)
        /\ proc' = "roundtrip"
        /\ UNCHANGED <<held, measured, presented, failed, current, live, worker, worker_stop,
                       asleep, stream, bus, ended>>
  /\ UNCHANGED <<opts, main, stage, source, submit_queue, pulled, ready_sample, producer_done,
                 reached_eos, queued, stale, code>>

\* wl_display_roundtrip delivers what has arrived, or fails.
Roundtrip ==
  /\ proc = "roundtrip"
  /\ \/ Feedback
        /\ UNCHANGED <<proc, current, live, worker, worker_stop, asleep, stream, bus, ended>>
     \/ \E connected \in BOOLEAN :
          /\ Returns(connected /\ ~failed, failed, presented)
          /\ UNCHANGED <<inflight, measured>>
  /\ UNCHANGED <<opts, main, gfx, source, submit_queue, pulled, ready_sample, producer_done,
                 reached_eos, queued, stale, code>>

-----------------------------------------------------------------------------
(* presentation_worker.                                                    *)

\* ready_available.wait and what follows it: stop and drop the slot, end, or
\* take the sample.
WorkerTake ==
  /\ worker = "wait" /\ "worker" \notin asleep
  /\ \/ /\ worker_stop
        /\ live' = live \ {ready_sample} /\ ready_sample' = Nothing
        /\ asleep' = asleep \ {"stream"}
        /\ worker' = "drain"
        /\ UNCHANGED <<current, proc>>
     \/ /\ ~worker_stop /\ ready_sample # Nothing
        /\ current' = ready_sample /\ ready_sample' = Nothing
        /\ proc' = "admit" /\ worker' = "process"
        /\ asleep' = asleep \ {"stream"}
        /\ UNCHANGED live
     \/ /\ ~worker_stop /\ ready_sample = Nothing
        /\ \/ producer_done /\ worker' = "drain" /\ UNCHANGED asleep
           \/ ~producer_done /\ asleep' = asleep \union {"worker"} /\ UNCHANGED worker
        /\ UNCHANGED <<live, ready_sample, current, proc>>
  /\ UNCHANGED <<opts, main, stream, gfx, source, submit_queue, ended, bus, pulled,
                 producer_done, worker_stop, failed, reached_eos, inflight, counts, code>>

\* drain_async_feedback: until nothing is owed or the connection is gone.
WorkerDrain ==
  /\ worker = "drain"
  /\ \/ inflight = <<>> /\ worker' = "exited"
        /\ UNCHANGED <<inflight, measured, presented, failed>>
     \/ Feedback /\ UNCHANGED worker
     \/ /\ inflight # <<>> /\ failed' = TRUE /\ worker' = "exited"
        /\ UNCHANGED <<inflight, measured, presented>>
  /\ UNCHANGED <<opts, main, stream, asleep, gfx, source, submit_queue, ended, bus, pulled,
                 current, slot, reached_eos, proc, queued, stale, live, code>>

-----------------------------------------------------------------------------

Process == Admit \/ Present \/ Roundtrip

MainStep == ParseArguments \/ InitializeGraphics \/ ShutdownGraphics
            \/ StartPipeline \/ WaitBus \/ JoinWorker \/ StopPipeline
StreamStep == DecoderInput \/ DecoderFault \/ PostEos \/ NewSample \/ HandOff
              \/ (~Threaded /\ Process)
WorkerStep == WorkerTake \/ WorkerDrain \/ (Threaded /\ Process)

Next == MainStep \/ StreamStep \/ WorkerStep

\* The threads run, GStreamer keeps moving data, and the compositor answers
\* every feedback request.
Spec == Init /\ [][Next]_vars
        /\ WF_vars(MainStep) /\ WF_vars(StreamStep) /\ WF_vars(WorkerStep)

-----------------------------------------------------------------------------
(* Properties.                                                             *)

\* How far first-in first-out matching moves a frame's stamp: on by the frames
\* given out twice before it, back by those swallowed.
Shift(frame) == Cardinality({e \in extra : e < frame}) - Cardinality({l \in lost : l < frame})

\* A passing run presented exactly the requested number of frames, in stream
\* order and each as often as the decoder gave it out.  Each is timed from its
\* own submission as long as the decoder gives out every frame once; a frame
\* it swallows or repeats moves every later stamp by one frame, and nothing
\* else ever moves one.
PassIsMeasured ==
  (main = "exited" /\ code = 0) =>
    /\ Len(measured) = opts.frames
    /\ \A i, j \in DOMAIN measured : i < j =>
         \/ measured[i].frame < measured[j].frame
         \/ measured[i].frame = measured[j].frame /\ measured[i].frame \in extra
    /\ \A i \in DOMAIN measured :
         LET off == measured[i].stamp - measured[i].frame - Shift(measured[i].frame)
         IN off = 0 \/ (off = 1 /\ measured[i].frame \in extra)

\* Outstanding presentation feedback never exceeds the in-flight limit.
InflightBounded == Len(inflight) <= opts.limit

\* Every sample taken from the sink is released by the end, whoever stops
\* first, except the one left in the slot when the worker itself failed; and
\* graphics objects go before the objects they belong to, from any failure.
Released ==
  /\ \A r \in held : Owner[r] \subseteq held
  /\ main = "exited" =>
       /\ held = {}
       /\ live \subseteq {ready_sample}
       /\ live # {} => failed /\ worker_stop

\* The probe ends: no thread sleeps on the slot for good, and main always
\* gets its message.
ProbeEnds == <>(main = "exited")

=============================================================================
