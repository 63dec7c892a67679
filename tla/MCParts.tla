------------------------------ MODULE MCParts -------------------------------
(***************************************************************************)
(* The parts that stand on their own, for TLC: the three threaded video    *)
(* probes, the Wacom bridge, the audio tap's ring, the input mapper, the   *)
(* packet codecs and the arithmetic of the probes.  A behaviour is a run   *)
(* of one of them, chosen with its command line or its input in the        *)
(* initial state.  The video probes share the variables whose names they   *)
(* share.                                                                  *)
(***************************************************************************)
EXTENDS BridgeState, RingState, InputState, EncoderState, TLC

VARIABLES
  program,
  \* of the three video programs
  main, worker, asleep, code,
  \* of two of them
  opts, held, stage, stream, submitted, submit_queue, lost, ended, bus, pulled, current,
  ready_sample, producer_done, worker_stop, failed, reached_eos, live, queued, stale,
  measured,
  \* of VideoPipeline
  drain, frame, content, slot_in_use, pending_slots, input_done, worker_error,
  \* of ClientPipeline
  decoder, extra, proc, inflight, presented,
  \* of ClientKms
  expected, drm, decoding, next, phase_ready, steady_phase_ready, framebuffer_cache,
  screen, displayed, abandoned, missed,
  \* of WacomBridge
  client, opened, sent, cready, hready, connected, to_host, to_client,
  plugged, produced, unread, counted, descriptors, running, asked,
  \* of AudioRing
  readIndex, writeIndex, ringFailed, overruns, ringStopped, blocks, hal, callback, write,
  read, merged, handled, target, failureReported, rejected,
  \* of InputEvents
  latched, stopped, plan, valid, ready,
  \* of PacketCodecs and of ProbeMath
  codec, fields, packet, decoded, task, result

videoOnly == <<drain, frame, content, slot_in_use, pending_slots, input_done, worker_error,
               out>>
pipelineOnly == <<decoder, extra, proc, inflight, presented>>
kmsOnly == <<expected, drm, decoding, next, phase_ready, steady_phase_ready,
             framebuffer_cache, screen, displayed, abandoned, missed>>
threads == <<main, worker, asleep, code>>
wacom == <<paths, client, host, opened, sent, cready, hready, connected, to_host, to_client,
           plugged, produced, unread, counted, descriptors, running, uhid, asked,
           delivered, completed>>
graphics == <<opts, held, stage>>
playing == <<stream, submitted, submit_queue, lost, ended, bus, pulled, current,
             ready_sample, producer_done, worker_stop, failed, reached_eos, live, queued,
             stale, measured>>
ring == <<readIndex, writeIndex, ringFailed, overruns, ringStopped, blocks, hal, callback,
          write, read, merged, tapOwner, handled, target, block, failureReported, encoded,
          rejected, noticed>>
input == <<state, latched, stopped, plan, stopping, whole, lease, valid, ready, desk>>
packets == <<codec, fields, packet, decoded>>
math == <<task, result>>
probes == <<threads, graphics, playing, videoOnly, pipelineOnly, kmsOnly, wacom>>
others == <<ring, input, packets, math>>
vars == <<program, probes, others>>

\* Runs of one and four frames, both queue depths, every loss frame with
\* every feedback delay up to three, and one command line per refusal.
Encode == [self_test |-> FALSE, malformed |-> FALSE, depth |-> 1, frames |-> 4,
           fps |-> 60, period |-> -1, count |-> -1, loss |-> 0, delay |-> 2,
           invalidation |-> TRUE, idr |-> 0, references |-> 0, reference |-> "none"]
EncodeRuns ==
  {[Encode EXCEPT !.depth = d, !.frames = n] : d \in {0, 1}, n \in {1, 4}}
  \union {[Encode EXCEPT !.depth = d, !.loss = l, !.delay = y, !.invalidation = i] :
            d \in {0, 1}, l \in 1 .. 4, y \in 1 .. 3, i \in BOOLEAN}
  \union {[Encode EXCEPT !.depth = d, !.loss = 2, !.idr = 4, !.reference = "given"] :
            d \in {0, 1}}
  \union {[Encode EXCEPT !.fps = 241], [Encode EXCEPT !.period = 2, !.count = 2],
          [Encode EXCEPT !.fps = 1], [Encode EXCEPT !.loss = 5], [Encode EXCEPT !.idr = 5],
          [Encode EXCEPT !.references = 9], [Encode EXCEPT !.malformed = TRUE],
          [Encode EXCEPT !.reference = "same_as_bitstream"],
          [Encode EXCEPT !.self_test = TRUE],
          [Encode EXCEPT !.self_test = TRUE, !.malformed = TRUE]}

\* A stream of three frames; each mode asks for fewer and for all of them, and
\* one for more, which only a repeated frame can make up.
Play == [mode |-> "serial", frames |-> 3, lead_us |-> 0, limit_given |-> FALSE, limit |-> 1]
PlayRuns ==
  {[Play EXCEPT !.mode = m, !.frames = n] :
     m \in {"serial", "threaded", "async"}, n \in 2 .. 3}
  \union {[Play EXCEPT !.mode = m, !.frames = 2, !.lead_us = 5000] :
            m \in {"serial", "async"}}
  \union {[Play EXCEPT !.mode = "async", !.limit_given = TRUE, !.limit = 2],
          [Play EXCEPT !.mode = "async-nofifo", !.frames = 1],
          [Play EXCEPT !.mode = "threaded", !.frames = 4],
          [Play EXCEPT !.frames = 0], [Play EXCEPT !.lead_us = 16667],
          [Play EXCEPT !.mode = "other"], [Play EXCEPT !.limit_given = TRUE],
          [Play EXCEPT !.mode = "async", !.limit_given = TRUE, !.limit = 5]}

\* Field values with each of their bytes apart, and the sizes at the limits of
\* the setup and the event packets.
TypeValues == {0, 258, 65535}
RequestValues == {0, 65536, 16909060}
SizeValues == {0, 1, 65516, 65517, 65527, 65528, 65535, 65536}

CONSTANTS KmsBuffers, KmsStreamFrames, KmsExpectedFrames, PathCounts, MaxInterfaces,
          MaxTraffic, RingBlocks, InputHeld

Video == INSTANCE VideoPipeline WITH OptionSets <- EncodeRuns
Pipeline == INSTANCE ClientPipeline
              WITH OptionSets <- PlayRuns, StreamFrames <- 3, DecoderDepth <- 2,
                   MaxFaults <- 1
Kms == INSTANCE ClientKms
         WITH Buffers <- KmsBuffers, StreamFrames <- KmsStreamFrames,
              DecoderDepth <- 2, ExpectedFrames <- KmsExpectedFrames
Wacom == INSTANCE WacomBridge
Ring == INSTANCE AudioRing
          WITH failed <- ringFailed, stopped <- ringStopped, ready <- merged,
               Slots <- 2, Modulus <- 4, MaxBlocks <- RingBlocks
Input == INSTANCE InputEvents
           WITH Keys <- {"a", "b"}, ModifierKeys <- {"shift_l", "shift_r"}, Buttons <- {1},
                PenBits <- {1, 2}, MaxHeld <- InputHeld
Packets == INSTANCE PacketCodecs
             WITH Types <- TypeValues, Flags <- {0, 3, 4}, Statuses <- {0, 258},
                  RequestIds <- RequestValues, Sizes <- SizeValues, Values <- {16909060, 111500}
Math == INSTANCE ProbeMath
          WITH Widths <- 1 .. 3, Heights <- 1 .. 3, Pads <- {0, 2}, ThreadsPerBlock <- 4,
               SampleCounts <- {1, 2, 3, 19, 20, 21, 99, 100, 101},
               RowCounts <- {0, 1, 7, 8, 9}, ThreadCounts <- {1, 2, 3, 8},
               Areas <- {1, 2}, Rates <- {30, 60}

\* The command lines are ones that main lets through, and run_client has at
\* least one --hidraw option.
ASSUME EncodeAssumption == EncodeRuns \subseteq Video!CommandLines
ASSUME BridgeAssumption == PathCounts \subseteq Nat \ {0}

notVideo == <<program, playing, pipelineOnly, kmsOnly, wacom, others>>
notPipeline == <<program, videoOnly, kmsOnly, wacom, others>>
notKms == <<program, graphics, videoOnly, pipelineOnly, wacom, others>>
notWacom == <<program, threads, graphics, playing, videoOnly, pipelineOnly, kmsOnly, others>>
notRing == <<program, probes, input, packets, math>>
notInput == <<program, probes, ring, packets, math>>
notPackets == <<program, probes, ring, input, math>>
notMath == <<program, probes, ring, input, packets>>

\* The variables of the programs that do not run: nothing was requested,
\* delivered, encoded, held or invalidated.
NoGraphics ==
  /\ opts = 0 /\ held = 0 /\ stage = 0
NoPlaying ==
  /\ stream = 0 /\ submitted = 0 /\ submit_queue = 0 /\ lost = 0 /\ ended = 0 /\ bus = 0
  /\ pulled = 0 /\ current = 0 /\ ready_sample = 0 /\ producer_done = 0 /\ worker_stop = 0
  /\ failed = 0 /\ reached_eos = 0 /\ live = 0 /\ queued = 0 /\ stale = 0 /\ measured = 0
NoVideo ==
  /\ drain = 0 /\ frame = 0 /\ content = 0 /\ slot_in_use = 0 /\ pending_slots = 0 /\ input_done = 0
  /\ worker_error = 0 /\ out = [invalidated |-> FALSE]
NoPipeline ==
  /\ decoder = 0 /\ extra = 0 /\ proc = 0 /\ inflight = 0 /\ presented = 0
NoKms ==
  /\ expected = 0 /\ drm = 0 /\ decoding = 0 /\ next = 0 /\ phase_ready = 0 /\ steady_phase_ready = 0
  /\ framebuffer_cache = 0 /\ screen = 0 /\ displayed = 0 /\ abandoned = 0 /\ missed = 0
NoWacom ==
  /\ paths = 0 /\ client = 0 /\ host = 0 /\ opened = 0 /\ sent = 0
  /\ cready = 0 /\ hready = 0 /\ connected = 0 /\ to_host = 0 /\ to_client = 0
  /\ plugged = 0 /\ produced = 0 /\ unread = 0 /\ counted = 0 /\ descriptors = 0
  /\ running = 0 /\ uhid = 0 /\ asked = 0 /\ delivered = 0 /\ completed = {}
NoThreads == main = 0 /\ worker = 0 /\ asleep = 0 /\ code = 0

NoRing ==
  /\ readIndex = 0 /\ writeIndex = 0 /\ ringFailed = 0 /\ overruns = 0 /\ ringStopped = 0
  /\ blocks = 0 /\ hal = 0 /\ callback = 0 /\ write = 0 /\ read = 0 /\ merged = 0
  /\ tapOwner = "idle" /\ handled = 0 /\ target = 0 /\ block = 0 /\ failureReported = 0
  /\ encoded = <<>> /\ rejected = 0 /\ noticed = 0
NoInput == Input!Init /\ state.flags = {}
NoPackets == codec = 0 /\ fields = 0 /\ packet = 0 /\ decoded = 0
NoMath == task = 0 /\ result = 0
NoVideoProbe == NoThreads /\ NoGraphics /\ NoPlaying /\ NoVideo /\ NoPipeline /\ NoKms
NoProbe == NoVideoProbe /\ NoWacom
NoOther == NoRing /\ NoInput /\ NoPackets /\ NoMath

Init ==
  \/ /\ program = "video" /\ Video!Init
     /\ NoPlaying /\ NoPipeline /\ NoKms /\ NoWacom /\ NoOther
  \/ program = "pipeline" /\ Pipeline!Init /\ NoVideo /\ NoKms /\ NoWacom /\ NoOther
  \/ /\ program = "kms" /\ Kms!Init
     /\ NoGraphics /\ NoVideo /\ NoPipeline /\ NoWacom /\ NoOther
  \/ program = "wacom" /\ Wacom!Init /\ NoVideoProbe /\ NoOther
  \/ program = "ring" /\ Ring!Init /\ NoProbe /\ NoInput /\ NoPackets /\ NoMath
  \/ program = "input" /\ Input!Init /\ NoProbe /\ NoRing /\ NoPackets /\ NoMath
  \/ program = "packets" /\ Packets!Init /\ NoProbe /\ NoRing /\ NoInput /\ NoMath
  \/ program = "math" /\ Math!Init /\ NoProbe /\ NoRing /\ NoInput /\ NoPackets

MainStep ==
  \/ program = "video" /\ Video!MainStep /\ UNCHANGED notVideo
  \/ program = "pipeline" /\ Pipeline!MainStep /\ UNCHANGED notPipeline
  \/ program = "kms" /\ Kms!MainStep /\ UNCHANGED notKms

StreamStep ==
  \/ program = "pipeline" /\ Pipeline!StreamStep /\ UNCHANGED notPipeline
  \/ program = "kms" /\ Kms!StreamStep /\ UNCHANGED notKms

WorkerStep ==
  \/ program = "video" /\ Video!WorkerStep /\ UNCHANGED notVideo
  \/ program = "pipeline" /\ Pipeline!WorkerStep /\ UNCHANGED notPipeline
  \/ program = "kms" /\ Kms!WorkerStep /\ UNCHANGED notKms

ClientStep == program = "wacom" /\ Wacom!ClientStep /\ UNCHANGED notWacom
HostStep == program = "wacom" /\ Wacom!HostStep /\ UNCHANGED notWacom
Outside == program = "wacom" /\ (Wacom!Faults \/ Wacom!Devices) /\ UNCHANGED notWacom

ProducerStep == program = "ring" /\ Ring!ProducerStep /\ UNCHANGED notRing
ConsumerStep == program = "ring" /\ Ring!ConsumerStep /\ UNCHANGED notRing
TapStep == program = "ring" /\ (Ring!Receive \/ Ring!StopTap) /\ UNCHANGED notRing
InputStep == program = "input" /\ Input!Next /\ UNCHANGED notInput
PacketStep == program = "packets" /\ Packets!Next /\ UNCHANGED notPackets
MathStep == program = "math" /\ Math!Compute /\ UNCHANGED notMath

Next ==
  \/ MainStep \/ StreamStep \/ WorkerStep
  \/ ClientStep \/ HostStep \/ Outside
  \/ ProducerStep \/ ConsumerStep \/ TapStep
  \/ InputStep \/ PacketStep \/ MathStep

\* Every thread is scheduled, drivers and GStreamer return, the compositor
\* answers, and the session queue of the audio tap runs.  A behaviour is one
\* program's, so a disjunction is fair to each of its programs' steps.
Spec == Init /\ [][Next]_vars
        /\ WF_vars(MainStep \/ ClientStep \/ ProducerStep)
        /\ WF_vars(StreamStep)
        /\ WF_vars(WorkerStep \/ HostStep \/ ConsumerStep)

-----------------------------------------------------------------------------
(* Properties of the parts, each for the runs of its part.  BridgeState,   *)
(* RingState, InputState and EncoderState have those of their parts.       *)

\* A probe that reports PASS did what it reports: the encoder probe wrote
\* every frame but the simulated loss, in order, and carried out the
\* recovery; the players presented as many frames as were requested, in order,
\* and timed each from its own submission.  In the Wayland player, which goes by
\* the place in a queue, a frame that the decoder swallowed or repeated moves the
\* stamps behind it by one frame, and nothing else does.
PassIsEarned ==
  CASE program = "video" -> Video!PassIsComplete
    [] program = "pipeline" -> Pipeline!PassIsMeasured
    [] program = "kms" -> Kms!FlipsAreMeasured
    [] OTHER -> TRUE

\* Nothing is released before what depends on it.  From any failure in any
\* thread the encoder probe and the Wayland player release nothing before what
\* was made from it and end with nothing held, but for the sample a failed
\* display worker leaves in the slot; the Wayland player never has more
\* presentation feedback outstanding than its limit; and a buffer that the KMS
\* player scans out or has queued has its framebuffer and is not back in the
\* decoder's pool, but for the one that a failing display call gave to the
\* screen and released.
ResourcesHeld ==
  /\ program = "video" => Video!NothingOutlivesItsOwner
  /\ program = "pipeline" => Pipeline!Released /\ Pipeline!InflightBounded
  /\ program = "kms" => Kms!ScreenIsHeld

\* What an encoder of plank-transport writes its decoder gives back, field for
\* field, for every payload size it takes; setup and control packets keep to
\* their declared maximum and event packets exceed theirs by at most the header.
\* A setup, event, mouse or pen packet that is accepted is what the encoder
\* writes for the fields reported, pen bytes without a meaning apart; a control
\* packet is where the session acts on it.
CodecsAgree == program = "packets" => Packets!CodecsAgree

\* What a probe computes is what it reports: conversions, row shares,
\* percentiles (nearest ranks in the encoder probe, those or one below in the
\* players and the X11 probe) and the display output.
ComputesItsReport == program = "math" => Math!ComputesItsReport

\* Everything comes to rest.  A video probe ends, whichever thread fails or
\* finishes first, except where the KMS player's streaming thread sleeps on a
\* phase that no one will announce: a failure notified between its check and
\* its sleep, or a first or second frame that the decoder swallowed or keeps.
\* Once the bridge is connected, the end of either of its processes, orderly
\* or not, ends both and removes the endpoints.  In the audio tap no block
\* stays in the ring and no failure unreported, unless the tap is stopped.
ComesToRest ==
  <>[](CASE program \in {"video", "pipeline"} -> main = "exited"
         [] program = "kms" -> main = "exited" \/ Kms!Stranded
         [] program = "wacom" -> Wacom!OneEnded => Wacom!BothEnded
         [] program = "ring" -> \/ ringStopped \/ failureReported
                                \/ readIndex = writeIndex /\ ~ringFailed
         [] OTHER -> TRUE)

=============================================================================
