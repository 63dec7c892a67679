---------------------------- MODULE VideoPipeline ----------------------------
(***************************************************************************)
(* probes/video/plank-probe-video-pipeline.cpp: capture, convert, encode   *)
(* and write frame_count frames through two encode slots.  With            *)
(* queue_depth 1 a worker thread drains the slots; with 0 main does.  Any  *)
(* call into CUDA, NvFBC, NVENC or a file may fail.  Times, sizes and the  *)
(* printed report are left out: the real-time gates are one free Boolean.  *)
(***************************************************************************)
EXTENDS EncoderState, Sequences

CONSTANT OptionSets     \* the command lines considered

MaxReferences == 8
DefaultReferences == 4

VARIABLES
  opts,         \* the parsed options
  main,         \* where the main thread is
  worker,       \* where output_worker is
  drain,        \* the drain_slot call in progress: its slot and next step
  asleep,       \* threads blocked in a condition variable
  held,         \* resources acquired and not released
  stage,        \* next entry of Stages, or of Teardown
  frame,        \* the loop variable of the frame loop
  content,      \* frame whose bitstream each slot holds, 0 for none
  slot_in_use, pending_slots, input_done, worker_error,
  code          \* exit status of the process, -1 while it runs

vars == <<opts, main, worker, drain, asleep, held, stage, frame, content,
          slot_in_use, pending_slots, input_done, worker_error, out, code>>
queue == <<slot_in_use, pending_slots, input_done, worker_error>>

Slots == {0, 1}
None == 3
Idle == [slot |-> None, step |-> "none"]

\* A resource is a name and the slot it belongs to (0 where it has none).
\* The order in which main acquires them; "test" stands for the buffers of
\* the two pixel self-tests, which are freed when the tests end.
CudaStages == << <<"cuda", 0>>, <<"context", 0>>, <<"stream", 0>>, <<"module", 0>> >>
CaptureStages == << <<"library", 0>>, <<"handle", 0>>, <<"capture", 0>> >>
EncoderStages ==
  << <<"loader", 0>>, <<"encoder", 0>>,
     <<"surface", 0>>, <<"registered", 0>>, <<"bitstream", 0>>,
     <<"surface", 1>>, <<"registered", 1>>, <<"bitstream", 1>> >>
Stages == CudaStages \o << <<"test", 0>> >> \o CaptureStages \o EncoderStages

\* Mutant: the surfaces are freed with their slots, while registered.
TeardownSurfaceFirst ==
  << <<"locked", 0>>, <<"mapped", 0>>, <<"bitstream", 0>>, <<"surface", 0>>,
     <<"registered", 0>>, <<"locked", 1>>, <<"mapped", 1>>, <<"bitstream", 1>>,
     <<"surface", 1>>, <<"registered", 1>>, <<"encoder", 0>>, <<"loader", 0>>,
     <<"capture", 0>>, <<"handle", 0>>, <<"library", 0>>, <<"stream", 0>>,
     <<"module", 0>>, <<"context", 0>>, <<"cuda", 0>> >>

\* The order of ~Resources.
Teardown ==
  << <<"locked", 0>>, <<"mapped", 0>>, <<"bitstream", 0>>, <<"registered", 0>>,
     <<"locked", 1>>, <<"mapped", 1>>, <<"bitstream", 1>>, <<"registered", 1>>,
     <<"encoder", 0>>, <<"loader", 0>>, <<"capture", 0>>, <<"handle", 0>>,
     <<"library", 0>>, <<"surface", 0>>, <<"surface", 1>>, <<"stream", 0>>,
     <<"module", 0>>, <<"context", 0>>, <<"cuda", 0>> >>

\* What a resource is made from: it is unusable once one of these is gone.
Needs(r) ==
  CASE r[1] \in {"cuda", "library", "loader"} -> {}
    [] r[1] = "context" -> {<<"cuda", 0>>}
    [] r[1] \in {"stream", "module", "test", "surface"} -> {<<"context", 0>>}
    [] r[1] = "handle" -> {<<"library", 0>>}
    [] r[1] = "capture" -> {<<"handle", 0>>, <<"context", 0>>}
    [] r[1] = "encoder" -> {<<"loader", 0>>, <<"context", 0>>}
    [] r[1] = "registered" -> {<<"encoder", 0>>, <<"surface", r[2]>>}
    [] r[1] = "bitstream" -> {<<"encoder", 0>>}
    [] r[1] = "mapped" -> {<<"registered", r[2]>>}
    [] r[1] = "locked" -> {<<"bitstream", r[2]>>}

-----------------------------------------------------------------------------
(* The command line.                                                       *)

\* What the option loop lets through: --frames, --fps and
\* --invalidate-delay-frames take no zero, and a loss, IDR or reference count
\* of 0 stands for one that was not given.
CommandLines ==
  [self_test : BOOLEAN, malformed : BOOLEAN, depth : {0, 1}, frames : Nat \ {0},
   fps : Nat \ {0}, period : Int, count : Int, loss : Nat, delay : Nat \ {0},
   invalidation : BOOLEAN, idr : Nat, references : Nat,
   reference : {"none", "given", "same_as_bitstream"}]

Recovering(o) == o.loss # 0 /\ o.invalidation

\* Mutant: any feedback delay is taken.
FeedbackUnchecked(o) == FALSE

\* "threaded recovery requires at least two feedback frames"
FeedbackTooShort(o) == Recovering(o) /\ o.depth = 1 /\ o.delay < 2

\* A negative period or count stands for one that was not given.
RefreshPeriod(o) == IF o.period < 0 THEN o.fps ELSE o.period
RefreshCount(o) == IF o.count < 0 THEN RefreshPeriod(o) \div 2 ELSE o.count

Rejected(o) ==
  \/ o.malformed
  \/ o.fps > 240
  \/ RefreshCount(o) > 0 /\ RefreshCount(o) >= RefreshPeriod(o)
  \/ o.loss > o.frames
  \/ o.idr > o.frames
  \/ Recovering(o) /\ o.loss + o.delay > o.frames
  \/ o.references > MaxReferences
  \/ FeedbackTooShort(o)
  \/ o.reference = "same_as_bitstream"

WithDefaults(o) ==
  [o EXCEPT !.period = RefreshPeriod(o), !.count = RefreshCount(o),
            !.references = IF Recovering(o) /\ o.references = 0
                           THEN DefaultReferences ELSE o.references]

Init ==
  /\ opts \in OptionSets
  /\ main = "options" /\ worker = "none" /\ drain = Idle /\ asleep = {}
  /\ held = {} /\ stage = 1 /\ frame = 0
  /\ content = [s \in Slots |-> 0]
  /\ slot_in_use = [s \in Slots |-> FALSE] /\ pending_slots = <<>>
  /\ input_done = FALSE /\ worker_error = FALSE
  /\ out = [written |-> <<>>, reference |-> <<>>, dropped |-> 0,
            invalidated |-> FALSE, forced |-> FALSE]
  /\ code = -1

\* --self-test checks three samples of the expansion and returns where it
\* stands on the command line, before or after a malformed argument.
ParseOptions ==
  /\ main = "options"
  /\ \/ opts.self_test /\ main' = "exited" /\ code' = 0 /\ UNCHANGED opts
     \/ /\ IF opts.self_test THEN opts.malformed ELSE Rejected(opts)
        /\ main' = "exited" /\ code' = 2 /\ UNCHANGED opts
     \/ /\ ~opts.self_test /\ ~Rejected(opts)
        /\ main' = "setup" /\ opts' = WithDefaults(opts) /\ UNCHANGED code
  /\ UNCHANGED <<worker, drain, asleep, held, stage, frame, content, queue, out>>

-----------------------------------------------------------------------------
(* Setup: initialize_cuda, self_test_conversion, initialize_nvfbc,         *)
(* initialize_nvenc and the output files.                                  *)

\* The exception leaves the block that owns Resources: ~Resources runs.
Throw == main' = "teardown" /\ stage' = 1

Acquire ==
  /\ main = "setup" /\ Stages[stage] # <<"test", 0>>
  /\ \/ held' = held \union {Stages[stage]}
        /\ stage' = stage + 1
        /\ main' = IF stage = Len(Stages) THEN "files" ELSE "setup"
     \/ Throw /\ UNCHANGED held
  /\ UNCHANGED <<opts, worker, drain, asleep, frame, content, queue, out, code>>

\* Both tests free their buffers before they report; a failed allocation of
\* the second buffer leaves the first one to the context.
SelfTestConversion ==
  /\ main = "setup" /\ Stages[stage] = <<"test", 0>>
  /\ \/ stage' = stage + 1 /\ UNCHANGED <<main, held>>
     \/ Throw /\ held' \in {held, held \union {<<"test", 0>>}}
  /\ UNCHANGED <<opts, worker, drain, asleep, frame, content, queue, out, code>>

OpenFiles ==
  /\ main = "files"
  /\ \/ main' = "claim" /\ UNCHANGED stage
        /\ worker' = IF opts.depth = 1 THEN "wait" ELSE "none"
     \/ Throw /\ UNCHANGED worker
  /\ UNCHANGED <<opts, drain, asleep, held, frame, content, queue, out, code>>

-----------------------------------------------------------------------------
(* The frame loop.                                                         *)

FrameId == frame + 1
Slot == frame % 2

\* An exception inside the loop is caught, the worker is joined and the
\* exception goes on.
Caught == main' = "catch"

LoopHead == main = "claim" /\ frame < opts.frames

\* slot_released.wait: the slot is free or the worker has failed.
SlotReady == ~slot_in_use[Slot] \/ worker_error

ClaimSlot ==
  /\ LoopHead /\ "main" \notin asleep
  /\ IF opts.depth = 1 /\ ~SlotReady
     THEN asleep' = asleep \union {"main"} /\ UNCHANGED main
     ELSE /\ IF opts.depth = 1 /\ worker_error
             THEN Caught
             ELSE main' = "invalidate"
          /\ UNCHANGED asleep
  /\ UNCHANGED <<opts, worker, drain, held, stage, frame, content, queue, out, code>>

InvalidateReferences ==
  /\ main = "invalidate"
  /\ IF Recovering(opts) /\ FrameId = opts.loss + opts.delay
     THEN \/ main' = "capture" /\ out' = [out EXCEPT !.invalidated = TRUE]
          \/ Caught /\ UNCHANGED out
     ELSE main' = "capture" /\ UNCHANGED out
  /\ UNCHANGED <<opts, worker, drain, asleep, held, stage, frame, content, queue, code>>

\* The grab fails, the geometry changed, or launch_conversion fails;
\* otherwise the slot's surface holds this frame.
CaptureAndConvert ==
  /\ main = "capture"
  /\ main' = "map" \/ Caught
  /\ UNCHANGED <<opts, worker, drain, asleep, held, stage, frame, content, queue, out, code>>

MapInput ==
  /\ main = "map"
  /\ \/ main' = "encode" /\ held' = held \union {<<"mapped", Slot>>}
     \/ Caught /\ UNCHANGED held
  /\ UNCHANGED <<opts, worker, drain, asleep, stage, frame, content, queue, out, code>>

\* forced_idr_submitted is set before the call that may fail.
EncodePicture ==
  /\ main = "encode"
  /\ out' = [out EXCEPT !.forced = @ \/ FrameId = opts.idr]
  /\ \/ main' = "hand_over" /\ content' = [content EXCEPT ![Slot] = FrameId]
     \/ Caught /\ UNCHANGED content
  /\ UNCHANGED <<opts, worker, drain, asleep, held, stage, frame, queue, code>>

\* Queue the slot for the worker and wake it, or drain the slot here.
HandOver ==
  /\ main = "hand_over"
  /\ \/ /\ opts.depth = 1
        /\ slot_in_use' = [slot_in_use EXCEPT ![Slot] = TRUE]
        /\ pending_slots' = Append(pending_slots, Slot)
        /\ asleep' = asleep \ {"worker"}
        /\ main' = "claim" /\ frame' = frame + 1
        /\ UNCHANGED drain
     \/ /\ opts.depth = 0
        /\ drain' = [slot |-> Slot, step |-> "lock"]
        /\ main' = "draining"
        /\ UNCHANGED <<slot_in_use, pending_slots, asleep, frame>>
  /\ UNCHANGED <<opts, worker, held, stage, content, input_done, worker_error, out, code>>

\* After the last frame, and from the catch block: tell the worker and join.
FinishInput ==
  /\ main = "catch" \/ (main = "claim" /\ frame = opts.frames)
  /\ IF worker # "none"
     THEN /\ input_done' = TRUE
          /\ asleep' = asleep \ {"worker"}
          /\ main' = IF main = "catch" THEN "rethrow" ELSE "join"
          /\ UNCHANGED stage
     ELSE /\ IF main = "catch" THEN Throw ELSE main' = "eos" /\ UNCHANGED stage
          /\ UNCHANGED <<input_done, asleep>>
  /\ UNCHANGED <<opts, worker, drain, held, frame, content, slot_in_use,
                 pending_slots, worker_error, out, code>>

\* Mutant: the worker's exception is not looked at after the join.
JoinIgnoresError ==
  /\ main \in {"join", "rethrow"} /\ worker = "exited"
  /\ IF main = "rethrow" THEN Throw ELSE main' = "eos" /\ UNCHANGED stage
  /\ UNCHANGED <<opts, worker, drain, asleep, held, frame, content, queue, out, code>>

\* output_worker.join(), then the worker's exception if it left one.
Join ==
  /\ main \in {"join", "rethrow"} /\ worker = "exited"
  /\ IF main = "rethrow" \/ worker_error THEN Throw ELSE main' = "eos" /\ UNCHANGED stage
  /\ UNCHANGED <<opts, worker, drain, asleep, held, frame, content, queue, out, code>>

-----------------------------------------------------------------------------
(* The worker.                                                             *)

\* output_ready.wait, then the front of the queue; nothing pending when
\* input is done ends the thread.
TakePending ==
  /\ worker = "wait" /\ "worker" \notin asleep
  /\ \/ /\ pending_slots # <<>>
        /\ drain' = [slot |-> Head(pending_slots), step |-> "lock"]
        /\ pending_slots' = Tail(pending_slots)
        /\ worker' = "draining"
        /\ UNCHANGED asleep
     \/ /\ pending_slots = <<>> /\ input_done
        /\ worker' = "exited"
        /\ UNCHANGED <<drain, pending_slots, asleep>>
     \/ /\ pending_slots = <<>> /\ ~input_done
        /\ asleep' = asleep \union {"worker"}
        /\ UNCHANGED <<worker, drain, pending_slots>>
  /\ UNCHANGED <<opts, main, held, stage, frame, content, slot_in_use,
                 input_done, worker_error, out, code>>

\* Mutant: the failed worker wakes nobody.
DrainThrowsSilently ==
  /\ drain' = Idle
  /\ IF worker = "draining"
     THEN /\ worker_error' = TRUE /\ input_done' = TRUE
          /\ worker' = "exited" /\ UNCHANGED <<main, asleep>>
     ELSE Caught /\ UNCHANGED <<worker_error, input_done, worker, asleep>>

\* drain_slot throws: in the worker the error is kept, input is ended and
\* main is woken; in main the exception goes to the catch block.
DrainThrows ==
  /\ drain' = Idle
  /\ IF worker = "draining"
     THEN /\ worker_error' = TRUE /\ input_done' = TRUE
          /\ worker' = "exited" /\ asleep' = asleep \ {"main"}
          /\ UNCHANGED main
     ELSE Caught /\ UNCHANGED <<worker_error, input_done, worker, asleep>>

NoThrow == UNCHANGED <<main, worker, asleep, input_done, worker_error>>

LockBitstream ==
  /\ drain.step = "lock"
  /\ \/ /\ held' = held \union {<<"locked", drain.slot>>}
        /\ drain' = [drain EXCEPT !.step = "write"]
        /\ NoThrow
     \/ DrainThrows /\ UNCHANGED held
  /\ UNCHANGED <<opts, stage, frame, content, slot_in_use, pending_slots, out, code>>

\* The reference file gets every frame; the other one every frame but the
\* simulated loss.  Each write may fail.
WriteBitstream ==
  LET id == content[drain.slot]
      kept == IF opts.reference = "given"
              THEN [out EXCEPT !.reference = Append(@, id)] ELSE out
  IN /\ drain.step = "write"
     /\ \/ opts.reference = "given" /\ DrainThrows /\ UNCHANGED out
        \/ /\ opts.loss # 0 /\ id = opts.loss
           /\ out' = [kept EXCEPT !.dropped = @ + 1]
           /\ drain' = [drain EXCEPT !.step = "unlock"] /\ NoThrow
        \/ /\ id # opts.loss
           /\ out' = [kept EXCEPT !.written = Append(@, id)]
           /\ drain' = [drain EXCEPT !.step = "unlock"] /\ NoThrow
        \/ id # opts.loss /\ out' = kept /\ DrainThrows
     /\ UNCHANGED <<opts, held, stage, frame, content, slot_in_use, pending_slots, code>>

UnlockBitstream ==
  /\ drain.step = "unlock"
  /\ \/ /\ held' = held \ {<<"locked", drain.slot>>}
        /\ drain' = [drain EXCEPT !.step = "unmap"]
        /\ NoThrow
     \/ DrainThrows /\ UNCHANGED held
  /\ UNCHANGED <<opts, stage, frame, content, slot_in_use, pending_slots, out, code>>

\* The last step of drain_slot: the worker then frees the slot and wakes
\* main, or main goes on with the next frame.
UnmapInput ==
  /\ drain.step = "unmap"
  /\ \/ /\ held' = held \ {<<"mapped", drain.slot>>}
        /\ content' = [content EXCEPT ![drain.slot] = 0]
        /\ drain' = Idle
        /\ IF worker = "draining"
           THEN /\ worker' = "wait"
                /\ slot_in_use' = [slot_in_use EXCEPT ![drain.slot] = FALSE]
                /\ asleep' = asleep \ {"main"}
                /\ UNCHANGED <<main, frame>>
           ELSE /\ main' = "claim" /\ frame' = frame + 1
                /\ UNCHANGED <<worker, slot_in_use, asleep>>
        /\ UNCHANGED <<input_done, worker_error>>
     \/ DrainThrows /\ UNCHANGED <<held, content, slot_in_use, frame>>
  /\ UNCHANGED <<opts, stage, pending_slots, out, code>>

-----------------------------------------------------------------------------
(* The end of the run.                                                     *)

SendEos ==
  /\ main = "eos"
  /\ (main' = "gates" /\ UNCHANGED stage) \/ Throw
  /\ UNCHANGED <<opts, worker, drain, asleep, held, frame, content, queue, out, code>>

RequestedGatesPassed ==
  /\ opts.loss = 0 \/ out.dropped = 1
  /\ Recovering(opts) => out.invalidated
  /\ opts.idr = 0 \/ out.forced

\* The status is computed before ~Resources runs.  realtime is the outcome of
\* the timing and source-activity gates.
Gates ==
  /\ main = "gates"
  /\ \E realtime \in BOOLEAN :
       code' = IF realtime /\ RequestedGatesPassed THEN 0 ELSE 1
  /\ Throw
  /\ UNCHANGED <<opts, worker, drain, asleep, held, frame, content, queue, out>>

\* One entry of ~Resources; destroying the context frees its memory.
Release ==
  /\ main = "teardown" /\ stage <= Len(Teardown)
  /\ held' = held \ ({Teardown[stage]} \union
                     (IF Teardown[stage][1] = "context" THEN {<<"test", 0>>} ELSE {}))
  /\ stage' = stage + 1
  /\ UNCHANGED <<opts, main, worker, drain, asleep, frame, content, queue, out, code>>

Exit ==
  /\ main = "teardown" /\ stage > Len(Teardown)
  /\ main' = "exited"
  /\ code' = IF code = -1 THEN 3 ELSE code
  /\ UNCHANGED <<opts, worker, drain, asleep, held, stage, frame, content, queue, out>>

DrainStep == LockBitstream \/ WriteBitstream \/ UnlockBitstream \/ UnmapInput

MainStep ==
  \/ ParseOptions \/ Acquire \/ SelfTestConversion \/ OpenFiles
  \/ ClaimSlot \/ InvalidateReferences \/ CaptureAndConvert \/ MapInput
  \/ EncodePicture \/ HandOver \/ FinishInput \/ Join
  \/ main = "draining" /\ DrainStep
  \/ SendEos \/ Gates \/ Release \/ Exit

WorkerStep == TakePending \/ (worker = "draining" /\ DrainStep)

Next == MainStep \/ WorkerStep

\* Both threads are scheduled and every driver call returns.
Spec == Init /\ [][Next]_vars /\ WF_vars(MainStep) /\ WF_vars(WorkerStep)

-----------------------------------------------------------------------------
(* Properties.                                                             *)

\* What was captured, and what the bitstream file should have of it.
AllFrames == [n \in 1 .. opts.frames |-> n]
AllButTheLoss ==
  [k \in 1 .. (IF opts.loss = 0 THEN opts.frames ELSE opts.frames - 1) |->
     IF opts.loss # 0 /\ k >= opts.loss THEN k + 1 ELSE k]

\* A run that exits 0 handed every frame to the bitstream file in capture
\* order, without the simulated loss and nothing else, gave the reference
\* file every frame, and carried out the requested invalidation and IDR: no
\* slot is reused under the worker and no failure of either thread is lost.
PassIsComplete ==
  (main = "exited" /\ code = 0 /\ ~opts.self_test) =>
    /\ out.written = AllButTheLoss
    /\ opts.reference = "given" => out.reference = AllFrames
    /\ Recovering(opts) => out.invalidated
    /\ opts.idr # 0 => out.forced

\* Whatever call fails, in either thread, no resource outlives one it was
\* made from, and nothing is left when the process returns.
NothingOutlivesItsOwner ==
  /\ \A r \in held : Needs(r) \subseteq held
  /\ main = "exited" => held = {}

\* Every run ends: neither thread waits for a notification the other one,
\* failed or finished, will not send.
ProbeTerminates == <>(main = "exited")

=============================================================================
