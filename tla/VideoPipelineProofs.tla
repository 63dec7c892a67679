------------------------- MODULE VideoPipelineProofs --------------------------
(***************************************************************************)
(* The encoder probe with its worker (module VideoPipeline), for every set *)
(* of command lines: what a pass says, when a reference is invalidated and *)
(* what is released.                                                       *)
(*                                                                         *)
(* The probe's frames take its two slots in turn.  The invariant counts    *)
(* the frames that were written or dropped on purpose: the drained one is  *)
(* the next, the queue has those after it, and main is one frame past the  *)
(* queue.  So a slot is free only when its frame is written, nothing is    *)
(* overtaken, and after the last frame all are out.  A second invariant    *)
(* keeps what is held closed under what it is made from.                   *)
(***************************************************************************)
EXTENDS VideoPipeline, TLAPS

-----------------------------------------------------------------------------
(* The invariants.                                                         *)

\* The command lines considered are ones that the option loop lets through.
SomeOptions == OptionSets \subseteq CommandLines

\* Main has not started the frame loop.
Before == {"options", "setup", "files"}

\* Main has claimed a slot for the frame.
Claimed == {"invalidate", "capture", "map", "encode", "hand_over"}

\* Main is in the frame loop.
Loop == {"claim", "draining"} \union Claimed

\* The worker has been joined.
After == {"eos", "gates", "teardown", "exited"}

\* Where main can be.
Places == Before \union Loop \union {"catch", "join", "rethrow"} \union After

\* The types of what belongs to the threads.
ThreadTypes ==
  /\ opts \in CommandLines
  /\ main \in Places
  /\ worker \in {"none", "wait", "draining", "exited"}
  /\ drain \in [slot : {0, 1, None}, step : {"none", "lock", "write", "unlock", "unmap"}]
  /\ code \in {-1, 0, 1, 2, 3}

\* The types of the frame loop and of the queue of slots.
QueueTypes ==
  /\ frame \in Nat
  /\ content \in [Slots -> Nat]
  /\ slot_in_use \in [Slots -> BOOLEAN]
  /\ pending_slots \in Seq(Slots)
  /\ input_done \in BOOLEAN /\ worker_error \in BOOLEAN

\* The type of what was written.
OutTypes ==
  out \in [written : Seq(Nat), reference : Seq(Nat), dropped : Nat,
           invalidated : BOOLEAN, forced : BOOLEAN]

\* The frames whose bitstream was written or dropped on purpose.
Done == Len(out.written) + out.dropped

\* One while the drained frame is not yet written or dropped.
Busy == IF drain.step \in {"lock", "write"} THEN 1 ELSE 0

\* The option checks that the recovery depends on.
Accepted ==
  main \notin {"options", "exited"} =>
    /\ opts.loss <= opts.frames
    /\ (Recovering(opts) /\ opts.depth = 1) => opts.delay >= 2

\* Nothing has happened before the frame loop.
Fresh ==
  main \in Before =>
    /\ worker = "none" /\ frame = 0 /\ code = -1
    /\ pending_slots = <<>> /\ ~input_done /\ ~worker_error
    /\ slot_in_use = [s \in Slots |-> FALSE]
    /\ out = [written |-> <<>>, reference |-> <<>>, dropped |-> 0,
              invalidated |-> FALSE, forced |-> FALSE]

\* Where the threads can be together: who drains, when there is a worker, why it
\* has ended, and which frame main is at.
Threads ==
  /\ opts.depth = 0 => worker = "none" /\ slot_in_use = [s \in Slots |-> FALSE]
  /\ (opts.depth = 1 /\ main \in Loop) => worker # "none"
  /\ main \in {"join", "rethrow"} => worker # "none"
  /\ main \in After => worker \in {"none", "exited"}
  /\ main = "draining" => opts.depth = 0
  /\ drain.step # "none" <=> (main = "draining" \/ worker = "draining")
  /\ drain.step # "none" => drain.slot \in Slots
  /\ worker_error => worker = "exited"
  /\ worker = "exited" => (worker_error \/ (pending_slots = <<>> /\ input_done))
  /\ (input_done /\ ~worker_error) => main \in {"join", "rethrow"} \union After
  /\ main \in Claimed \union {"draining"} => frame < opts.frames
  /\ main \in {"join", "eos", "gates"} => frame = opts.frames
  /\ main = "claim" => frame <= opts.frames
  /\ main \in {"eos", "gates"} => ~worker_error
  /\ (worker = "none" /\ main \in {"eos", "gates"}) => opts.depth = 0
  /\ main \notin {"teardown", "exited"} => code = -1

\* Frames leave in the order they were captured.
Order ==
  /\ (opts.depth = 0 /\ main \in Loop \union {"eos", "gates"}) =>
       Done = frame + (IF main = "draining" THEN 1 - Busy ELSE 0)
  /\ main = "draining" => drain.slot = Slot /\ content[Slot] = FrameId
  /\ main = "hand_over" => content[Slot] = FrameId
  /\ main \in Claimed => ~slot_in_use[Slot] /\ Done >= frame - 1

\* Slot s has frame id for the worker: frames take the two slots in turn.
Holds(s, id) == s = (id - 1) % 2 /\ content[s] = id /\ slot_in_use[s] = TRUE

\* In a threaded run the queue has the frames after the drained one, each in its
\* slot, up to the frame main works on.
Queue ==
  (opts.depth = 1 /\ ~worker_error) =>
    /\ frame = Done + Len(pending_slots) + Busy
    /\ \A k \in 1 .. Len(pending_slots) :
         Holds(pending_slots[k], frame - Len(pending_slots) + k)
    /\ worker = "draining" => Holds(drain.slot, frame - Len(pending_slots))

\* The frame at place k of the bitstream file, which leaves out the loss.
Position(k) == IF opts.loss # 0 /\ k >= opts.loss THEN k + 1 ELSE k

\* What was written so far, and whether the loss was dropped.
Written ==
  /\ out.dropped = IF opts.loss # 0 /\ opts.loss <= Done THEN 1 ELSE 0
  /\ \A k \in 1 .. Len(out.written) : out.written[k] = Position(k)

\* No call has failed yet.
Going == main \in Loop \union {"join", "eos", "gates"} /\ ~worker_error

\* The reference file has every frame so far.
Kept ==
  (Going /\ opts.reference = "given") =>
    Len(out.reference) = Done /\ \A k \in 1 .. Done : out.reference[k] = k

\* What a run that passes has done.
Complete ==
  /\ Done = opts.frames
  /\ opts.reference = "given" =>
       Len(out.reference) = Done /\ \A k \in 1 .. Done : out.reference[k] = k
  /\ opts.loss <= opts.frames
  /\ Recovering(opts) => out.invalidated
  /\ opts.idr # 0 => out.forced

\* The exit status is 0 only for such a run.
Passed == (main \in {"teardown", "exited"} /\ code = 0 /\ ~opts.self_test) => Complete

\* The invariant of the frames.
FlowInv ==
  /\ ThreadTypes /\ QueueTypes /\ OutTypes /\ Accepted /\ Fresh /\ Threads /\ Order
  /\ Queue /\ Written /\ Kept /\ Passed /\ InvalidateAfterLoss

\* All resources.
Resources == (({"cuda", "context", "stream", "module", "test", "library", "handle",
               "capture", "loader", "encoder"} \X {0})
             \union ({"surface", "registered", "bitstream", "mapped", "locked"} \X Slots))

\* The buffers of the pixel self-tests.
Test == <<"test", 0>>

\* Nothing in h lacks what it is made from.
Closed(h) == \A r \in h : Needs(r) \subseteq h

\* Main has every resource of the setup.
InLoop == Loop \union {"catch", "join", "rethrow", "eos", "gates"}

\* The invariant of the resources: the setup has acquired the stages before this
\* one, the teardown has released the entries before this one, and what is held
\* is closed. The self-test's buffers are held only on the way out of a failed
\* test.
HeldInv ==
  /\ held \subseteq Resources /\ Closed(held)
  /\ stage \in Nat \ {0}
  /\ main = "options" => held = {} /\ stage = 1
  /\ main = "setup" => stage <= Len(Stages)
  /\ main = "setup" => \A k \in 1 .. stage - 1 : Stages[k] \in held \union {Test}
  /\ main \in {"files"} \union InLoop =>
       \A k \in 1 .. Len(Stages) : Stages[k] \in held \union {Test}
  /\ main # "teardown" => Test \notin held
  /\ main = "teardown" => \A k \in 1 .. Len(Teardown) : k < stage => Teardown[k] \notin held
  /\ (main = "teardown" /\ stage > Len(Teardown)) => Test \notin held
  /\ main = "exited" => held = {}

-----------------------------------------------------------------------------
(* Every step keeps the invariant of the frames.                           *)

\* The types of the options that the proof reads.
OptTypes(o) ==
  /\ o.depth \in {0, 1} /\ o.frames \in Nat \ {0} /\ o.loss \in Nat /\ o.delay \in Nat \ {0}
  /\ o.idr \in Nat /\ o.invalidation \in BOOLEAN /\ o.self_test \in BOOLEAN

\* They follow from the type of a command line.
LEMMA OptionTypes ==
  ASSUME NEW o \in CommandLines
  PROVE  OptTypes(o)
BY Zenon DEF CommandLines, OptTypes

\* The types of the counts.
LEMMA DoneType ==
  ASSUME OutTypes
  PROVE  Done \in Nat /\ Len(out.written) \in Nat /\ Len(out.reference) \in Nat /\ out.dropped \in Nat
         /\ out.invalidated \in BOOLEAN /\ out.forced \in BOOLEAN
BY DEF OutTypes, Done

\* In a threaded run main finds its slot free only when the frame that had it is
\* written: at most one frame is still on its way.
LEMMA Room ==
  ASSUME FlowInv, opts.depth = 1, ~worker_error, ~slot_in_use[Slot]
  PROVE  Done >= frame - 1
<1>1. Queue /\ Threads
  BY Zenon DEF FlowInv
<1> PICK n : n = Len(pending_slots)
  BY Zenon
<1> PICK d : d = Done
  BY Zenon
<1>t. frame \in Nat /\ d \in Nat /\ n \in Nat
  BY DoneType DEF FlowInv, QueueTypes
<1>2. frame = d + n + Busy
  BY <1>1, Zenon DEF Queue
<1>3. n < 2
  <2> SUFFICES ASSUME n >= 2 PROVE FALSE
    BY <1>t
  <2> PICK k : k = n - 1
    BY Zenon
  <2>0. k \in 1 .. n /\ frame - n + k = frame - 1
    BY <1>t
  <2>1. Holds(pending_slots[k], frame - n + k)
    BY <1>1, <2>0, Zenon DEF Queue
  <2>2. ((frame - 1) - 1) % 2 = frame % 2
    BY <1>t
  <2>3. Holds(pending_slots[k], frame - 1)
    BY <2>0, <2>1, Zenon
  <2> QED BY <2>2, <2>3, Zenon DEF Slot, Holds
<1>4. n = 1 => Busy = 0
  <2> SUFFICES ASSUME n = 1, drain.step \in {"lock", "write"} PROVE FALSE
    BY Zenon DEF Busy
  <2>1. worker = "draining"
    BY <1>1 DEF Threads
  <2>2. drain.slot = (frame - 2) % 2 /\ slot_in_use[drain.slot]
    <3>1. Holds(drain.slot, frame - n)
      BY <1>1, <2>1, Zenon DEF Queue
    <3>2. frame - n - 1 = frame - 2
      BY <1>t
    <3> QED BY <3>1, <3>2, Zenon DEF Holds
  <2>3. (frame - 2) % 2 = frame % 2
    BY <1>t
  <2> QED BY <2>2, <2>3, Zenon DEF Slot
<1>5. Busy \in {0, 1}
  BY Zenon DEF Busy
<1> QED BY <1>t, <1>2, <1>3, <1>4, <1>5

\* The frame being drained is the next one to write.
LEMMA Current ==
  ASSUME FlowInv, drain.step \in {"lock", "write"}
  PROVE  content[drain.slot] = Done + 1
<1>1. /\ Queue /\ Threads /\ Order /\ frame \in Nat /\ Done \in Nat
      /\ Len(pending_slots) \in Nat /\ Busy = 1
  BY DoneType DEF FlowInv, QueueTypes, Busy
<1>2. CASE main = "draining"
  BY <1>1, <1>2 DEF Order, Threads, FrameId, Loop
<1>3. CASE worker = "draining"
  <2>1. opts.depth = 1 /\ ~worker_error
    BY <1>1, <1>3, OptionTypes, Zenon DEF Threads, FlowInv, ThreadTypes, OptTypes
  <2> QED BY <1>1, <1>3, <2>1 DEF Queue, Holds
<1> QED BY <1>1, <1>2, <1>3, Zenon DEF Threads

\* The defaults leave a command line a command line, and what the recovery reads
\* as it was.
LEMMA Defaults ==
  ASSUME NEW o \in CommandLines
  PROVE  /\ WithDefaults(o) \in CommandLines
         /\ WithDefaults(o).loss = o.loss /\ WithDefaults(o).frames = o.frames
         /\ WithDefaults(o).depth = o.depth /\ WithDefaults(o).delay = o.delay
         /\ WithDefaults(o).invalidation = o.invalidation
<1> PICK p : p = RefreshPeriod(o)
  BY Zenon
<1> PICK c : c = RefreshCount(o)
  BY Zenon
<1> PICK n : n = IF Recovering(o) /\ o.references = 0 THEN DefaultReferences ELSE o.references
  BY Zenon
<1>0. /\ o.fps \in Nat /\ o.period \in Int /\ o.count \in Int /\ o.references \in Nat
      /\ o.loss \in Nat /\ o.frames \in Nat /\ o.delay \in Nat
  BY Zenon DEF CommandLines
<1>3. p \in Int
  BY <1>0 DEF RefreshPeriod
<1>4. c \in Int
  BY <1>0, <1>3 DEF RefreshCount
<1>1. p \in Int /\ c \in Int /\ n \in Nat
  BY <1>0, <1>3, <1>4, Zenon DEF DefaultReferences
<1>2. WithDefaults(o) = [o EXCEPT !.period = p, !.count = c, !.references = n]
  BY Zenon DEF WithDefaults
<1> QED BY <1>1, <1>2, ZenonT(60) DEF CommandLines

\* Parsing keeps the invariant: the accepted command line passed the checks.
LEMMA FlowParseOptions ==
  ASSUME FlowInv, ParseOptions
  PROVE  FlowInv'
<1>0. ThreadTypes /\ QueueTypes /\ OutTypes /\ Accepted /\ Fresh /\ Threads /\ Order
      /\ Queue /\ Written /\ Kept /\ Passed /\ InvalidateAfterLoss
  BY Zenon DEF FlowInv
<1>o. OptTypes(opts)
  BY OptionTypes, Zenon DEF FlowInv, ThreadTypes
<1>a. opts' \in CommandLines /\ opts'.loss = opts.loss /\ opts'.depth = opts.depth
  BY <1>0, Defaults, Zenon DEF ThreadTypes, ParseOptions
<1>b. UNCHANGED <<worker, drain, frame, content, slot_in_use, pending_slots, input_done,
                  worker_error, out>>
  BY Zenon DEF ParseOptions, queue
<1>1. ThreadTypes'
  BY <1>0, <1>a, <1>b, Zenon DEF ThreadTypes, Places, Before, After, ParseOptions
<1>2. QueueTypes'
  BY <1>0, <1>b, Zenon DEF QueueTypes
<1>3. OutTypes'
  BY <1>0, <1>b, Zenon DEF OutTypes
<1>4. Accepted'
  <2> SUFFICES ASSUME main' = "setup" PROVE Accepted'
    BY Zenon DEF Accepted, ParseOptions
  <2>1. ~Rejected(opts) /\ opts' = WithDefaults(opts) /\ opts \in CommandLines
    BY <1>0, Zenon DEF ParseOptions, ThreadTypes
  <2>2. ~(opts.loss > opts.frames) /\ ~FeedbackTooShort(opts)
    BY <2>1, Zenon DEF Rejected
  <2>3. opts.loss \in Nat /\ opts.frames \in Nat /\ opts.delay \in Nat /\ opts.depth \in {0, 1}
    BY <2>1, Zenon DEF CommandLines
  <2>4. Recovering(opts') => Recovering(opts)
    BY <2>1, Defaults, Zenon DEF Recovering
  <2> QED BY <2>1, <2>2, <2>3, <2>4, Defaults DEF Accepted, FeedbackTooShort
<1>5. Fresh'
  BY <1>0, <1>b, Zenon DEF Fresh, Before, ParseOptions
<1>6. Threads'
  BY <1>0, <1>o, Zenon
     DEF OptTypes, Threads, ThreadTypes, QueueTypes, OutTypes, Accepted, Fresh, Slots,
        None, Places, Before, Claimed, Loop, After, ParseOptions, queue
<1>7. Order'
  BY <1>0, <1>a, <1>b, Zenon DEF Order, Loop, Claimed, ParseOptions
<1>8. Queue'
  BY <1>0, <1>a, <1>b, Zenon DEF Queue, Holds, Done, Busy, Threads
<1>9. Written'
  BY <1>0, <1>a, <1>b
     DEF Written, Fresh, Before, Position, Done, ParseOptions, ThreadTypes, CommandLines
<1>10. Kept'
  BY <1>0, <1>a, <1>b, Zenon DEF Kept, Going, Loop, Claimed, ParseOptions
<1>11. Passed'
  BY <1>0, <1>a, <1>b DEF Passed, Fresh, Before, ParseOptions
<1>12. InvalidateAfterLoss'
  BY <1>0, <1>b, Zenon DEF InvalidateAfterLoss
<1> QED BY <1>1, <1>2, <1>3, <1>4, <1>5, <1>6, <1>7, <1>8, <1>9, <1>10, <1>11, <1>12, Zenon
           DEF FlowInv

\* Starting the frame loop keeps it.
LEMMA FlowOpenFiles ==
  ASSUME FlowInv, OpenFiles
  PROVE  FlowInv'
<1>0. ThreadTypes /\ QueueTypes /\ OutTypes /\ Accepted /\ Fresh /\ Threads /\ Order
      /\ Queue /\ Written /\ Kept /\ Passed /\ InvalidateAfterLoss
  BY Zenon DEF FlowInv
<1>o. OptTypes(opts)
  BY OptionTypes, Zenon DEF FlowInv, ThreadTypes
<1>f. /\ main = "files" /\ worker = "none" /\ frame = 0 /\ code = -1 /\ pending_slots = <<>>
      /\ ~input_done /\ ~worker_error /\ slot_in_use = [s \in Slots |-> FALSE]
      /\ drain.step = "none" /\ Done = 0 /\ Len(out.reference) = 0 /\ Busy = 0
  BY <1>0 DEF Fresh, Before, OpenFiles, Threads, Done, Busy
<1>g. UNCHANGED <<opts, drain, frame, content, slot_in_use, pending_slots, input_done,
                  worker_error, out, code>>
  BY Zenon DEF OpenFiles, queue
<1>h. Done' = Done /\ Busy' = Busy
  BY <1>g, Zenon DEF Done, Busy
<1>m. /\ main' \in {"claim", "teardown"} /\ worker' \in {"none", "wait"}
      /\ main' = "teardown" => worker' = "none"
      /\ (main' = "claim" /\ opts.depth = 1) => worker' = "wait"
      /\ opts.depth = 0 => worker' = "none"
  BY <1>f, <1>o DEF OpenFiles, Throw, OptTypes
<1>1. ThreadTypes'
  BY <1>0, <1>o, ZenonT(60)
     DEF OptTypes, ThreadTypes, Places, Before, Claimed, Loop, After, OpenFiles, Throw,
        queue
<1>2. QueueTypes'
  BY <1>0, <1>o, Zenon DEF OptTypes, QueueTypes, Slots, OpenFiles, Throw, queue
<1>3. OutTypes'
  BY <1>0, <1>o, Zenon
     DEF OptTypes, OutTypes, QueueTypes, ThreadTypes, OpenFiles, Throw, queue
<1>4. Accepted'
  BY <1>0, <1>o, Zenon
     DEF OptTypes, Accepted, ThreadTypes, Places, Threads, OpenFiles, Throw, queue
<1>5. Fresh'
  BY <1>0, <1>o, Zenon
     DEF OptTypes, Fresh, Places, Before, Claimed, Loop, After, ThreadTypes, Threads,
        OpenFiles, Throw, queue
<1>6. Threads'
  <2>1. opts.depth = 1 \/ opts.depth = 0
    BY <1>o, Zenon DEF OptTypes
  <2>2. 0 <= opts.frames
    BY <1>o DEF OptTypes
  <2>3. CASE main' = "teardown"
    BY <1>f, <1>g, <1>m, <2>3, Zenon DEF Threads, Loop, Claimed, After
  <2>4. CASE main' = "claim"
    BY <1>f, <1>g, <1>m, <2>1, <2>2, <2>4, Zenon DEF Threads, Loop, Claimed, After
  <2> QED BY <1>m, <2>3, <2>4, Zenon
<1>7. Order'
  <2>1. main' \notin Claimed /\ main' # "hand_over" /\ main' # "draining"
    BY <1>m, Zenon DEF Claimed
  <2>2. Done' = frame' + 0
    BY <1>f, <1>g, <1>h
  <2> QED BY <2>1, <2>2, Zenon DEF Order
<1>8. Queue'
  BY <1>0, <1>o, <1>f, <1>g, <1>h DEF Queue, OpenFiles
<1>9. Written'
  BY <1>0, <1>g, <1>h, Zenon DEF Written, Position
<1>10. Kept'
  BY <1>0, <1>f, <1>g, <1>h DEF Kept
<1>11. Passed'
  BY <1>0, <1>o
     DEF OptTypes, Passed, ThreadTypes, Threads, Complete, Done, Places, Before, Claimed,
        Loop, After, OpenFiles, Throw, queue
<1>12. InvalidateAfterLoss'
  BY <1>0, <1>o, Zenon
     DEF OptTypes, InvalidateAfterLoss, ThreadTypes, QueueTypes, OutTypes, Threads, Fresh,
        Places, Before, Claimed, Loop, After, OpenFiles, Throw, queue
<1> QED BY <1>1, <1>2, <1>3, <1>4, <1>5, <1>6, <1>7, <1>8, <1>9, <1>10, <1>11, <1>12, Zenon
           DEF FlowInv

\* Claiming a slot keeps it: the slot is free, so its frame is written (Room).
LEMMA FlowClaimSlot ==
  ASSUME FlowInv, ClaimSlot
  PROVE  FlowInv'
<1>0. ThreadTypes /\ QueueTypes /\ OutTypes /\ Accepted /\ Fresh /\ Threads /\ Order
      /\ Queue /\ Written /\ Kept /\ Passed /\ InvalidateAfterLoss
  BY Zenon DEF FlowInv
<1>o. OptTypes(opts)
  BY OptionTypes, Zenon DEF FlowInv, ThreadTypes
<1>1. ThreadTypes'
  BY <1>0, <1>o, Zenon
     DEF OptTypes, ThreadTypes, Places, Before, Claimed, Loop, After, ClaimSlot, LoopHead,
        SlotReady, Caught, Slot, queue
<1>2. QueueTypes'
  BY <1>0, <1>o, Zenon
     DEF OptTypes, QueueTypes, Slots, ClaimSlot, LoopHead, SlotReady, Caught, Slot, queue
<1>3. OutTypes'
  BY <1>0, <1>o, Zenon
     DEF OptTypes, OutTypes, QueueTypes, ThreadTypes, ClaimSlot, LoopHead, SlotReady,
        Caught, Slot, queue
<1>4. Accepted'
  BY <1>0, <1>o, Zenon
     DEF OptTypes, Accepted, ThreadTypes, Places, Threads, ClaimSlot, LoopHead, SlotReady,
        Caught, Slot, queue
<1>5. Fresh'
  BY <1>0, <1>o, Zenon
     DEF OptTypes, Fresh, Places, Before, Claimed, Loop, After, ThreadTypes, Threads,
        ClaimSlot, LoopHead, SlotReady, Caught, Slot, queue
<1>6. Threads'
  BY <1>0, <1>o, Zenon
     DEF OptTypes, Threads, ThreadTypes, QueueTypes, OutTypes, Accepted, Fresh, Slots,
        None, Places, Before, Claimed, Loop, After, ClaimSlot, LoopHead, SlotReady, Caught,
           Slot, queue
<1>7. Order'
  <2>d. /\ Done' = Done /\ Busy' = Busy
        /\ UNCHANGED <<opts, drain, frame, content, slot_in_use>> /\ main = "claim"
    BY Zenon DEF ClaimSlot, LoopHead, Done, Busy, queue
  <2> SUFFICES ASSUME main' = "invalidate" PROVE Order'
    BY <1>0, <2>d, Zenon DEF Order, ClaimSlot, Caught, Claimed, Loop, Slot, FrameId
  <2>0. Slot \in Slots /\ frame \in Nat /\ Done \in Nat
    BY <1>0, DoneType DEF QueueTypes, Slots, Slot
  <2>1. CASE opts.depth = 0
    <3>1. Done = frame /\ ~slot_in_use[Slot]
      BY <1>0, <2>1, <2>0, <2>d DEF Order, Threads, Loop
    <3> QED BY <3>1, <2>0, <2>d, <2>1 DEF Order, Slot
  <2>2. CASE opts.depth = 1
    <3>1. ~worker_error /\ ~slot_in_use[Slot]
      BY <1>0, <2>2, <2>d, Zenon DEF ClaimSlot, SlotReady, Caught, QueueTypes
    <3>2. Done >= frame - 1
      BY <2>2, <3>1, Room, Zenon
    <3> QED BY <3>1, <3>2, <2>0, <2>d, <2>2 DEF Order, Slot
  <2> QED BY <2>1, <2>2, <1>o, Zenon DEF OptTypes
<1>8. Queue'
  BY <1>0, <1>o, Zenon
     DEF OptTypes, Queue, ThreadTypes, QueueTypes, OutTypes, Threads, Fresh, Order, Done,
        Busy, Slot, FrameId, Slots, None, Holds, Places, Before, Claimed, Loop, After,
           ClaimSlot, LoopHead, SlotReady, Caught, queue
<1>9. Written'
  BY <1>0, <1>o, Zenon
     DEF OptTypes, Written, ThreadTypes, QueueTypes, OutTypes, Threads, Fresh, Done,
        Position, Slots, None, Slot, FrameId, Places, Before, Claimed, Loop, After,
           ClaimSlot, LoopHead, SlotReady, Caught, queue
<1>10. Kept'
  BY <1>0, <1>o, Zenon
     DEF OptTypes, Kept, ThreadTypes, QueueTypes, OutTypes, Threads, Fresh, Going, Done,
        Slot, FrameId, Slots, None, Places, Before, Claimed, Loop, After, ClaimSlot,
           LoopHead, SlotReady, Caught, queue
<1>11. Passed'
  BY <1>0, <1>o, Zenon
     DEF OptTypes, Passed, ThreadTypes, Threads, Complete, Done, Places, Before, Claimed,
        Loop, After, ClaimSlot, LoopHead, SlotReady, Caught, Slot, queue
<1>12. InvalidateAfterLoss'
  BY <1>0, <1>o, Zenon
     DEF OptTypes, InvalidateAfterLoss, ThreadTypes, QueueTypes, OutTypes, Threads, Fresh,
        Places, Before, Claimed, Loop, After, ClaimSlot, LoopHead, SlotReady, Caught, Slot,
           queue
<1> QED BY <1>1, <1>2, <1>3, <1>4, <1>5, <1>6, <1>7, <1>8, <1>9, <1>10, <1>11, <1>12, Zenon
           DEF FlowInv

\* Invalidating keeps it: the lost frame is delay frames back, and all but one
\* of those before the current one are written.
LEMMA FlowInvalidateReferences ==
  ASSUME FlowInv, InvalidateReferences
  PROVE  FlowInv'
<1>0. ThreadTypes /\ QueueTypes /\ OutTypes /\ Accepted /\ Fresh /\ Threads /\ Order
      /\ Queue /\ Written /\ Kept /\ Passed /\ InvalidateAfterLoss
  BY Zenon DEF FlowInv
<1>o. OptTypes(opts)
  BY OptionTypes, Zenon DEF FlowInv, ThreadTypes
<1>d. /\ out'.written = out.written /\ out'.dropped = out.dropped
      /\ out'.reference = out.reference
      /\ Done' = Done /\ Busy' = Busy
  BY <1>0, Zenon DEF InvalidateReferences, Done, Busy, OutTypes
<1>e. UNCHANGED <<opts, worker, drain, frame, content, slot_in_use, pending_slots,
                  input_done, worker_error, code>>
  BY Zenon DEF InvalidateReferences, queue
<1>1. ThreadTypes'
  BY <1>0, <1>o, Zenon
     DEF OptTypes, ThreadTypes, Places, Before, Claimed, Loop, After, InvalidateReferences,
        Caught, FrameId, queue
<1>2. QueueTypes'
  BY <1>0, <1>o, Zenon
     DEF OptTypes, QueueTypes, Slots, InvalidateReferences, Caught, FrameId, queue
<1>3. OutTypes'
  BY <1>0, <1>o, ZenonT(60)
     DEF OptTypes, OutTypes, QueueTypes, ThreadTypes, InvalidateReferences, Caught,
        FrameId, queue
<1>4. Accepted'
  BY <1>0, <1>o, Zenon
     DEF OptTypes, Accepted, ThreadTypes, Places, Threads, InvalidateReferences, Caught,
        FrameId, queue
<1>5. Fresh'
  BY <1>0, <1>o, Zenon
     DEF OptTypes, Fresh, Places, Before, Claimed, Loop, After, ThreadTypes, Threads,
        InvalidateReferences, Caught, FrameId, queue
<1>6. Threads'
  BY <1>0, <1>o, Zenon
     DEF OptTypes, Threads, ThreadTypes, QueueTypes, OutTypes, Accepted, Fresh, Slots,
        None, Places, Before, Claimed, Loop, After, InvalidateReferences, Caught, FrameId,
           queue
<1>7. Order'
  BY <1>0, <1>d, <1>e, Zenon
     DEF Order, Slot, FrameId, InvalidateReferences, Caught, Claimed, Loop
<1>8. Queue'
  BY <1>0, <1>d, <1>e, Zenon DEF Queue, Holds
<1>9. Written'
  BY <1>0, <1>d, <1>e, Zenon DEF Written, Position
<1>10. Kept'
  BY <1>0, <1>d, <1>e, Zenon DEF Kept, Going, InvalidateReferences, Caught, Claimed, Loop
<1>11. Passed'
  BY <1>0, <1>e, Zenon DEF Passed, Threads, InvalidateReferences, Caught
<1>12. InvalidateAfterLoss'
  <2> SUFFICES ASSUME out'.invalidated, ~out.invalidated PROVE out.dropped = 1
    BY <1>0, <1>d, Zenon DEF InvalidateAfterLoss
  <2>1. main = "invalidate" /\ Recovering(opts) /\ frame + 1 = opts.loss + opts.delay
    BY Zenon DEF InvalidateReferences, FrameId
  <2>2. Done \in Nat /\ frame \in Nat
    BY <1>0, DoneType, Zenon DEF QueueTypes
  <2>3. opts.loss <= Done
    <3>1. CASE opts.depth = 0
      <4>1. Done = frame
        BY <1>0, <2>1, <3>1, <2>2 DEF Order, Loop, Claimed
      <4> QED BY <4>1, <2>1, <2>2, <1>o DEF OptTypes
    <3>2. CASE opts.depth = 1
      <4>1. Done >= frame - 1 /\ opts.delay >= 2
        BY <1>0, <2>1, <3>2, Zenon DEF Order, Claimed, Accepted
      <4> QED BY <4>1, <2>1, <2>2, <1>o DEF OptTypes
    <3> QED BY <3>1, <3>2, <1>o, Zenon DEF OptTypes
  <2> QED BY <1>0, <2>1, <2>3, Zenon DEF Written, Recovering
<1> QED BY <1>1, <1>2, <1>3, <1>4, <1>5, <1>6, <1>7, <1>8, <1>9, <1>10, <1>11, <1>12, Zenon
           DEF FlowInv

\* Encoding keeps it: the slot it fills is not in the queue.
LEMMA FlowEncodePicture ==
  ASSUME FlowInv, EncodePicture
  PROVE  FlowInv'
<1>0. ThreadTypes /\ QueueTypes /\ OutTypes /\ Accepted /\ Fresh /\ Threads /\ Order
      /\ Queue /\ Written /\ Kept /\ Passed /\ InvalidateAfterLoss
  BY Zenon DEF FlowInv
<1>o. OptTypes(opts)
  BY OptionTypes, Zenon DEF FlowInv, ThreadTypes
<1>d. /\ out'.written = out.written /\ out'.dropped = out.dropped
      /\ out'.reference = out.reference
      /\ Done' = Done /\ Busy' = Busy
  BY <1>0, Zenon DEF EncodePicture, Done, Busy, OutTypes
<1>e. UNCHANGED <<opts, worker, drain, frame, slot_in_use, pending_slots, input_done,
                  worker_error, code>>
  BY Zenon DEF EncodePicture, queue
<1>s. Slot \in Slots /\ frame \in Nat /\ FrameId \in Nat /\ Slot' = Slot /\ FrameId' = FrameId
  BY <1>0, <1>e DEF QueueTypes, Slots, Slot, FrameId
<1>c. content' = content \/ (main' = "hand_over" /\ content' = [content EXCEPT ![Slot] = FrameId])
  BY Zenon DEF EncodePicture
<1>m. main = "encode" /\ main' \in {"hand_over", "catch"} /\ (main' = "hand_over" => content'[Slot] = FrameId)
  BY <1>0, <1>s, Zenon DEF EncodePicture, Caught, QueueTypes
<1>1. ThreadTypes'
  BY <1>0, <1>e, <1>m, ZenonT(60) DEF ThreadTypes, Places, Loop, Claimed
<1>2. QueueTypes'
  BY <1>0, <1>c, <1>e, <1>s, Zenon DEF QueueTypes
<1>3. OutTypes'
  BY <1>0, <1>o, Zenon
     DEF OptTypes, OutTypes, QueueTypes, ThreadTypes, EncodePicture, Caught, FrameId, Slot,
        queue
<1>4. Accepted'
  BY <1>0, <1>e, <1>m, Zenon DEF Accepted
<1>5. Fresh'
  BY <1>m, Zenon DEF Fresh, Before
<1>6. Threads'
  BY <1>0, <1>e, <1>m, Zenon DEF Threads, Loop, Claimed, After
<1>7. Order'
  BY <1>0, <1>d, <1>e, <1>s, <1>m, Zenon DEF Order, Claimed, Loop
<1>8. Queue'
  <2> SUFFICES ASSUME opts.depth = 1, ~worker_error PROVE Queue'
    BY <1>e, Zenon DEF Queue
  <2>1. ~slot_in_use[Slot]
    BY <1>0, <1>m, Zenon DEF Order, Claimed
  <2>2. ASSUME NEW s \in Slots, NEW id, Holds(s, id) PROVE Holds(s, id)'
    BY <1>0, <2>1, <2>2, <1>c, <1>e, <1>s, Zenon DEF Holds, QueueTypes
  <2>3. \A k \in 1 .. Len(pending_slots) : pending_slots[k] \in Slots
    BY <1>0 DEF QueueTypes
  <2>4. worker = "draining" => drain.slot \in Slots
    BY <1>0, Zenon DEF Threads
  <2> QED BY <1>0, <1>d, <1>e, <2>2, <2>3, <2>4, Zenon DEF Queue
<1>9. Written'
  BY <1>0, <1>d, <1>e, Zenon DEF Written, Position
<1>10. Kept'
  BY <1>0, <1>d, <1>e, <1>m, Zenon DEF Kept, Going, Claimed, Loop
<1>11. Passed'
  BY <1>m, Zenon DEF Passed
<1>12. InvalidateAfterLoss'
  BY <1>0, <1>d, Zenon DEF InvalidateAfterLoss, EncodePicture, OutTypes
<1> QED BY <1>1, <1>2, <1>3, <1>4, <1>5, <1>6, <1>7, <1>8, <1>9, <1>10, <1>11, <1>12, Zenon
           DEF FlowInv

\* Acquiring a resource keeps it.
LEMMA FlowAcquire ==
  ASSUME FlowInv, Acquire
  PROVE  FlowInv'
<1>0. ThreadTypes /\ QueueTypes /\ OutTypes /\ Accepted /\ Fresh /\ Threads /\ Order
      /\ Queue /\ Written /\ Kept /\ Passed /\ InvalidateAfterLoss
  BY Zenon DEF FlowInv
<1>o. OptTypes(opts)
  BY OptionTypes, Zenon DEF FlowInv, ThreadTypes
<1>1. ThreadTypes'
  BY <1>0, <1>o, ZenonT(60)
     DEF OptTypes, ThreadTypes, Places, Before, Claimed, Loop, After, Acquire, Throw, queue
<1>2. QueueTypes'
  BY <1>0, <1>o, Zenon DEF OptTypes, QueueTypes, Slots, Acquire, Throw, queue
<1>3. OutTypes'
  BY <1>0, <1>o, Zenon
     DEF OptTypes, OutTypes, QueueTypes, ThreadTypes, Acquire, Throw, queue
<1>4. Accepted'
  BY <1>0, <1>o, Zenon
     DEF OptTypes, Accepted, ThreadTypes, Places, Threads, Acquire, Throw, queue
<1>5. Fresh'
  BY <1>0, <1>o, Zenon
     DEF OptTypes, Fresh, Places, Before, Claimed, Loop, After, ThreadTypes, Threads,
        Acquire, Throw, queue
<1>6. Threads'
  BY <1>0, <1>o, Zenon
     DEF OptTypes, Threads, ThreadTypes, QueueTypes, OutTypes, Accepted, Fresh, Slots,
        None, Places, Before, Claimed, Loop, After, Acquire, Throw, queue
<1>7. Order'
  BY <1>0, <1>o, Zenon
     DEF OptTypes, Order, ThreadTypes, QueueTypes, OutTypes, Threads, Fresh, Queue, Done,
        Busy, Slot, FrameId, Slots, None, Places, Before, Claimed, Loop, After, Acquire,
           Throw, queue
<1>8. Queue'
  BY <1>0, <1>o, ZenonT(60)
     DEF OptTypes, Queue, ThreadTypes, QueueTypes, OutTypes, Threads, Fresh, Order, Done,
        Busy, Slot, FrameId, Slots, None, Holds, Places, Before, Claimed, Loop, After,
           Acquire, Throw, queue
<1>9. Written'
  BY <1>0, <1>o, Zenon
     DEF OptTypes, Written, ThreadTypes, QueueTypes, OutTypes, Threads, Fresh, Done,
        Position, Slots, None, Slot, FrameId, Places, Before, Claimed, Loop, After,
           Acquire, Throw, queue
<1>10. Kept'
  BY <1>0, <1>o, Zenon
     DEF OptTypes, Kept, ThreadTypes, QueueTypes, OutTypes, Threads, Fresh, Going, Done,
        Slot, FrameId, Slots, None, Places, Before, Claimed, Loop, After, Acquire, Throw,
           queue
<1>11. Passed'
  BY <1>0, <1>o
     DEF OptTypes, Passed, ThreadTypes, Threads, Complete, Done, Places, Before, Claimed,
        Loop, After, Acquire, Throw, queue
<1>12. InvalidateAfterLoss'
  BY <1>0, <1>o, Zenon
     DEF OptTypes, InvalidateAfterLoss, ThreadTypes, QueueTypes, OutTypes, Threads, Fresh,
        Places, Before, Claimed, Loop, After, Acquire, Throw, queue
<1> QED BY <1>1, <1>2, <1>3, <1>4, <1>5, <1>6, <1>7, <1>8, <1>9, <1>10, <1>11, <1>12, Zenon
           DEF FlowInv

\* The pixel self-tests keep it.
LEMMA FlowSelfTestConversion ==
  ASSUME FlowInv, SelfTestConversion
  PROVE  FlowInv'
<1>0. ThreadTypes /\ QueueTypes /\ OutTypes /\ Accepted /\ Fresh /\ Threads /\ Order
      /\ Queue /\ Written /\ Kept /\ Passed /\ InvalidateAfterLoss
  BY Zenon DEF FlowInv
<1>o. OptTypes(opts)
  BY OptionTypes, Zenon DEF FlowInv, ThreadTypes
<1>1. ThreadTypes'
  BY <1>0, <1>o, ZenonT(60)
     DEF OptTypes, ThreadTypes, Places, Before, Claimed, Loop, After, SelfTestConversion,
        Throw, queue
<1>2. QueueTypes'
  BY <1>0, <1>o, Zenon DEF OptTypes, QueueTypes, Slots, SelfTestConversion, Throw, queue
<1>3. OutTypes'
  BY <1>0, <1>o, Zenon
     DEF OptTypes, OutTypes, QueueTypes, ThreadTypes, SelfTestConversion, Throw, queue
<1>4. Accepted'
  BY <1>0, <1>o, Zenon
     DEF OptTypes, Accepted, ThreadTypes, Places, Threads, SelfTestConversion, Throw, queue
<1>5. Fresh'
  BY <1>0, <1>o, Zenon
     DEF OptTypes, Fresh, Places, Before, Claimed, Loop, After, ThreadTypes, Threads,
        SelfTestConversion, Throw, queue
<1>6. Threads'
  BY <1>0, <1>o, Zenon
     DEF OptTypes, Threads, ThreadTypes, QueueTypes, OutTypes, Accepted, Fresh, Slots,
        None, Places, Before, Claimed, Loop, After, SelfTestConversion, Throw, queue
<1>7. Order'
  BY <1>0, <1>o, Zenon
     DEF OptTypes, Order, ThreadTypes, QueueTypes, OutTypes, Threads, Fresh, Queue, Done,
        Busy, Slot, FrameId, Slots, None, Places, Before, Claimed, Loop, After,
           SelfTestConversion, Throw, queue
<1>8. Queue'
  BY <1>0, <1>o, Zenon
     DEF OptTypes, Queue, ThreadTypes, QueueTypes, OutTypes, Threads, Fresh, Order, Done,
        Busy, Slot, FrameId, Slots, None, Holds, Places, Before, Claimed, Loop, After,
           SelfTestConversion, Throw, queue
<1>9. Written'
  BY <1>0, <1>o, Zenon
     DEF OptTypes, Written, ThreadTypes, QueueTypes, OutTypes, Threads, Fresh, Done,
        Position, Slots, None, Slot, FrameId, Places, Before, Claimed, Loop, After,
           SelfTestConversion, Throw, queue
<1>10. Kept'
  BY <1>0, <1>o, Zenon
     DEF OptTypes, Kept, ThreadTypes, QueueTypes, OutTypes, Threads, Fresh, Going, Done,
        Slot, FrameId, Slots, None, Places, Before, Claimed, Loop, After,
           SelfTestConversion, Throw, queue
<1>11. Passed'
  BY <1>0, <1>o
     DEF OptTypes, Passed, ThreadTypes, Threads, Complete, Done, Places, Before, Claimed,
        Loop, After, SelfTestConversion, Throw, queue
<1>12. InvalidateAfterLoss'
  BY <1>0, <1>o, Zenon
     DEF OptTypes, InvalidateAfterLoss, ThreadTypes, QueueTypes, OutTypes, Threads, Fresh,
        Places, Before, Claimed, Loop, After, SelfTestConversion, Throw, queue
<1> QED BY <1>1, <1>2, <1>3, <1>4, <1>5, <1>6, <1>7, <1>8, <1>9, <1>10, <1>11, <1>12, Zenon
           DEF FlowInv

\* Capture and conversion keep it.
LEMMA FlowCaptureAndConvert ==
  ASSUME FlowInv, CaptureAndConvert
  PROVE  FlowInv'
<1>0. ThreadTypes /\ QueueTypes /\ OutTypes /\ Accepted /\ Fresh /\ Threads /\ Order
      /\ Queue /\ Written /\ Kept /\ Passed /\ InvalidateAfterLoss
  BY Zenon DEF FlowInv
<1>o. OptTypes(opts)
  BY OptionTypes, Zenon DEF FlowInv, ThreadTypes
<1>1. ThreadTypes'
  BY <1>0, <1>o, ZenonT(60)
     DEF OptTypes, ThreadTypes, Places, Before, Claimed, Loop, After, CaptureAndConvert,
        Caught, queue
<1>2. QueueTypes'
  BY <1>0, <1>o, Zenon DEF OptTypes, QueueTypes, Slots, CaptureAndConvert, Caught, queue
<1>3. OutTypes'
  BY <1>0, <1>o, Zenon
     DEF OptTypes, OutTypes, QueueTypes, ThreadTypes, CaptureAndConvert, Caught, queue
<1>4. Accepted'
  BY <1>0, <1>o, Zenon
     DEF OptTypes, Accepted, ThreadTypes, Places, Threads, CaptureAndConvert, Caught, queue
<1>5. Fresh'
  BY <1>0, <1>o, Zenon
     DEF OptTypes, Fresh, Places, Before, Claimed, Loop, After, ThreadTypes, Threads,
        CaptureAndConvert, Caught, queue
<1>6. Threads'
  BY <1>0, <1>o, Zenon
     DEF OptTypes, Threads, ThreadTypes, QueueTypes, OutTypes, Accepted, Fresh, Slots,
        None, Places, Before, Claimed, Loop, After, CaptureAndConvert, Caught, queue
<1>7. Order'
  BY <1>0, <1>o, Zenon
     DEF OptTypes, Order, ThreadTypes, QueueTypes, OutTypes, Threads, Fresh, Queue, Done,
        Busy, Slot, FrameId, Slots, None, Places, Before, Claimed, Loop, After,
           CaptureAndConvert, Caught, queue
<1>8. Queue'
  BY <1>0, <1>o, Zenon
     DEF OptTypes, Queue, ThreadTypes, QueueTypes, OutTypes, Threads, Fresh, Order, Done,
        Busy, Slot, FrameId, Slots, None, Holds, Places, Before, Claimed, Loop, After,
           CaptureAndConvert, Caught, queue
<1>9. Written'
  BY <1>0, <1>o, Zenon
     DEF OptTypes, Written, ThreadTypes, QueueTypes, OutTypes, Threads, Fresh, Done,
        Position, Slots, None, Slot, FrameId, Places, Before, Claimed, Loop, After,
           CaptureAndConvert, Caught, queue
<1>10. Kept'
  BY <1>0, <1>o, Zenon
     DEF OptTypes, Kept, ThreadTypes, QueueTypes, OutTypes, Threads, Fresh, Going, Done,
        Slot, FrameId, Slots, None, Places, Before, Claimed, Loop, After,
           CaptureAndConvert, Caught, queue
<1>11. Passed'
  BY <1>0, <1>o, Zenon
     DEF OptTypes, Passed, ThreadTypes, Threads, Complete, Done, Places, Before, Claimed,
        Loop, After, CaptureAndConvert, Caught, queue
<1>12. InvalidateAfterLoss'
  BY <1>0, <1>o, Zenon
     DEF OptTypes, InvalidateAfterLoss, ThreadTypes, QueueTypes, OutTypes, Threads, Fresh,
        Places, Before, Claimed, Loop, After, CaptureAndConvert, Caught, queue
<1> QED BY <1>1, <1>2, <1>3, <1>4, <1>5, <1>6, <1>7, <1>8, <1>9, <1>10, <1>11, <1>12, Zenon
           DEF FlowInv

\* Mapping the input keeps it.
LEMMA FlowMapInput ==
  ASSUME FlowInv, MapInput
  PROVE  FlowInv'
<1>0. ThreadTypes /\ QueueTypes /\ OutTypes /\ Accepted /\ Fresh /\ Threads /\ Order
      /\ Queue /\ Written /\ Kept /\ Passed /\ InvalidateAfterLoss
  BY Zenon DEF FlowInv
<1>o. OptTypes(opts)
  BY OptionTypes, Zenon DEF FlowInv, ThreadTypes
<1>1. ThreadTypes'
  BY <1>0, <1>o, ZenonT(60)
     DEF OptTypes, ThreadTypes, Places, Before, Claimed, Loop, After, MapInput, Caught,
        queue
<1>2. QueueTypes'
  BY <1>0, <1>o, Zenon DEF OptTypes, QueueTypes, Slots, MapInput, Caught, queue
<1>3. OutTypes'
  BY <1>0, <1>o, Zenon
     DEF OptTypes, OutTypes, QueueTypes, ThreadTypes, MapInput, Caught, queue
<1>4. Accepted'
  BY <1>0, <1>o, Zenon
     DEF OptTypes, Accepted, ThreadTypes, Places, Threads, MapInput, Caught, queue
<1>5. Fresh'
  BY <1>0, <1>o, Zenon
     DEF OptTypes, Fresh, Places, Before, Claimed, Loop, After, ThreadTypes, Threads,
        MapInput, Caught, queue
<1>6. Threads'
  BY <1>0, <1>o, Zenon
     DEF OptTypes, Threads, ThreadTypes, QueueTypes, OutTypes, Accepted, Fresh, Slots,
        None, Places, Before, Claimed, Loop, After, MapInput, Caught, queue
<1>7. Order'
  BY <1>0, <1>o, Zenon
     DEF OptTypes, Order, ThreadTypes, QueueTypes, OutTypes, Threads, Fresh, Queue, Done,
        Busy, Slot, FrameId, Slots, None, Places, Before, Claimed, Loop, After, MapInput,
           Caught, queue
<1>8. Queue'
  BY <1>0, <1>o, Zenon
     DEF OptTypes, Queue, ThreadTypes, QueueTypes, OutTypes, Threads, Fresh, Order, Done,
        Busy, Slot, FrameId, Slots, None, Holds, Places, Before, Claimed, Loop, After,
           MapInput, Caught, queue
<1>9. Written'
  BY <1>0, <1>o, Zenon
     DEF OptTypes, Written, ThreadTypes, QueueTypes, OutTypes, Threads, Fresh, Done,
        Position, Slots, None, Slot, FrameId, Places, Before, Claimed, Loop, After,
           MapInput, Caught, queue
<1>10. Kept'
  BY <1>0, <1>o, Zenon
     DEF OptTypes, Kept, ThreadTypes, QueueTypes, OutTypes, Threads, Fresh, Going, Done,
        Slot, FrameId, Slots, None, Places, Before, Claimed, Loop, After, MapInput, Caught,
           queue
<1>11. Passed'
  BY <1>0, <1>o, Zenon
     DEF OptTypes, Passed, ThreadTypes, Threads, Complete, Done, Places, Before, Claimed,
        Loop, After, MapInput, Caught, queue
<1>12. InvalidateAfterLoss'
  BY <1>0, <1>o, Zenon
     DEF OptTypes, InvalidateAfterLoss, ThreadTypes, QueueTypes, OutTypes, Threads, Fresh,
        Places, Before, Claimed, Loop, After, MapInput, Caught, queue
<1> QED BY <1>1, <1>2, <1>3, <1>4, <1>5, <1>6, <1>7, <1>8, <1>9, <1>10, <1>11, <1>12, Zenon
           DEF FlowInv

\* Ending the input keeps it.
LEMMA FlowFinishInput ==
  ASSUME FlowInv, FinishInput
  PROVE  FlowInv'
<1>0. ThreadTypes /\ QueueTypes /\ OutTypes /\ Accepted /\ Fresh /\ Threads /\ Order
      /\ Queue /\ Written /\ Kept /\ Passed /\ InvalidateAfterLoss
  BY Zenon DEF FlowInv
<1>o. OptTypes(opts)
  BY OptionTypes, Zenon DEF FlowInv, ThreadTypes
<1>1. ThreadTypes'
  BY <1>0, <1>o, Zenon
     DEF OptTypes, ThreadTypes, Places, Before, Claimed, Loop, After, FinishInput, Throw,
        queue
<1>2. QueueTypes'
  BY <1>0, <1>o, Zenon
     DEF OptTypes, QueueTypes, Slots, FinishInput, Throw, queue
<1>3. OutTypes'
  BY <1>0, <1>o, Zenon
     DEF OptTypes, OutTypes, QueueTypes, ThreadTypes, FinishInput, Throw, queue
<1>4. Accepted'
  BY <1>0, <1>o, Zenon
     DEF OptTypes, Accepted, ThreadTypes, Places, Threads, FinishInput, Throw, queue
<1>5. Fresh'
  BY <1>0, <1>o, Zenon
     DEF OptTypes, Fresh, Places, Before, Claimed, Loop, After, ThreadTypes, Threads,
        FinishInput, Throw, queue
<1>6. Threads'
  BY <1>0, <1>o, ZenonT(60)
     DEF OptTypes, Threads, ThreadTypes, QueueTypes, OutTypes, Accepted, Fresh, Slots,
        None, Places, Before, Claimed, Loop, After, FinishInput, Throw, queue
<1>7. Order'
  BY <1>0, <1>o, Zenon
     DEF OptTypes, Order, ThreadTypes, QueueTypes, OutTypes, Threads, Fresh, Queue, Done,
        Busy, Slot, FrameId, Slots, None, Places, Before, Claimed, Loop, After,
           FinishInput, Throw, queue
<1>8. Queue'
  BY <1>0, <1>o, Zenon
     DEF OptTypes, Queue, ThreadTypes, QueueTypes, OutTypes, Threads, Fresh, Order, Done,
        Busy, Slot, FrameId, Slots, None, Holds, Places, Before, Claimed, Loop, After,
           FinishInput, Throw, queue
<1>9. Written'
  BY <1>0, <1>o, Zenon
     DEF OptTypes, Written, ThreadTypes, QueueTypes, OutTypes, Threads, Fresh, Done,
        Position, Slots, None, Slot, FrameId, Places, Before, Claimed, Loop, After,
           FinishInput, Throw, queue
<1>10. Kept'
  BY <1>0, <1>o, ZenonT(60)
     DEF OptTypes, Kept, ThreadTypes, QueueTypes, OutTypes, Threads, Fresh, Going, Done,
        Slot, FrameId, Slots, None, Places, Before, Claimed, Loop, After, FinishInput,
           Throw, queue
<1>11. Passed'
  BY <1>0 DEF Passed, Threads, FinishInput, Throw, queue
<1>12. InvalidateAfterLoss'
  BY <1>0, <1>o, Zenon
     DEF OptTypes, InvalidateAfterLoss, ThreadTypes, QueueTypes, OutTypes, Threads, Fresh,
        Places, Before, Claimed, Loop, After, FinishInput, Throw, queue
<1> QED BY <1>1, <1>2, <1>3, <1>4, <1>5, <1>6, <1>7, <1>8, <1>9, <1>10, <1>11, <1>12, Zenon
           DEF FlowInv

\* The join keeps it: main goes on only when the worker left no error.
LEMMA FlowJoin ==
  ASSUME FlowInv, Join
  PROVE  FlowInv'
<1>0. ThreadTypes /\ QueueTypes /\ OutTypes /\ Accepted /\ Fresh /\ Threads /\ Order
      /\ Queue /\ Written /\ Kept /\ Passed /\ InvalidateAfterLoss
  BY Zenon DEF FlowInv
<1>o. OptTypes(opts)
  BY OptionTypes, Zenon DEF FlowInv, ThreadTypes
<1>1. ThreadTypes'
  BY <1>0, <1>o, Zenon
     DEF OptTypes, ThreadTypes, Places, Before, Claimed, Loop, After, Join, Throw, queue
<1>2. QueueTypes'
  BY <1>0, <1>o, Zenon DEF OptTypes, QueueTypes, Slots, Join, Throw, queue
<1>3. OutTypes'
  BY <1>0, <1>o, Zenon DEF OptTypes, OutTypes, QueueTypes, ThreadTypes, Join, Throw, queue
<1>4. Accepted'
  BY <1>0, <1>o, Zenon
     DEF OptTypes, Accepted, ThreadTypes, Places, Threads, Join, Throw, queue
<1>5. Fresh'
  BY <1>0, <1>o, Zenon
     DEF OptTypes, Fresh, Places, Before, Claimed, Loop, After, ThreadTypes, Threads, Join,
        Throw, queue
<1>6. Threads'
  BY <1>0, <1>o, Zenon
     DEF OptTypes, Threads, ThreadTypes, QueueTypes, OutTypes, Accepted, Fresh, Slots,
        None, Places, Before, Claimed, Loop, After, Join, Throw, queue
<1>7. Order'
  BY <1>0, <1>o, Zenon
     DEF OptTypes, Order, ThreadTypes, QueueTypes, OutTypes, Threads, Fresh, Queue, Done,
        Busy, Slot, FrameId, Slots, None, Places, Before, Claimed, Loop, After, Join,
           Throw, queue
<1>8. Queue'
  BY <1>0, <1>o, Zenon
     DEF OptTypes, Queue, ThreadTypes, QueueTypes, OutTypes, Threads, Fresh, Order, Done,
        Busy, Slot, FrameId, Slots, None, Holds, Places, Before, Claimed, Loop, After,
           Join, Throw, queue
<1>9. Written'
  BY <1>0, <1>o, Zenon
     DEF OptTypes, Written, ThreadTypes, QueueTypes, OutTypes, Threads, Fresh, Done,
        Position, Slots, None, Slot, FrameId, Places, Before, Claimed, Loop, After, Join,
           Throw, queue
<1>10. Kept'
  BY <1>0, <1>o, Zenon
     DEF OptTypes, Kept, ThreadTypes, QueueTypes, OutTypes, Threads, Fresh, Going, Done,
        Slot, FrameId, Slots, None, Places, Before, Claimed, Loop, After, Join, Throw, queue
<1>11. Passed'
  BY <1>0 DEF Passed, Threads, Join, Throw, queue
<1>12. InvalidateAfterLoss'
  BY <1>0, <1>o, Zenon
     DEF OptTypes, InvalidateAfterLoss, ThreadTypes, QueueTypes, OutTypes, Threads, Fresh,
        Places, Before, Claimed, Loop, After, Join, Throw, queue
<1> QED BY <1>1, <1>2, <1>3, <1>4, <1>5, <1>6, <1>7, <1>8, <1>9, <1>10, <1>11, <1>12, Zenon
           DEF FlowInv

\* Sending the end of stream keeps it.
LEMMA FlowSendEos ==
  ASSUME FlowInv, SendEos
  PROVE  FlowInv'
<1>0. ThreadTypes /\ QueueTypes /\ OutTypes /\ Accepted /\ Fresh /\ Threads /\ Order
      /\ Queue /\ Written /\ Kept /\ Passed /\ InvalidateAfterLoss
  BY Zenon DEF FlowInv
<1>o. OptTypes(opts)
  BY OptionTypes, Zenon DEF FlowInv, ThreadTypes
<1>1. ThreadTypes'
  BY <1>0, <1>o, ZenonT(60)
     DEF OptTypes, ThreadTypes, Places, Before, Claimed, Loop, After, SendEos, Throw, queue
<1>2. QueueTypes'
  BY <1>0, <1>o, Zenon DEF OptTypes, QueueTypes, Slots, SendEos, Throw, queue
<1>3. OutTypes'
  BY <1>0, <1>o, Zenon
     DEF OptTypes, OutTypes, QueueTypes, ThreadTypes, SendEos, Throw, queue
<1>4. Accepted'
  BY <1>0, <1>o, Zenon
     DEF OptTypes, Accepted, ThreadTypes, Places, Threads, SendEos, Throw, queue
<1>5. Fresh'
  BY <1>0, <1>o, Zenon
     DEF OptTypes, Fresh, Places, Before, Claimed, Loop, After, ThreadTypes, Threads,
        SendEos, Throw, queue
<1>6. Threads'
  BY <1>0, <1>o, Zenon
     DEF OptTypes, Threads, ThreadTypes, QueueTypes, OutTypes, Accepted, Fresh, Slots,
        None, Places, Before, Claimed, Loop, After, SendEos, Throw, queue
<1>7. Order'
  BY <1>0, <1>o, Zenon
     DEF OptTypes, Order, ThreadTypes, QueueTypes, OutTypes, Threads, Fresh, Queue, Done,
        Busy, Slot, FrameId, Slots, None, Places, Before, Claimed, Loop, After, SendEos,
           Throw, queue
<1>8. Queue'
  BY <1>0, <1>o, Zenon
     DEF OptTypes, Queue, ThreadTypes, QueueTypes, OutTypes, Threads, Fresh, Order, Done,
        Busy, Slot, FrameId, Slots, None, Holds, Places, Before, Claimed, Loop, After,
           SendEos, Throw, queue
<1>9. Written'
  BY <1>0, <1>o, Zenon
     DEF OptTypes, Written, ThreadTypes, QueueTypes, OutTypes, Threads, Fresh, Done,
        Position, Slots, None, Slot, FrameId, Places, Before, Claimed, Loop, After,
           SendEos, Throw, queue
<1>10. Kept'
  BY <1>0, <1>o, Zenon
     DEF OptTypes, Kept, ThreadTypes, QueueTypes, OutTypes, Threads, Fresh, Going, Done,
        Slot, FrameId, Slots, None, Places, Before, Claimed, Loop, After, SendEos, Throw,
           queue
<1>11. Passed'
  BY <1>0, <1>o
     DEF OptTypes, Passed, ThreadTypes, Threads, Complete, Done, Places, Before, Claimed,
        Loop, After, SendEos, Throw, queue
<1>12. InvalidateAfterLoss'
  BY <1>0, <1>o, Zenon
     DEF OptTypes, InvalidateAfterLoss, ThreadTypes, QueueTypes, OutTypes, Threads, Fresh,
        Places, Before, Claimed, Loop, After, SendEos, Throw, queue
<1> QED BY <1>1, <1>2, <1>3, <1>4, <1>5, <1>6, <1>7, <1>8, <1>9, <1>10, <1>11, <1>12, Zenon
           DEF FlowInv

\* Releasing a resource keeps it.
LEMMA FlowRelease ==
  ASSUME FlowInv, Release
  PROVE  FlowInv'
<1>0. ThreadTypes /\ QueueTypes /\ OutTypes /\ Accepted /\ Fresh /\ Threads /\ Order
      /\ Queue /\ Written /\ Kept /\ Passed /\ InvalidateAfterLoss
  BY Zenon DEF FlowInv
<1>o. OptTypes(opts)
  BY OptionTypes, Zenon DEF FlowInv, ThreadTypes
<1>1. ThreadTypes'
  BY <1>0, <1>o, Zenon
     DEF OptTypes, ThreadTypes, Places, Before, Claimed, Loop, After, Release, queue
<1>2. QueueTypes'
  BY <1>0, <1>o, Zenon DEF OptTypes, QueueTypes, Slots, Release, queue
<1>3. OutTypes'
  BY <1>0, <1>o, Zenon DEF OptTypes, OutTypes, QueueTypes, ThreadTypes, Release, queue
<1>4. Accepted'
  BY <1>0, <1>o, Zenon
     DEF OptTypes, Accepted, ThreadTypes, Places, Threads, Release, queue
<1>5. Fresh'
  BY <1>0, <1>o, Zenon
     DEF OptTypes, Fresh, Places, Before, Claimed, Loop, After, ThreadTypes, Threads,
        Release, queue
<1>6. Threads'
  BY <1>0, <1>o, Zenon
     DEF OptTypes, Threads, ThreadTypes, QueueTypes, OutTypes, Accepted, Fresh, Slots,
        None, Places, Before, Claimed, Loop, After, Release, queue
<1>7. Order'
  BY <1>0, <1>o, Zenon
     DEF OptTypes, Order, ThreadTypes, QueueTypes, OutTypes, Threads, Fresh, Queue, Done,
        Busy, Slot, FrameId, Slots, None, Places, Before, Claimed, Loop, After, Release,
           queue
<1>8. Queue'
  BY <1>0, <1>o, Zenon
     DEF OptTypes, Queue, ThreadTypes, QueueTypes, OutTypes, Threads, Fresh, Order, Done,
        Busy, Slot, FrameId, Slots, None, Holds, Places, Before, Claimed, Loop, After,
           Release, queue
<1>9. Written'
  BY <1>0, <1>o, Zenon
     DEF OptTypes, Written, ThreadTypes, QueueTypes, OutTypes, Threads, Fresh, Done,
        Position, Slots, None, Slot, FrameId, Places, Before, Claimed, Loop, After,
           Release, queue
<1>10. Kept'
  BY <1>0, <1>o, Zenon
     DEF OptTypes, Kept, ThreadTypes, QueueTypes, OutTypes, Threads, Fresh, Going, Done,
        Slot, FrameId, Slots, None, Places, Before, Claimed, Loop, After, Release, queue
<1>11. Passed'
  BY <1>0, <1>o, Zenon
     DEF OptTypes, Passed, ThreadTypes, Threads, Complete, Done, Places, Before, Claimed,
        Loop, After, Release, queue
<1>12. InvalidateAfterLoss'
  BY <1>0, <1>o, Zenon
     DEF OptTypes, InvalidateAfterLoss, ThreadTypes, QueueTypes, OutTypes, Threads, Fresh,
        Places, Before, Claimed, Loop, After, Release, queue
<1> QED BY <1>1, <1>2, <1>3, <1>4, <1>5, <1>6, <1>7, <1>8, <1>9, <1>10, <1>11, <1>12, Zenon
           DEF FlowInv

\* Returning keeps it.
LEMMA FlowExit ==
  ASSUME FlowInv, Exit
  PROVE  FlowInv'
<1>0. ThreadTypes /\ QueueTypes /\ OutTypes /\ Accepted /\ Fresh /\ Threads /\ Order
      /\ Queue /\ Written /\ Kept /\ Passed /\ InvalidateAfterLoss
  BY Zenon DEF FlowInv
<1>o. OptTypes(opts)
  BY OptionTypes, Zenon DEF FlowInv, ThreadTypes
<1>1. ThreadTypes'
  BY <1>0, <1>o, Zenon
     DEF OptTypes, ThreadTypes, Places, Before, Claimed, Loop, After, Exit, queue
<1>2. QueueTypes'
  BY <1>0, <1>o, Zenon DEF OptTypes, QueueTypes, Slots, Exit, queue
<1>3. OutTypes'
  BY <1>0, <1>o, Zenon DEF OptTypes, OutTypes, QueueTypes, ThreadTypes, Exit, queue
<1>4. Accepted'
  BY <1>0, <1>o, Zenon DEF OptTypes, Accepted, ThreadTypes, Places, Threads, Exit, queue
<1>5. Fresh'
  BY <1>0, <1>o, Zenon
     DEF OptTypes, Fresh, Places, Before, Claimed, Loop, After, ThreadTypes, Threads, Exit,
        queue
<1>6. Threads'
  BY <1>0, <1>o, Zenon
     DEF OptTypes, Threads, ThreadTypes, QueueTypes, OutTypes, Accepted, Fresh, Slots,
        None, Places, Before, Claimed, Loop, After, Exit, queue
<1>7. Order'
  BY <1>0, <1>o, Zenon
     DEF OptTypes, Order, ThreadTypes, QueueTypes, OutTypes, Threads, Fresh, Queue, Done,
        Busy, Slot, FrameId, Slots, None, Places, Before, Claimed, Loop, After, Exit, queue
<1>8. Queue'
  BY <1>0, <1>o, ZenonT(60)
     DEF OptTypes, Queue, ThreadTypes, QueueTypes, OutTypes, Threads, Fresh, Order, Done,
        Busy, Slot, FrameId, Slots, None, Holds, Places, Before, Claimed, Loop, After,
           Exit, queue
<1>9. Written'
  BY <1>0, <1>o, Zenon
     DEF OptTypes, Written, ThreadTypes, QueueTypes, OutTypes, Threads, Fresh, Done,
        Position, Slots, None, Slot, FrameId, Places, Before, Claimed, Loop, After, Exit,
           queue
<1>10. Kept'
  BY <1>0, <1>o, Zenon
     DEF OptTypes, Kept, ThreadTypes, QueueTypes, OutTypes, Threads, Fresh, Going, Done,
        Slot, FrameId, Slots, None, Places, Before, Claimed, Loop, After, Exit, queue
<1>11. Passed'
  BY <1>0, <1>o
     DEF OptTypes, Passed, ThreadTypes, Threads, Complete, Done, Places, Before, Claimed,
        Loop, After, Exit, queue
<1>12. InvalidateAfterLoss'
  BY <1>0, <1>o, Zenon
     DEF OptTypes, InvalidateAfterLoss, ThreadTypes, QueueTypes, OutTypes, Threads, Fresh,
        Places, Before, Claimed, Loop, After, Exit, queue
<1> QED BY <1>1, <1>2, <1>3, <1>4, <1>5, <1>6, <1>7, <1>8, <1>9, <1>10, <1>11, <1>12, Zenon
           DEF FlowInv

\* Handing the slot over keeps it: the frame becomes the last one of the queue,
\* or the one main drains.
LEMMA FlowHandOver ==
  ASSUME FlowInv, HandOver
  PROVE  FlowInv'
<1>0. ThreadTypes /\ QueueTypes /\ OutTypes /\ Accepted /\ Fresh /\ Threads /\ Order
      /\ Queue /\ Written /\ Kept /\ Passed /\ InvalidateAfterLoss
  BY Zenon DEF FlowInv
<1>o. OptTypes(opts)
  BY OptionTypes, Zenon DEF FlowInv, ThreadTypes
<1>e. UNCHANGED <<opts, worker, content, input_done, worker_error, out, code>> /\ Done' = Done
  BY Zenon DEF HandOver, Done
<1>s. /\ Slot \in Slots /\ frame \in Nat /\ Slot # None /\ Done \in Nat /\ Busy \in {0, 1}
      /\ Len(pending_slots) \in Nat /\ main = "hand_over" /\ content[Slot] = FrameId
      /\ ~slot_in_use[Slot] /\ frame < opts.frames
  BY <1>0, DoneType, SMTT(60)
     DEF QueueTypes, Slots, Slot, None, Busy, HandOver, Order, Claimed, Threads
<1>w. main # "draining" /\ (worker = "draining" => drain.slot \in Slots)
  BY <1>0, <1>s, Zenon DEF Threads
<1>a. CASE opts.depth = 1
  <2>1. /\ slot_in_use' = [slot_in_use EXCEPT ![Slot] = TRUE]
        /\ pending_slots' = Append(pending_slots, Slot)
        /\ main' = "claim" /\ frame' = frame + 1 /\ drain' = drain /\ Busy' = Busy
    BY <1>a DEF HandOver, Busy
  <2>2. pending_slots' \in Seq(Slots) /\ slot_in_use' \in [Slots -> BOOLEAN] /\ frame' \in Nat
    BY <1>0, <1>s, <2>1 DEF QueueTypes
  <2>3. worker \in {"wait", "draining", "exited"} /\ (worker = "exited" => worker_error)
    BY <1>0, <1>s, <1>a, Zenon DEF Threads, ThreadTypes, Loop, Claimed, After
  <2>4. Threads'
    <3>1. frame' <= opts.frames
      BY <1>s, <1>o, <2>1 DEF OptTypes
    <3> QED BY <1>0, <1>a, <1>e, <1>s, <1>w, <2>1, <2>3, <3>1, Zenon
            DEF Threads, Loop, Claimed, After
  <2>5. Queue'
    <3> SUFFICES ASSUME ~worker_error PROVE Queue'
      BY <1>e, Zenon DEF Queue
    <3> PICK n : n = Len(pending_slots)
      BY Zenon
    <3>1. /\ frame = Done + n + Busy
          /\ \A k \in 1 .. n : Holds(pending_slots[k], frame - n + k)
          /\ worker = "draining" => Holds(drain.slot, frame - n)
      BY <1>0, <1>a, Zenon DEF Queue
    <3>2. /\ Len(pending_slots') = n + 1 /\ pending_slots'[n + 1] = Slot
          /\ \A k \in 1 .. n : pending_slots'[k] = pending_slots[k] /\ pending_slots[k] \in Slots
      BY <1>0, <1>s, <2>1 DEF QueueTypes
    <3>3. ASSUME NEW s \in Slots, NEW id, Holds(s, id) PROVE Holds(s, id)'
      BY <1>0, <1>e, <1>s, <2>1, <3>3, Zenon DEF Holds, QueueTypes
    <3> PICK s, m : s = Slot /\ m = frame + 1
      BY Zenon
    <3>4. Holds(s, m)'
      <4>1. slot_in_use'[s] = TRUE /\ content'[s] = m
        BY <1>0, <1>e, <1>s, <2>1, Zenon DEF QueueTypes, FrameId
      <4>2. s = (m - 1) % 2
        BY <1>s DEF Slot
      <4> QED BY <4>1, <4>2, Zenon DEF Holds
    <3>5. frame' = Done' + (n + 1) + Busy'
      BY <1>e, <1>s, <2>1, <3>1
    <3>6. ASSUME NEW k \in 1 .. n + 1 PROVE Holds(pending_slots[k], frame - Len(pending_slots) + k)'
      <4>1. CASE k = n + 1
        <5>1. frame' - Len(pending_slots') + k = m
          BY <1>s, <2>1, <3>2, <4>1
        <5> QED BY <3>4, <3>2, <4>1, <5>1, Zenon
      <4>2. CASE k \in 1 .. n
        <5>1. frame' - Len(pending_slots') + k = frame - n + k
          BY <1>s, <2>1, <3>2, <4>2
        <5> QED BY <3>1, <3>2, <3>3, <4>2, <5>1, Zenon
      <4> QED BY <4>1, <4>2, <1>s
    <3>7. worker' = "draining" => Holds(drain.slot, frame - Len(pending_slots))'
      <4>1. frame' - Len(pending_slots') = frame - n
        BY <1>s, <2>1, <3>2, SMTT(60)
      <4> QED BY <1>e, <1>w, <2>1, <3>1, <3>3, <4>1, Zenon
    <3> QED BY <3>2, <3>5, <3>6, <3>7, Zenon DEF Queue
  <2> QED BY <1>0, <1>a, <1>e, <1>s, <2>1, <2>2, <2>4, <2>5
            DEF FlowInv, ThreadTypes, Places, Loop, QueueTypes, OutTypes, Accepted, Fresh,
            Before,
           Order, Claimed, Written, Position, Kept, Going, Passed, InvalidateAfterLoss
<1>b. CASE opts.depth = 0
  <2>1. /\ drain' = [slot |-> Slot, step |-> "lock"] /\ main' = "draining" /\ Busy' = 1
        /\ UNCHANGED <<slot_in_use, pending_slots, frame>>
    BY <1>b DEF HandOver, Busy
  <2>2. drain' \in [slot : {0, 1, None}, step : {"none", "lock", "write", "unlock", "unmap"}]
    BY <1>s, <2>1, Zenon DEF Slots
  <2>3. Done = frame /\ Slot' = Slot /\ FrameId' = FrameId
    BY <1>0, <1>b, <1>s, <2>1 DEF Order, Loop, Claimed, Slot, FrameId
  <2>4. Order'
    BY <1>b, <1>e, <1>s, <2>1, <2>3 DEF Order, Claimed
  <2>5. Threads'
    BY <1>0, <1>b, <1>e, <1>s, <2>1, Zenon DEF Threads, Loop, Claimed, After
  <2> QED BY <1>0, <1>b, <1>e, <1>s, <2>1, <2>2, <2>4, <2>5
            DEF FlowInv, ThreadTypes, Places, Loop, QueueTypes, OutTypes, Accepted, Fresh,
            Before,
           Queue, Claimed, Written, Position, Kept, Going, Passed, InvalidateAfterLoss
<1> QED BY <1>a, <1>b, <1>o, Zenon DEF OptTypes

\* Taking the front of the queue keeps it: the frame becomes the drained one.
LEMMA FlowTakePending ==
  ASSUME FlowInv, TakePending
  PROVE  FlowInv'
<1>0. ThreadTypes /\ QueueTypes /\ OutTypes /\ Accepted /\ Fresh /\ Threads /\ Order
      /\ Queue /\ Written /\ Kept /\ Passed /\ InvalidateAfterLoss
  BY Zenon DEF FlowInv
<1>o. OptTypes(opts)
  BY OptionTypes, Zenon DEF FlowInv, ThreadTypes
<1>e. UNCHANGED <<opts, main, frame, content, slot_in_use, input_done, worker_error, out,
                  code>> /\ Done' = Done
  BY Zenon DEF TakePending, Done
<1>s. /\ worker = "wait" /\ drain.step = "none" /\ opts.depth = 1 /\ ~worker_error /\ Busy = 0
      /\ main \notin Before /\ main \notin After /\ main # "draining"
      /\ frame \in Nat /\ Done \in Nat /\ Len(pending_slots) \in Nat
  BY <1>0, <1>o, DoneType, SMTT(60)
     DEF TakePending, Threads, Fresh, OptTypes, Busy, QueueTypes
<1>a. CASE pending_slots # <<>>
  <2>1. /\ drain' = [slot |-> Head(pending_slots), step |-> "lock"] /\ worker' = "draining"
        /\ pending_slots' = Tail(pending_slots) /\ Busy' = 1
    BY <1>a DEF TakePending, Busy
  <2> PICK n : n = Len(pending_slots)
    BY Zenon
  <2>2. /\ n \in Nat /\ n >= 1 /\ pending_slots' \in Seq(Slots)
        /\ Head(pending_slots) = pending_slots[1]
        /\ Head(pending_slots) \in Slots /\ Len(pending_slots') = n - 1
        /\ \A k \in 1 .. n - 1 : pending_slots'[k] = pending_slots[k + 1]
    BY <1>0, <1>a, <2>1 DEF QueueTypes
  <2>3. drain' \in [slot : {0, 1, None}, step : {"none", "lock", "write", "unlock", "unmap"}]
    BY <2>1, <2>2, Zenon DEF Slots
  <2>4. Threads'
    BY <1>0, <1>e, <1>s, <2>1, <2>2, Zenon DEF Threads
  <2>5. Queue'
    <3>1. /\ frame = Done + n
          /\ \A k \in 1 .. n : Holds(pending_slots[k], frame - n + k)
      BY <1>0, <1>s DEF Queue
    <3>2. ASSUME NEW s, NEW id, Holds(s, id) PROVE Holds(s, id)'
      BY <1>e, <3>2, Zenon DEF Holds
    <3>3. frame' = Done' + Len(pending_slots') + Busy'
      BY <1>e, <1>s, <2>1, <2>2, <3>1
    <3>4. ASSUME NEW k \in 1 .. n - 1 PROVE Holds(pending_slots[k], frame - Len(pending_slots) + k)'
      <4>1. /\ frame' - Len(pending_slots') + k = frame - n + (k + 1) /\ k + 1 \in 1 .. n
        BY <1>e, <1>s, <2>2
      <4> QED BY <2>2, <3>1, <3>2, <4>1, Zenon
    <3>5. Holds(drain.slot, frame - Len(pending_slots))'
      <4>1. /\ frame' - Len(pending_slots') = frame - n + 1 /\ 1 \in 1 .. n
            /\ drain'.slot = pending_slots[1]
        BY <1>e, <1>s, <2>1, <2>2, SMTT(60)
      <4> QED BY <3>1, <3>2, <4>1, Zenon
    <3> QED BY <2>2, <3>3, <3>4, <3>5, Zenon DEF Queue
  <2> QED BY <1>0, <1>e, <1>s, <2>1, <2>2, <2>3, <2>4, <2>5
            DEF FlowInv, ThreadTypes, QueueTypes, OutTypes, Accepted, Fresh, Order, Slot,
            FrameId,
           Written, Position, Kept, Going, Passed, Complete, InvalidateAfterLoss
<1>b. CASE pending_slots = <<>>
  <2>1. /\ UNCHANGED <<drain, pending_slots>> /\ Busy' = Busy
        /\ worker' = "wait" \/ (worker' = "exited" /\ input_done)
    BY <1>b, <1>s, Zenon DEF TakePending, Busy
  <2>2. Threads'
    BY <1>0, <1>b, <1>e, <1>s, <2>1, Zenon DEF Threads
  <2>3. Queue'
    BY <1>0, <1>b, <1>e, <1>s, <2>1, Zenon DEF Queue, Holds
  <2> QED BY <1>0, <1>e, <1>s, <2>1, <2>2, <2>3
            DEF FlowInv, ThreadTypes, QueueTypes, OutTypes, Accepted, Fresh, Order, Slot,
            FrameId,
           Written, Position, Kept, Going, Passed, Complete, InvalidateAfterLoss
<1> QED BY <1>a, <1>b, Zenon

\* A throw in drain_slot keeps it: in the worker it leaves the error, in main it
\* goes to the catch block.
LEMMA Throws ==
  ASSUME FlowInv, DrainThrows, drain.step # "none", OutTypes',
         UNCHANGED <<opts, frame, content, slot_in_use, pending_slots, code>>,
         out'.written = out.written, out'.dropped = out.dropped,
         out'.invalidated = out.invalidated
  PROVE  FlowInv'
<1>0. ThreadTypes /\ QueueTypes /\ OutTypes /\ Accepted /\ Fresh /\ Threads /\ Order
      /\ Queue /\ Written /\ Kept /\ Passed /\ InvalidateAfterLoss
  BY Zenon DEF FlowInv
<1>o. OptTypes(opts)
  BY OptionTypes, Zenon DEF FlowInv, ThreadTypes
<1>d. Done' = Done
  BY Zenon DEF Done
<1>1. CASE worker = "draining"
  <2>1. /\ opts.depth = 1 /\ worker_error' = TRUE /\ input_done' = TRUE /\ worker' = "exited"
        /\ main' = main /\ main \notin After /\ main \notin Before /\ main # "draining"
        /\ drain' = [slot |-> None, step |-> "none"]
    BY <1>0, <1>o, <1>1, Zenon
       DEF DrainThrows, Threads, Fresh, OptTypes, Idle
  <2>2. ThreadTypes'
    BY <1>0, <2>1, Zenon DEF ThreadTypes
  <2>3. Threads'
    BY <1>0, <2>1, Zenon DEF Threads, Loop, After
  <2>4. Order'
    BY <1>0, <1>d, <2>1, ZenonT(60) DEF Order, Slot, FrameId
  <2> QED BY <1>0, <1>d, <2>1, <2>2, <2>3, <2>4, Zenon
            DEF FlowInv, QueueTypes, Accepted, Fresh, Queue, Written, Position, Kept,
            Going, Passed, After,
           InvalidateAfterLoss
<1>2. CASE main = "draining"
  <2>1. /\ opts.depth = 0 /\ worker = "none" /\ main' = "catch"
        /\ UNCHANGED <<worker_error, input_done, worker>>
        /\ drain' = [slot |-> None, step |-> "none"]
    BY <1>0, <1>2, Zenon DEF DrainThrows, Threads, Idle, Caught
  <2>2. ThreadTypes'
    BY <1>0, <2>1, Zenon DEF ThreadTypes, Places
  <2>3. Threads'
    BY <1>0, <1>2, <2>1, Zenon DEF Threads, Loop, Claimed, After
  <2>4. Order'
    BY <2>1, Zenon DEF Order, Loop, Claimed
  <2>5. Accepted'
    BY <1>0, <1>2, <2>1, Zenon DEF Accepted
  <2> QED BY <1>0, <1>d, <2>1, <2>2, <2>3, <2>4, <2>5
            DEF FlowInv, QueueTypes, Fresh, Before, Queue, Written, Position, Kept, Going,
            Loop, Claimed,
           Passed, InvalidateAfterLoss
<1> QED BY <1>0, <1>1, <1>2, Zenon DEF Threads

\* A step of drain_slot that does not throw and writes nothing keeps it.
LEMMA Steps ==
  ASSUME FlowInv, NoThrow, drain.step # "none", NEW s \in {"write", "unmap"},
         drain' = [drain EXCEPT !.step = s], Busy' = Busy,
         UNCHANGED <<opts, frame, content, slot_in_use, pending_slots, out, code>>
  PROVE  FlowInv'
<1>0. ThreadTypes /\ QueueTypes /\ OutTypes /\ Accepted /\ Fresh /\ Threads /\ Order
      /\ Queue /\ Written /\ Kept /\ Passed /\ InvalidateAfterLoss
  BY Zenon DEF FlowInv
<1>o. OptTypes(opts)
  BY OptionTypes, Zenon DEF FlowInv, ThreadTypes
<1>d. Done' = Done
  BY Zenon DEF Done
<1>1. /\ drain'.step = s /\ drain'.slot = drain.slot /\ s # "none"
      /\ drain' \in [slot : {0, 1, None}, step : {"none", "lock", "write", "unlock", "unmap"}]
  BY <1>0, Zenon DEF ThreadTypes
<1>2. UNCHANGED <<main, worker, input_done, worker_error>>
  BY Zenon DEF NoThrow
<1>3. Threads'
  BY <1>0, <1>1, <1>2, Zenon DEF Threads
<1>4. Order'
  BY <1>0, <1>d, <1>1, <1>2, Zenon DEF Order, Slot, FrameId
<1>5. Queue'
  BY <1>0, <1>d, <1>1, <1>2, Zenon DEF Queue, Holds
<1> QED BY <1>0, <1>d, <1>1, <1>2, <1>3, <1>4, <1>5
     DEF FlowInv, ThreadTypes, QueueTypes, OutTypes, Accepted, Fresh, Written, Position, Kept,
         Going, Passed, Complete, InvalidateAfterLoss

\* Locking the bitstream keeps it.
LEMMA FlowLockBitstream ==
  ASSUME FlowInv, LockBitstream
  PROVE  FlowInv'
<1>1. /\ UNCHANGED <<opts, frame, content, slot_in_use, pending_slots, out, code>>
      /\ drain.step = "lock"
  BY Zenon DEF LockBitstream
<1>2. CASE DrainThrows
  BY <1>1, <1>2, Throws, Zenon DEF FlowInv, OutTypes
<1>3. CASE NoThrow /\ drain' = [drain EXCEPT !.step = "write"]
  <2>1. Busy' = Busy
    BY <1>1, <1>3, Zenon DEF Busy, FlowInv, ThreadTypes
  <2> QED BY <1>1, <1>3, <2>1, Steps, Zenon
<1> QED BY <1>2, <1>3, Zenon DEF LockBitstream

\* Unlocking keeps it.
LEMMA FlowUnlockBitstream ==
  ASSUME FlowInv, UnlockBitstream
  PROVE  FlowInv'
<1>1. /\ UNCHANGED <<opts, frame, content, slot_in_use, pending_slots, out, code>>
      /\ drain.step = "unlock"
  BY Zenon DEF UnlockBitstream
<1>2. CASE DrainThrows
  BY <1>1, <1>2, Throws, Zenon DEF FlowInv, OutTypes
<1>3. CASE NoThrow /\ drain' = [drain EXCEPT !.step = "unmap"]
  <2>1. Busy' = Busy
    BY <1>1, <1>3, Zenon DEF Busy, FlowInv, ThreadTypes
  <2> QED BY <1>1, <1>3, <2>1, Steps, Zenon
<1> QED BY <1>2, <1>3, Zenon DEF UnlockBitstream

\* Writing or dropping a frame adds one to the frames done.
LEMMA OneMore ==
  ASSUME NEW n \in Nat, NEW e \in Nat, NEW n2, NEW e2,
         (n2 = n /\ e2 = e + 1) \/ (n2 = n + 1 /\ e2 = e)
  PROVE  n2 + e2 = (n + e) + 1
OBVIOUS

\* The frame after d frames is the one the bitstream file has next, when it is
\* not the loss.
LEMMA NextPosition ==
  ASSUME NEW n \in Nat, NEW l \in Nat, NEW e \in Nat, NEW d, d = n + e,
         e = IF l # 0 /\ l <= d THEN 1 ELSE 0, d + 1 # l
  PROVE  (IF l # 0 /\ n + 1 >= l THEN (n + 1) + 1 ELSE n + 1) = d + 1
<1>1. CASE l # 0 /\ l <= d
  BY <1>1, Zenon
<1>2. CASE l = 0
  BY <1>2
<1>3. CASE ~(l <= d)
  BY <1>3
<1> QED BY <1>1, <1>2, <1>3, Zenon

\* Writing the next frame, or dropping it as the loss, keeps the invariant.
LEMMA Outputs ==
  ASSUME FlowInv, NoThrow, drain.step = "write", drain' = [drain EXCEPT !.step = "unlock"],
         UNCHANGED <<opts, frame, content, slot_in_use, pending_slots, code>>, OutTypes',
         out'.invalidated = out.invalidated,
         out'.reference = IF opts.reference = "given"
                          THEN Append(out.reference, Done + 1) ELSE out.reference,
         \/ /\ opts.loss # 0 /\ Done + 1 = opts.loss
            /\ out'.written = out.written /\ out'.dropped = out.dropped + 1
         \/ /\ Done + 1 # opts.loss
            /\ out'.written = Append(out.written, Done + 1) /\ out'.dropped = out.dropped
  PROVE  FlowInv'
<1>0. ThreadTypes /\ QueueTypes /\ OutTypes /\ Accepted /\ Fresh /\ Threads /\ Order
      /\ Queue /\ Written /\ Kept /\ Passed /\ InvalidateAfterLoss
  BY Zenon DEF FlowInv
<1>o. OptTypes(opts)
  BY OptionTypes, Zenon DEF FlowInv, ThreadTypes
<1>t. /\ Done \in Nat /\ Len(out.written) \in Nat /\ out.dropped \in Nat /\ frame \in Nat
      /\ Len(out.reference) \in Nat /\ Len(pending_slots) \in Nat
      /\ out.written \in Seq(Nat) /\ out.reference \in Seq(Nat) /\ opts.loss \in Nat
      /\ Done = Len(out.written) + out.dropped
  BY <1>0, <1>o, DoneType DEF QueueTypes, OutTypes, OptTypes, Done
<1>c. \/ /\ opts.loss # 0 /\ Done + 1 = opts.loss /\ Len(out'.written) = Len(out.written)
         /\ out'.written = out.written /\ out'.dropped = out.dropped + 1
      \/ /\ Done + 1 # opts.loss /\ Len(out'.written) = Len(out.written) + 1
         /\ out'.written = Append(out.written, Done + 1) /\ out'.dropped = out.dropped
  BY <1>t, SMTT(60)
<1>d. Done' = Done + 1
  <2> PICK n, e, d, n2, e2 : /\ n = Len(out.written) /\ e = out.dropped /\ d = Done
                             /\ n2 = Len(out'.written) /\ e2 = out'.dropped
    BY Zenon
  <2>1. n \in Nat /\ e \in Nat /\ d = n + e
    BY <1>t, Zenon
  <2>2. (n2 = n /\ e2 = e + 1) \/ (n2 = n + 1 /\ e2 = e)
    BY <1>c, Zenon
  <2>4. n2 + e2 = d + 1
    BY <2>1, <2>2, OneMore
  <2>3. Done' = n2 + e2
    BY Zenon DEF Done
  <2> QED BY <2>4, <2>3, Zenon
<1>1. /\ drain'.step = "unlock" /\ drain'.slot = drain.slot /\ Busy = 1 /\ Busy' = 0
      /\ drain' \in [slot : {0, 1, None}, step : {"none", "lock", "write", "unlock", "unmap"}]
  BY <1>0, Zenon DEF ThreadTypes, Busy
<1>2. UNCHANGED <<main, worker, input_done, worker_error>>
  BY Zenon DEF NoThrow
<1>3. Threads'
  BY <1>0, <1>1, <1>2, Zenon DEF Threads
<1>m. main = "draining" \/ (worker = "draining" /\ main \notin Before /\ main \notin After /\ main # "draining")
  BY <1>0, Zenon DEF Threads, Fresh, After
<1>4. Order'
  <2>1. Slot' = Slot /\ FrameId' = FrameId /\ Done' \in Nat
    BY <1>t, <1>d DEF Slot, FrameId
  <2>2. (opts.depth = 0 /\ main \in Loop \union {"eos", "gates"}) =>
          Done' = frame + (IF main = "draining" THEN 1 - Busy' ELSE 0)
    BY <1>0, <1>1, <1>d, <1>t, <1>m DEF Order, Threads
  <2>3. main \in Claimed => Done' >= frame - 1
    BY <1>0, <1>d, <1>t DEF Order
  <2> QED BY <1>0, <1>1, <1>2, <2>1, <2>2, <2>3, Zenon DEF Order
<1>5. Queue'
  <2> SUFFICES ASSUME opts.depth = 1, ~worker_error PROVE Queue'
    BY <1>2, Zenon DEF Queue
  <2>1. frame = Done' + Len(pending_slots) + Busy'
    BY <1>0, <1>1, <1>d, <1>t DEF Queue
  <2> QED BY <1>0, <1>1, <1>2, <2>1, Zenon DEF Queue, Holds
<1>6. Written'
  <2>1. out.dropped = (IF opts.loss # 0 /\ opts.loss <= Done THEN 1 ELSE 0)
        /\ \A k \in 1 .. Len(out.written) : out.written[k] = Position(k)
    BY <1>0, Zenon DEF Written
  <2> PICK l, d, e, e2 : l = opts.loss /\ d = Done /\ e = out.dropped /\ e2 = out'.dropped
    BY Zenon
  <2>t. l \in Nat /\ d \in Nat
    BY <1>t, Zenon
  <2>2. e2 = IF l # 0 /\ l <= d + 1 THEN 1 ELSE 0
    <3>1. e = IF l # 0 /\ l <= d THEN 1 ELSE 0
      BY <2>1, Zenon
    <3>2. (l # 0 /\ d + 1 = l /\ e2 = e + 1) \/ (d + 1 # l /\ e2 = e)
      BY <1>c, Zenon
    <3> QED BY <2>t, <3>1, <3>2
  <2>3. \A k \in 1 .. Len(out'.written) : out'.written[k] = Position(k)
    <3>1. CASE out'.written = out.written
      BY <2>1, <3>1, Zenon
    <3>2. CASE Done + 1 # opts.loss /\ out'.written = Append(out.written, Done + 1)
      <4> PICK n, q : n = Len(out.written) /\ q = out'.written
        BY Zenon
      <4>1. Position(n + 1) = d + 1
        <5>1. /\ d = n + e /\ e = (IF l # 0 /\ l <= d THEN 1 ELSE 0) /\ n \in Nat
              /\ e \in Nat /\ d + 1 # l
          BY <1>t, <2>1, <3>2, Zenon
        <5>2. (IF l # 0 /\ n + 1 >= l THEN (n + 1) + 1 ELSE n + 1) = d + 1
          <6>1. CASE l # 0 /\ l <= d
            <7>1. d = n + 1 /\ n + 1 >= l
              BY <2>t, <5>1, <6>1, Zenon
            <7> QED BY <6>1, <7>1, Zenon
          <6>2. CASE ~(l # 0 /\ l <= d)
            <7>1. d = n /\ ~(l # 0 /\ n + 1 >= l)
              <8>1. e = 0 /\ d = n
                <9>1. e = 0
                  BY <5>1, <6>2, Zenon
                <9>2. d = n + e /\ n \in Nat
                  BY <5>1, Zenon
                <9> QED BY <9>1, <9>2
              <8>2. l = 0 \/ ~(l <= n)
                BY <6>2, <8>1, Zenon
              <8>3. n + 1 # l
                BY <5>1, <8>1, Zenon
              <8>4. l # 0 => ~(n + 1 >= l)
                <9>1. n \in Nat /\ l \in Nat
                  BY <2>t, <5>1, Zenon
                <9> HIDE <1>t
                <9> QED BY <8>2, <8>3, <9>1
              <8> QED BY <8>1, <8>4, Zenon
            <7> QED BY <7>1, Zenon
          <6> QED BY <6>1, <6>2, Zenon
        <5> QED BY <5>2, Zenon DEF Position
      <4>2. /\ Len(q) = n + 1 /\ q[n + 1] = Done + 1
            /\ \A k \in 1 .. n : q[k] = out.written[k]
        BY <1>t, <3>2, SMTT(60)
      <4>3. ASSUME NEW k \in 1 .. n + 1 PROVE q[k] = Position(k)
        <5>1. k \in 1 .. n \/ k = n + 1
          BY <1>t, SMTT(60)
        <5> QED BY <2>1, <4>1, <4>2, <5>1, Zenon
      <4> QED BY <4>2, <4>3, Zenon
    <3> QED BY <3>1, <3>2, Zenon
  <2> QED BY <1>d, <2>2, <2>3, Zenon DEF Written, Position
<1>7. Kept'
  <2> SUFFICES ASSUME Going, opts.reference = "given"
               PROVE  Len(out'.reference) = Done + 1 /\ \A k \in 1 .. Done + 1 : out'.reference[k] = k
    BY <1>2, <1>d, Zenon DEF Kept, Going
  <2>1. Len(out.reference) = Done /\ \A k \in 1 .. Done : out.reference[k] = k
    BY <1>0, Zenon DEF Kept
  <2>2. out'.reference = Append(out.reference, Done + 1)
    BY Zenon
  <2> QED BY <1>t, <2>1, <2>2
<1>8. InvalidateAfterLoss'
  <2> SUFFICES ASSUME out.invalidated PROVE out'.dropped = 1
    BY Zenon DEF InvalidateAfterLoss
  <2>1. out.dropped = 1
    BY <1>0, Zenon DEF InvalidateAfterLoss
  <2>2. opts.loss <= Done
    BY <1>0, <2>1 DEF Written
  <2>3. Done + 1 # opts.loss
    BY <1>t, <2>2
  <2> QED BY <1>c, <2>1, <2>3, Zenon
<1> QED BY <1>0, <1>1, <1>2, <1>3, <1>4, <1>5, <1>6, <1>7, <1>8, <1>m, ZenonT(60)
     DEF FlowInv, ThreadTypes, QueueTypes, Accepted, Fresh, Before, Passed, After

\* Writing keeps it, whichever of the two files fails.
LEMMA FlowWriteBitstream ==
  ASSUME FlowInv, WriteBitstream
  PROVE  FlowInv'
<1>0. /\ drain.step = "write" /\ OutTypes
      /\ UNCHANGED <<opts, frame, content, slot_in_use, pending_slots, code>>
  BY Zenon DEF WriteBitstream, FlowInv
<1> PICK id : id = Done + 1
  BY Zenon
<1> PICK kept : kept = IF opts.reference = "given"
                       THEN [out EXCEPT !.reference = Append(@, id)] ELSE out
  BY Zenon
<1>1. content[drain.slot] = id /\ id \in Nat
  BY <1>0, Current, DoneType
<1>r. Append(out.reference, id) \in Seq(Nat)
  BY <1>0, <1>1 DEF OutTypes
<1>k. kept = [written |-> out.written,
              reference |-> IF opts.reference = "given" THEN Append(out.reference, id) ELSE out.reference,
              dropped |-> out.dropped, invalidated |-> out.invalidated, forced |-> out.forced]
  <2>1. CASE opts.reference = "given"
    BY <1>0, <2>1, Zenon DEF OutTypes
  <2>2. CASE opts.reference # "given"
    BY <1>0, <2>2, Zenon DEF OutTypes
  <2> QED BY <2>1, <2>2, Zenon
<1>2. /\ kept \in [written : Seq(Nat), reference : Seq(Nat), dropped : Nat,
                   invalidated : BOOLEAN, forced : BOOLEAN]
      /\ kept.written = out.written /\ kept.dropped = out.dropped
      /\ kept.invalidated = out.invalidated
      /\ kept.reference = IF opts.reference = "given" THEN Append(out.reference, id) ELSE out.reference
  BY <1>0, <1>k, <1>r, Zenon DEF OutTypes
<1>3. \/ DrainThrows /\ out' = out
      \/ DrainThrows /\ out' = kept
      \/ /\ opts.loss # 0 /\ id = opts.loss /\ out' = [kept EXCEPT !.dropped = @ + 1]
         /\ drain' = [drain EXCEPT !.step = "unlock"] /\ NoThrow
      \/ /\ id # opts.loss /\ out' = [kept EXCEPT !.written = Append(@, id)]
         /\ drain' = [drain EXCEPT !.step = "unlock"] /\ NoThrow
  BY <1>1, Zenon DEF WriteBitstream
<1>4. CASE DrainThrows /\ out' \in {out, kept}
  <2>1. OutTypes' /\ out'.written = out.written /\ out'.dropped = out.dropped
        /\ out'.invalidated = out.invalidated
    BY <1>0, <1>2, <1>4, Zenon DEF OutTypes
  <2> QED BY <1>0, <1>4, <2>1, Throws, Zenon
<1>5. CASE /\ opts.loss # 0 /\ id = opts.loss /\ out' = [kept EXCEPT !.dropped = @ + 1]
           /\ drain' = [drain EXCEPT !.step = "unlock"] /\ NoThrow
  <2>1. OutTypes' /\ out'.written = out.written /\ out'.dropped = out.dropped + 1
        /\ out'.invalidated = out.invalidated
        /\ out'.reference = kept.reference
    <3>1. out' = [written |-> kept.written, reference |-> kept.reference, dropped |-> kept.dropped + 1,
                  invalidated |-> kept.invalidated, forced |-> kept.forced]
      BY <1>2, <1>5, Zenon
    <3>2. kept.dropped + 1 \in Nat
      BY <1>2, SMTT(60)
    <3> QED BY <1>2, <3>1, <3>2, Zenon DEF OutTypes
  <2> QED BY <1>0, <1>2, <1>5, <2>1, Outputs, Zenon
<1>6. CASE /\ id # opts.loss /\ out' = [kept EXCEPT !.written = Append(@, id)]
           /\ drain' = [drain EXCEPT !.step = "unlock"] /\ NoThrow
  <2>1. OutTypes' /\ out'.written = Append(out.written, id) /\ out'.dropped = out.dropped
        /\ out'.invalidated = out.invalidated
        /\ out'.reference = kept.reference
    <3>1. out' = [written |-> Append(kept.written, id), reference |-> kept.reference,
                  dropped |-> kept.dropped, invalidated |-> kept.invalidated, forced |-> kept.forced]
      BY <1>2, <1>6, Zenon
    <3>2. Append(kept.written, id) \in Seq(Nat)
      <4>1. kept.written \in Seq(Nat)
        BY <1>2, Zenon
      <4>2. id \in Nat
        BY <1>1, Zenon
      <4> QED BY <4>1, <4>2
    <3> QED BY <1>2, <3>1, <3>2, Zenon DEF OutTypes
  <2> QED BY <1>0, <1>2, <1>6, <2>1, Outputs, Zenon
<1> QED BY <1>3, <1>4, <1>5, <1>6, Zenon

\* Unmapping keeps it: the slot that becomes free has no frame of the queue.
LEMMA FlowUnmapInput ==
  ASSUME FlowInv, UnmapInput
  PROVE  FlowInv'
<1>0. ThreadTypes /\ QueueTypes /\ OutTypes /\ Accepted /\ Fresh /\ Threads /\ Order
      /\ Queue /\ Written /\ Kept /\ Passed /\ InvalidateAfterLoss
  BY Zenon DEF FlowInv
<1>o. OptTypes(opts)
  BY OptionTypes, Zenon DEF FlowInv, ThreadTypes
<1>u. UNCHANGED <<opts, pending_slots, out, code>> /\ drain.step = "unmap" /\ Done' = Done
  BY Zenon DEF UnmapInput, Done
<1>t. /\ Done \in Nat /\ frame \in Nat /\ Len(pending_slots) \in Nat /\ Busy = 0
      /\ drain.slot \in Slots
  BY <1>0, <1>u, DoneType DEF QueueTypes, Busy, Threads
<1>1. CASE DrainThrows /\ UNCHANGED <<content, slot_in_use, frame>>
  BY <1>u, <1>1, Throws, Zenon DEF FlowInv, OutTypes
<1>2. CASE /\ drain' = Idle /\ content' = [content EXCEPT ![drain.slot] = 0]
           /\ worker = "draining" /\ worker' = "wait"
           /\ slot_in_use' = [slot_in_use EXCEPT ![drain.slot] = FALSE]
           /\ UNCHANGED <<main, frame, input_done, worker_error>>
  <2>1. /\ opts.depth = 1 /\ ~worker_error /\ main \notin After /\ main \notin Before
        /\ main # "draining"
        /\ drain' = [slot |-> None, step |-> "none"] /\ Busy' = 0
    BY <1>0, <1>o, <1>2, Zenon DEF Threads, Fresh, OptTypes, Idle, Busy
  <2>2. ThreadTypes' /\ QueueTypes'
    BY <1>0, <1>2, <1>t, <1>u, <2>1 DEF ThreadTypes, QueueTypes
  <2>3. Threads'
    BY <1>0, <1>2, <1>u, <2>1 DEF Threads, Loop, After
  <2> PICK n : n = Len(pending_slots)
    BY Zenon
  <2>4. /\ frame = Done + n
        /\ \A k \in 1 .. n : Holds(pending_slots[k], frame - n + k) /\ pending_slots[k] \in Slots
        /\ Holds(drain.slot, frame - n)
    BY <1>0, <1>2, <1>t, <2>1 DEF Queue, QueueTypes
  <2>5. ASSUME NEW k \in 1 .. n PROVE Holds(pending_slots[k], frame - n + k)'
    <3> PICK s, m : s = pending_slots[k] /\ m = frame - n + k
      BY Zenon
    <3>1. Holds(s, m) /\ s \in Slots
      BY <2>4, Zenon
    <3>2. s # drain.slot
      <4>1. content[drain.slot] = frame - n /\ content[s] = m
        BY <2>4, <3>1, Zenon DEF Holds
      <4>2. m # frame - n
        BY <1>t
      <4> QED BY <4>1, <4>2, Zenon
    <3>3. Holds(s, m)'
      BY <1>0, <1>2, <1>t, <3>1, <3>2, Zenon DEF Holds, QueueTypes
    <3> QED BY <1>2, <1>u, <3>3, Zenon
  <2>6. Queue'
    <3>1. frame' = Done' + n + Busy' /\ n = Len(pending_slots')
      BY <1>2, <1>t, <1>u, <2>1, <2>4
    <3>2. \A k \in 1 .. n : Holds(pending_slots[k], frame - n + k)'
      BY <2>5, Zenon
    <3>3. \A k \in 1 .. n : Holds(pending_slots[k], frame - Len(pending_slots) + k)'
      BY <3>1, <3>2, Zenon
    <3> QED BY <1>2, <3>1, <3>3, Zenon DEF Queue
  <2>7. Order'
    <3>1. slot_in_use[drain.slot] = TRUE
      BY <2>4, Zenon DEF Holds
    <3>2. main \in Claimed => Slot # drain.slot /\ ~slot_in_use[Slot] /\ Done >= frame - 1
      BY <1>0, <3>1, Zenon DEF Order
    <3>3. Slot \in Slots /\ Slot' = Slot /\ FrameId' = FrameId
      BY <1>2, <1>t DEF Slots, Slot, FrameId
    <3>4. main \in Claimed => ~slot_in_use'[Slot] /\ content'[Slot] = content[Slot]
      BY <1>0, <1>2, <1>t, <3>2, <3>3, Zenon DEF QueueTypes
    <3>5. main = "hand_over" => main \in Claimed
      BY Zenon DEF Claimed
    <3> QED BY <1>0, <1>2, <1>u, <2>1, <3>2, <3>3, <3>4, <3>5, Zenon DEF Order
  <2> QED BY <1>0, <1>2, <1>u, <2>1, <2>2, <2>3, <2>6, <2>7, Zenon
            DEF FlowInv, OutTypes, Accepted, Fresh, Written, Position, Kept, Going, Passed,
            Complete,
           After, InvalidateAfterLoss
<1>3. CASE /\ drain' = Idle /\ content' = [content EXCEPT ![drain.slot] = 0]
           /\ worker # "draining" /\ main' = "claim" /\ frame' = frame + 1
           /\ UNCHANGED <<worker, slot_in_use, input_done, worker_error>>
  <2>1. /\ main = "draining" /\ opts.depth = 0 /\ worker = "none"
        /\ drain' = [slot |-> None, step |-> "none"] /\ Busy' = 0
    BY <1>0, <1>3, <1>u, Zenon DEF Threads, Idle, Busy
  <2>2. ThreadTypes' /\ QueueTypes'
    BY <1>0, <1>3, <1>t, <1>u, <2>1 DEF ThreadTypes, QueueTypes, Places, Loop
  <2>3. Done = frame + 1
    BY <1>0, <1>t, <2>1, SMTT(60) DEF Order, Loop
  <2>4. frame + 1 <= opts.frames
    BY <1>0, <1>o, <1>t, <2>1 DEF Threads, OptTypes
  <2>5. Threads'
    BY <1>0, <1>3, <1>u, <2>1, <2>4 DEF Threads, Loop, Claimed, After
  <2>6. Order'
    BY <1>3, <1>u, <2>3 DEF Order, Claimed
  <2> QED BY <1>0, <1>3, <1>u, <2>1, <2>2, <2>5, <2>6
            DEF FlowInv, OutTypes, Accepted, Fresh, Before, Queue, Written, Position, Kept,
            Going, Loop, Passed,
           InvalidateAfterLoss
<1> QED BY <1>1, <1>2, <1>3, Zenon DEF UnmapInput

\* The gates keep it: status 0 is given only after the last frame, with every
\* requested step done.
LEMMA FlowGates ==
  ASSUME FlowInv, Gates
  PROVE  FlowInv'
<1>0. ThreadTypes /\ QueueTypes /\ OutTypes /\ Accepted /\ Fresh /\ Threads /\ Order
      /\ Queue /\ Written /\ Kept /\ Passed /\ InvalidateAfterLoss
  BY Zenon DEF FlowInv
<1>o. OptTypes(opts)
  BY OptionTypes, Zenon DEF FlowInv, ThreadTypes
<1>1. /\ main = "gates" /\ main' = "teardown" /\ code' \in {0, 1}
      /\ UNCHANGED <<opts, worker, drain, frame, content, slot_in_use, pending_slots, input_done,
                     worker_error, out>>
      /\ Done' = Done /\ Busy' = Busy
  BY ZenonT(60) DEF Gates, Throw, queue, Done, Busy
<1>2. /\ ThreadTypes' /\ QueueTypes' /\ OutTypes' /\ Accepted' /\ Fresh' /\ Written'
      /\ InvalidateAfterLoss'
  BY <1>0, <1>1
     DEF ThreadTypes, Places, After, QueueTypes, OutTypes, Accepted, Fresh, Before,
                    Written, Position, InvalidateAfterLoss
<1>3. Threads'
  BY <1>0, <1>1, Zenon DEF Threads, Loop, Claimed, After
<1>4. Order' /\ Kept'
  BY <1>1, Zenon DEF Order, Kept, Going, Loop, Claimed
<1>5. Queue'
  BY <1>0, <1>1, Zenon DEF Queue, Holds
<1>6. Passed'
  <2> SUFFICES ASSUME code' = 0 PROVE Complete
    BY <1>1, Zenon DEF Passed, Complete
  <2>1. RequestedGatesPassed
    BY DEF Gates
  <2>2. /\ drain.step = "none" /\ ~worker_error /\ frame = opts.frames
        /\ worker \in {"none", "exited"}
        /\ (opts.depth = 1 => pending_slots = <<>>)
    BY <1>0, <1>1, <1>o DEF Threads, After, OptTypes
  <2>3. Done \in Nat /\ frame \in Nat /\ Busy = 0
    BY <1>0, <2>2, DoneType, Zenon DEF QueueTypes, Busy
  <2>4. Done = opts.frames
    <3>1. CASE opts.depth = 0
      BY <1>0, <1>1, <2>2, <2>3, <3>1 DEF Order
    <3>2. CASE opts.depth = 1
      BY <1>0, <2>2, <2>3, <3>2 DEF Queue
    <3> QED BY <3>1, <3>2, <1>o, Zenon DEF OptTypes
  <2>5. opts.loss <= opts.frames
    BY <1>0, <1>1, Zenon DEF Accepted
  <2>6. Going
    BY <1>1, <2>2, Zenon DEF Going
  <2> QED BY <1>0, <2>1, <2>4, <2>5, <2>6, Zenon
            DEF Complete, Kept, RequestedGatesPassed
<1> QED BY <1>2, <1>3, <1>4, <1>5, <1>6, Zenon DEF FlowInv

-----------------------------------------------------------------------------
(* Every step keeps the invariant of the resources.                        *)

\* The order of the setup.
LEMMA StageOrder ==
  /\ Len(Stages) = 16
  /\ Stages[1] = <<"cuda", 0>> /\ Stages[2] = <<"context", 0>> /\ Stages[3] = <<"stream", 0>>
  /\ Stages[4] = <<"module", 0>> /\ Stages[5] = <<"test", 0>> /\ Stages[6] = <<"library", 0>>
  /\ Stages[7] = <<"handle", 0>> /\ Stages[8] = <<"capture", 0>> /\ Stages[9] = <<"loader", 0>>
  /\ Stages[10] = <<"encoder", 0>> /\ Stages[11] = <<"surface", 0>>
  /\ Stages[12] = <<"registered", 0>> /\ Stages[13] = <<"bitstream", 0>>
  /\ Stages[14] = <<"surface", 1>> /\ Stages[15] = <<"registered", 1>>
  /\ Stages[16] = <<"bitstream", 1>>
BY DEF Stages, CudaStages, CaptureStages, EncoderStages

\* Which pairs are resources.
LEMMA IsResource ==
  /\ \A x \in {"cuda", "context", "stream", "module", "test", "library", "handle", "capture",
               "loader", "encoder"} : <<x, 0>> \in Resources
  /\ \A x \in {"surface", "registered", "bitstream", "mapped", "locked"}, s \in Slots :
       <<x, s>> \in Resources
BY ZenonT(60) DEF Resources

\* What the setup acquires are resources.
LEMMA StagesAreResources ==
  /\ <<"cuda", 0>> \in Resources
  /\ <<"context", 0>> \in Resources
  /\ <<"stream", 0>> \in Resources
  /\ <<"module", 0>> \in Resources
  /\ <<"library", 0>> \in Resources
  /\ <<"handle", 0>> \in Resources
  /\ <<"capture", 0>> \in Resources
  /\ <<"loader", 0>> \in Resources
  /\ <<"encoder", 0>> \in Resources
  /\ <<"surface", 0>> \in Resources
  /\ <<"registered", 0>> \in Resources
  /\ <<"bitstream", 0>> \in Resources
  /\ <<"surface", 1>> \in Resources
  /\ <<"registered", 1>> \in Resources
  /\ <<"bitstream", 1>> \in Resources
BY IsResource, Zenon DEF Slots

\* What a stage needs, earlier stages have acquired.
LEMMA StageNeeds ==
  ASSUME NEW k \in 1 .. Len(Stages), Stages[k] # Test, NEW h,
         \A j \in 1 .. k - 1 : Stages[j] \in h \union {Test}
  PROVE  Stages[k] \in Resources /\ Needs(Stages[k]) \subseteq h
<1>1. k \in 1 .. 16
  BY StageOrder, Zenon
<1> DEFINE Earlier(j) == j < k => Stages[j] \in h \union {Test}
<1>e. \A j \in 1 .. 16 : Earlier(j)
  BY <1>1
<1>r. /\ 1 \in 1 .. 16 /\ 2 \in 1 .. 16 /\ 6 \in 1 .. 16 /\ 7 \in 1 .. 16 /\ 9 \in 1 .. 16
      /\ 10 \in 1 .. 16 /\ 11 \in 1 .. 16 /\ 14 \in 1 .. 16
  OBVIOUS
<1>n2. k > 2 => <<"context", 0>> \in h
  <2>1. Earlier(2) /\ Stages[2] = <<"context", 0>> /\ <<"context", 0>> # Test
    BY <1>e, <1>r, StageOrder, Zenon DEF Test
  <2> QED BY <2>1, Zenon
<1>n1. k > 1 => <<"cuda", 0>> \in h
  <2>1. Earlier(1) /\ Stages[1] = <<"cuda", 0>> /\ <<"cuda", 0>> # Test
    BY <1>e, <1>r, StageOrder, Zenon DEF Test
  <2> QED BY <2>1, Zenon
<1>n6. k > 6 => <<"library", 0>> \in h
  <2>1. Earlier(6) /\ Stages[6] = <<"library", 0>> /\ <<"library", 0>> # Test
    BY <1>e, <1>r, StageOrder, Zenon DEF Test
  <2> QED BY <2>1, Zenon
<1>n7. k > 7 => <<"handle", 0>> \in h
  <2>1. Earlier(7) /\ Stages[7] = <<"handle", 0>> /\ <<"handle", 0>> # Test
    BY <1>e, <1>r, StageOrder, Zenon DEF Test
  <2> QED BY <2>1, Zenon
<1>n9. k > 9 => <<"loader", 0>> \in h
  <2>1. Earlier(9) /\ Stages[9] = <<"loader", 0>> /\ <<"loader", 0>> # Test
    BY <1>e, <1>r, StageOrder, Zenon DEF Test
  <2> QED BY <2>1, Zenon
<1>n10. k > 10 => <<"encoder", 0>> \in h
  <2>1. Earlier(10) /\ Stages[10] = <<"encoder", 0>> /\ <<"encoder", 0>> # Test
    BY <1>e, <1>r, StageOrder, Zenon DEF Test
  <2> QED BY <2>1, Zenon
<1>n11. k > 11 => <<"surface", 0>> \in h
  <2>1. Earlier(11) /\ Stages[11] = <<"surface", 0>> /\ <<"surface", 0>> # Test
    BY <1>e, <1>r, StageOrder, Zenon DEF Test
  <2> QED BY <2>1, Zenon
<1>n14. k > 14 => <<"surface", 1>> \in h
  <2>1. Earlier(14) /\ Stages[14] = <<"surface", 1>> /\ <<"surface", 1>> # Test
    BY <1>e, <1>r, StageOrder, Zenon DEF Test
  <2> QED BY <2>1, Zenon
<1>k1. CASE k = 1
  <2>1. Stages[k] = <<"cuda", 0>>
    BY <1>k1, StageOrder, Zenon
  <2>2. Needs(<<"cuda", 0>>) = {}
    BY Zenon DEF Needs
  <2>3. <<"cuda", 0>> \in Resources
    BY StagesAreResources, Zenon
  <2>4. {} \subseteq h
    BY <1>k1, Zenon
  <2> QED BY <2>1, <2>2, <2>3, <2>4, Zenon
<1>k2. CASE k = 2
  <2>1. Stages[k] = <<"context", 0>>
    BY <1>k2, StageOrder, Zenon
  <2>2. Needs(<<"context", 0>>) = {<<"cuda", 0>>}
    BY Zenon DEF Needs
  <2>3. <<"context", 0>> \in Resources
    BY StagesAreResources, Zenon
  <2>4. {<<"cuda", 0>>} \subseteq h
    BY <1>k2, <1>n1
  <2> QED BY <2>1, <2>2, <2>3, <2>4, Zenon
<1>k3. CASE k = 3
  <2>1. Stages[k] = <<"stream", 0>>
    BY <1>k3, StageOrder, Zenon
  <2>2. Needs(<<"stream", 0>>) = {<<"context", 0>>}
    BY Zenon DEF Needs
  <2>3. <<"stream", 0>> \in Resources
    BY StagesAreResources, Zenon
  <2>4. {<<"context", 0>>} \subseteq h
    BY <1>k3, <1>n2
  <2> QED BY <2>1, <2>2, <2>3, <2>4, Zenon
<1>k4. CASE k = 4
  <2>1. Stages[k] = <<"module", 0>>
    BY <1>k4, StageOrder, Zenon
  <2>2. Needs(<<"module", 0>>) = {<<"context", 0>>}
    BY Zenon DEF Needs
  <2>3. <<"module", 0>> \in Resources
    BY StagesAreResources, Zenon
  <2>4. {<<"context", 0>>} \subseteq h
    BY <1>k4, <1>n2
  <2> QED BY <2>1, <2>2, <2>3, <2>4, Zenon
<1>k5. CASE k = 5
  BY <1>k5, StageOrder, Zenon DEF Test
<1>k6. CASE k = 6
  <2>1. Stages[k] = <<"library", 0>>
    BY <1>k6, StageOrder, Zenon
  <2>2. Needs(<<"library", 0>>) = {}
    BY Zenon DEF Needs
  <2>3. <<"library", 0>> \in Resources
    BY StagesAreResources, Zenon
  <2>4. {} \subseteq h
    BY <1>k6, Zenon
  <2> QED BY <2>1, <2>2, <2>3, <2>4, Zenon
<1>k7. CASE k = 7
  <2>1. Stages[k] = <<"handle", 0>>
    BY <1>k7, StageOrder, Zenon
  <2>2. Needs(<<"handle", 0>>) = {<<"library", 0>>}
    BY Zenon DEF Needs
  <2>3. <<"handle", 0>> \in Resources
    BY StagesAreResources, Zenon
  <2>4. {<<"library", 0>>} \subseteq h
    BY <1>k7, <1>n6
  <2> QED BY <2>1, <2>2, <2>3, <2>4, Zenon
<1>k8. CASE k = 8
  <2>1. Stages[k] = <<"capture", 0>>
    BY <1>k8, StageOrder, Zenon
  <2>2. Needs(<<"capture", 0>>) = {<<"handle", 0>>, <<"context", 0>>}
    BY Zenon DEF Needs
  <2>3. <<"capture", 0>> \in Resources
    BY StagesAreResources, Zenon
  <2>4. {<<"handle", 0>>, <<"context", 0>>} \subseteq h
    BY <1>k8, <1>n2, <1>n7
  <2> QED BY <2>1, <2>2, <2>3, <2>4, Zenon
<1>k9. CASE k = 9
  <2>1. Stages[k] = <<"loader", 0>>
    BY <1>k9, StageOrder, Zenon
  <2>2. Needs(<<"loader", 0>>) = {}
    BY Zenon DEF Needs
  <2>3. <<"loader", 0>> \in Resources
    BY StagesAreResources, Zenon
  <2>4. {} \subseteq h
    BY <1>k9, Zenon
  <2> QED BY <2>1, <2>2, <2>3, <2>4, Zenon
<1>k10. CASE k = 10
  <2>1. Stages[k] = <<"encoder", 0>>
    BY <1>k10, StageOrder, Zenon
  <2>2. Needs(<<"encoder", 0>>) = {<<"loader", 0>>, <<"context", 0>>}
    BY Zenon DEF Needs
  <2>3. <<"encoder", 0>> \in Resources
    BY StagesAreResources, Zenon
  <2>4. {<<"loader", 0>>, <<"context", 0>>} \subseteq h
    BY <1>k10, <1>n2, <1>n9
  <2> QED BY <2>1, <2>2, <2>3, <2>4, Zenon
<1>k11. CASE k = 11
  <2>1. Stages[k] = <<"surface", 0>>
    BY <1>k11, StageOrder, Zenon
  <2>2. Needs(<<"surface", 0>>) = {<<"context", 0>>}
    BY Zenon DEF Needs
  <2>3. <<"surface", 0>> \in Resources
    BY StagesAreResources, Zenon
  <2>4. {<<"context", 0>>} \subseteq h
    BY <1>k11, <1>n2
  <2> QED BY <2>1, <2>2, <2>3, <2>4, Zenon
<1>k12. CASE k = 12
  <2>1. Stages[k] = <<"registered", 0>>
    BY <1>k12, StageOrder, Zenon
  <2>2. Needs(<<"registered", 0>>) = {<<"encoder", 0>>, <<"surface", 0>>}
    BY Zenon DEF Needs
  <2>3. <<"registered", 0>> \in Resources
    BY StagesAreResources, Zenon
  <2>4. {<<"encoder", 0>>, <<"surface", 0>>} \subseteq h
    BY <1>k12, <1>n10, <1>n11
  <2> QED BY <2>1, <2>2, <2>3, <2>4, Zenon
<1>k13. CASE k = 13
  <2>1. Stages[k] = <<"bitstream", 0>>
    BY <1>k13, StageOrder, Zenon
  <2>2. Needs(<<"bitstream", 0>>) = {<<"encoder", 0>>}
    BY Zenon DEF Needs
  <2>3. <<"bitstream", 0>> \in Resources
    BY StagesAreResources, Zenon
  <2>4. {<<"encoder", 0>>} \subseteq h
    BY <1>k13, <1>n10
  <2> QED BY <2>1, <2>2, <2>3, <2>4, Zenon
<1>k14. CASE k = 14
  <2>1. Stages[k] = <<"surface", 1>>
    BY <1>k14, StageOrder, Zenon
  <2>2. Needs(<<"surface", 1>>) = {<<"context", 0>>}
    BY Zenon DEF Needs
  <2>3. <<"surface", 1>> \in Resources
    BY StagesAreResources, Zenon
  <2>4. {<<"context", 0>>} \subseteq h
    BY <1>k14, <1>n2
  <2> QED BY <2>1, <2>2, <2>3, <2>4, Zenon
<1>k15. CASE k = 15
  <2>1. Stages[k] = <<"registered", 1>>
    BY <1>k15, StageOrder, Zenon
  <2>2. Needs(<<"registered", 1>>) = {<<"encoder", 0>>, <<"surface", 1>>}
    BY Zenon DEF Needs
  <2>3. <<"registered", 1>> \in Resources
    BY StagesAreResources, Zenon
  <2>4. {<<"encoder", 0>>, <<"surface", 1>>} \subseteq h
    BY <1>k15, <1>n10, <1>n14
  <2> QED BY <2>1, <2>2, <2>3, <2>4, Zenon
<1>k16. CASE k = 16
  <2>1. Stages[k] = <<"bitstream", 1>>
    BY <1>k16, StageOrder, Zenon
  <2>2. Needs(<<"bitstream", 1>>) = {<<"encoder", 0>>}
    BY Zenon DEF Needs
  <2>3. <<"bitstream", 1>> \in Resources
    BY StagesAreResources, Zenon
  <2>4. {<<"encoder", 0>>} \subseteq h
    BY <1>k16, <1>n10
  <2> QED BY <2>1, <2>2, <2>3, <2>4, Zenon
<1> QED BY <1>1, <1>k1, <1>k2, <1>k3, <1>k4, <1>k5, <1>k6, <1>k7, <1>k8, <1>k9, <1>k10,
           <1>k11, <1>k12, <1>k13, <1>k14, <1>k15, <1>k16

\* The order of the teardown.
LEMMA TeardownOrder ==
  /\ Len(Teardown) = 19
  /\ Teardown[1] = <<"locked", 0>> /\ Teardown[2] = <<"mapped", 0>>
  /\ Teardown[3] = <<"bitstream", 0>> /\ Teardown[4] = <<"registered", 0>>
  /\ Teardown[5] = <<"locked", 1>> /\ Teardown[6] = <<"mapped", 1>>
  /\ Teardown[7] = <<"bitstream", 1>> /\ Teardown[8] = <<"registered", 1>>
  /\ Teardown[9] = <<"encoder", 0>> /\ Teardown[10] = <<"loader", 0>>
  /\ Teardown[11] = <<"capture", 0>> /\ Teardown[12] = <<"handle", 0>>
  /\ Teardown[13] = <<"library", 0>> /\ Teardown[14] = <<"surface", 0>>
  /\ Teardown[15] = <<"surface", 1>> /\ Teardown[16] = <<"stream", 0>>
  /\ Teardown[17] = <<"module", 0>> /\ Teardown[18] = <<"context", 0>> /\ Teardown[19] = <<"cuda", 0>>
BY Zenon DEF Teardown

\* What each kind of resource is made from.
LEMMA NeedsOf ==
  ASSUME NEW r \in Resources
  PROVE  /\ r[1] \in {"cuda", "library", "loader"} => Needs(r) = {}
         /\ r[1] = "context" => Needs(r) = {<<"cuda", 0>>}
         /\ r[1] \in {"stream", "module", "test", "surface"} => Needs(r) = {<<"context", 0>>}
         /\ r[1] = "handle" => Needs(r) = {<<"library", 0>>}
         /\ r[1] = "capture" => Needs(r) = {<<"handle", 0>>, <<"context", 0>>}
         /\ r[1] = "encoder" => Needs(r) = {<<"loader", 0>>, <<"context", 0>>}
         /\ r[1] = "registered" => Needs(r) = {<<"encoder", 0>>, <<"surface", r[2]>>}
         /\ r[1] = "bitstream" => Needs(r) = {<<"encoder", 0>>}
         /\ r[1] = "mapped" => Needs(r) = {<<"registered", r[2]>>}
         /\ r[1] = "locked" => Needs(r) = {<<"bitstream", r[2]>>}
BY Zenon DEF Needs

\* The kinds of the resources, and which have a slot.
LEMMA Kinds ==
  ASSUME NEW r \in Resources
  PROVE  /\ r = <<r[1], r[2]>> /\ r[2] \in Slots
         /\ r[1] \in {"cuda", "context", "stream", "module", "test", "library", "handle",
                      "capture", "loader", "encoder", "surface", "registered", "bitstream",
                      "mapped", "locked"}
         /\ r[1] \notin {"surface", "registered", "bitstream", "mapped", "locked"} => r[2] = 0
BY SMTT(60) DEF Resources, Slots

\* Where the teardown releases what others are made from.
LEMMA TeardownPlaces ==
  ASSUME NEW k \in 1 .. 19
  PROVE  /\ Teardown[k] = <<"cuda", 0>> => k = 19
         /\ Teardown[k] = <<"context", 0>> => k = 18
         /\ Teardown[k] = <<"library", 0>> => k = 13
         /\ Teardown[k] = <<"handle", 0>> => k = 12
         /\ Teardown[k] = <<"loader", 0>> => k = 10
         /\ Teardown[k] = <<"encoder", 0>> => k = 9
         /\ Teardown[k] = <<"surface", 0>> => k = 14
         /\ Teardown[k] = <<"surface", 1>> => k = 15
         /\ Teardown[k] = <<"registered", 0>> => k = 4
         /\ Teardown[k] = <<"registered", 1>> => k = 8
         /\ Teardown[k] = <<"bitstream", 0>> => k = 3
         /\ Teardown[k] = <<"bitstream", 1>> => k = 7
<1>1. CASE k \in 1 .. 8
  BY <1>1, TeardownOrder, SMTT(60)
<1>2. CASE k \in 9 .. 19
  BY <1>2, TeardownOrder
<1> QED BY <1>1, <1>2, SMTT(60)

\* The teardown releases a resource after all that is made from it.
LEMMA TeardownNeeds ==
  ASSUME NEW k \in 1 .. Len(Teardown), NEW r \in Resources, Teardown[k] \in Needs(r), r # Test
  PROVE  \E j \in 1 .. k - 1 : Teardown[j] = r
<1>1. k \in 1 .. 19
  BY TeardownOrder, Zenon
<1>2. CASE r[1] \in {"cuda", "library", "loader"}
  BY <1>2, NeedsOf, Zenon
<1>4. CASE r[1] = "test"
  BY <1>4, Kinds, Zenon DEF Test
<1>5. CASE r = <<"locked", 0>>
  <2>1. Needs(r) = {<<"bitstream", 0>>}
    BY <1>5, Zenon DEF Needs
  <2>2. k \in {3}
    BY <1>1, <2>1, TeardownPlaces, Zenon
  <2>3. 1 \in 1 .. k - 1 /\ Teardown[1] = r
    BY <1>5, <2>2, TeardownOrder
  <2> QED BY <2>3, Zenon
<1>6. CASE r = <<"mapped", 0>>
  <2>1. Needs(r) = {<<"registered", 0>>}
    BY <1>6, Zenon DEF Needs
  <2>2. k \in {4}
    BY <1>1, <2>1, TeardownPlaces, Zenon
  <2>3. 2 \in 1 .. k - 1 /\ Teardown[2] = r
    BY <1>6, <2>2, TeardownOrder
  <2> QED BY <2>3, Zenon
<1>7. CASE r = <<"bitstream", 0>>
  <2>1. Needs(r) = {<<"encoder", 0>>}
    BY <1>7, Zenon DEF Needs
  <2>2. k \in {9}
    BY <1>1, <2>1, TeardownPlaces, Zenon
  <2>3. 3 \in 1 .. k - 1 /\ Teardown[3] = r
    BY <1>7, <2>2, TeardownOrder
  <2> QED BY <2>3, Zenon
<1>8. CASE r = <<"registered", 0>>
  <2>1. Needs(r) = {<<"encoder", 0>>, <<"surface", 0>>}
    BY <1>8, Zenon DEF Needs
  <2>2. k \in {9, 14}
    BY <1>1, <2>1, TeardownPlaces, Zenon
  <2>3. 4 \in 1 .. k - 1 /\ Teardown[4] = r
    BY <1>8, <2>2, TeardownOrder
  <2> QED BY <2>3, Zenon
<1>9. CASE r = <<"locked", 1>>
  <2>1. Needs(r) = {<<"bitstream", 1>>}
    BY <1>9, Zenon DEF Needs
  <2>2. k \in {7}
    BY <1>1, <2>1, TeardownPlaces, Zenon
  <2>3. 5 \in 1 .. k - 1 /\ Teardown[5] = r
    BY <1>9, <2>2, TeardownOrder
  <2> QED BY <2>3, Zenon
<1>10. CASE r = <<"mapped", 1>>
  <2>1. Needs(r) = {<<"registered", 1>>}
    BY <1>10, Zenon DEF Needs
  <2>2. k \in {8}
    BY <1>1, <2>1, TeardownPlaces, Zenon
  <2>3. 6 \in 1 .. k - 1 /\ Teardown[6] = r
    BY <1>10, <2>2, TeardownOrder
  <2> QED BY <2>3, Zenon
<1>11. CASE r = <<"bitstream", 1>>
  <2>1. Needs(r) = {<<"encoder", 0>>}
    BY <1>11, Zenon DEF Needs
  <2>2. k \in {9}
    BY <1>1, <2>1, TeardownPlaces, Zenon
  <2>3. 7 \in 1 .. k - 1 /\ Teardown[7] = r
    BY <1>11, <2>2, TeardownOrder
  <2> QED BY <2>3, Zenon
<1>12. CASE r = <<"registered", 1>>
  <2>1. Needs(r) = {<<"encoder", 0>>, <<"surface", 1>>}
    BY <1>12, Zenon DEF Needs
  <2>2. k \in {9, 15}
    BY <1>1, <2>1, TeardownPlaces, Zenon
  <2>3. 8 \in 1 .. k - 1 /\ Teardown[8] = r
    BY <1>12, <2>2, TeardownOrder
  <2> QED BY <2>3, Zenon
<1>13. CASE r = <<"encoder", 0>>
  <2>1. Needs(r) = {<<"loader", 0>>, <<"context", 0>>}
    BY <1>13, Zenon DEF Needs
  <2>2. k \in {10, 18}
    BY <1>1, <2>1, TeardownPlaces, Zenon
  <2>3. 9 \in 1 .. k - 1 /\ Teardown[9] = r
    BY <1>13, <2>2, TeardownOrder
  <2> QED BY <2>3, Zenon
<1>14. CASE r = <<"capture", 0>>
  <2>1. Needs(r) = {<<"handle", 0>>, <<"context", 0>>}
    BY <1>14, Zenon DEF Needs
  <2>2. k \in {12, 18}
    BY <1>1, <2>1, TeardownPlaces, Zenon
  <2>3. 11 \in 1 .. k - 1 /\ Teardown[11] = r
    BY <1>14, <2>2, TeardownOrder
  <2> QED BY <2>3, Zenon
<1>15. CASE r = <<"handle", 0>>
  <2>1. Needs(r) = {<<"library", 0>>}
    BY <1>15, Zenon DEF Needs
  <2>2. k \in {13}
    BY <1>1, <2>1, TeardownPlaces, Zenon
  <2>3. 12 \in 1 .. k - 1 /\ Teardown[12] = r
    BY <1>15, <2>2, TeardownOrder
  <2> QED BY <2>3, Zenon
<1>16. CASE r = <<"surface", 0>>
  <2>1. Needs(r) = {<<"context", 0>>}
    BY <1>16, Zenon DEF Needs
  <2>2. k \in {18}
    BY <1>1, <2>1, TeardownPlaces, Zenon
  <2>3. 14 \in 1 .. k - 1 /\ Teardown[14] = r
    BY <1>16, <2>2, TeardownOrder
  <2> QED BY <2>3, Zenon
<1>17. CASE r = <<"surface", 1>>
  <2>1. Needs(r) = {<<"context", 0>>}
    BY <1>17, Zenon DEF Needs
  <2>2. k \in {18}
    BY <1>1, <2>1, TeardownPlaces, Zenon
  <2>3. 15 \in 1 .. k - 1 /\ Teardown[15] = r
    BY <1>17, <2>2, TeardownOrder
  <2> QED BY <2>3, Zenon
<1>18. CASE r = <<"stream", 0>>
  <2>1. Needs(r) = {<<"context", 0>>}
    BY <1>18, Zenon DEF Needs
  <2>2. k \in {18}
    BY <1>1, <2>1, TeardownPlaces, Zenon
  <2>3. 16 \in 1 .. k - 1 /\ Teardown[16] = r
    BY <1>18, <2>2, TeardownOrder
  <2> QED BY <2>3, Zenon
<1>19. CASE r = <<"module", 0>>
  <2>1. Needs(r) = {<<"context", 0>>}
    BY <1>19, Zenon DEF Needs
  <2>2. k \in {18}
    BY <1>1, <2>1, TeardownPlaces, Zenon
  <2>3. 17 \in 1 .. k - 1 /\ Teardown[17] = r
    BY <1>19, <2>2, TeardownOrder
  <2> QED BY <2>3, Zenon
<1>20. CASE r = <<"context", 0>>
  <2>1. Needs(r) = {<<"cuda", 0>>}
    BY <1>20, Zenon DEF Needs
  <2>2. k \in {19}
    BY <1>1, <2>1, TeardownPlaces, Zenon
  <2>3. 18 \in 1 .. k - 1 /\ Teardown[18] = r
    BY <1>20, <2>2, TeardownOrder
  <2> QED BY <2>3, Zenon
<1> QED BY <1>2, <1>4, <1>5, <1>6, <1>7, <1>8, <1>9, <1>10, <1>11, <1>12, <1>13, <1>14,
           <1>15, <1>16, <1>17, <1>18, <1>19, <1>20, Kinds, ZenonT(60) DEF Slots

\* The teardown releases everything but the self-test's buffers, which go with
\* the context.
LEMMA TeardownCovers ==
  ASSUME NEW r \in Resources, r # Test
  PROVE  \E j \in 1 .. Len(Teardown) : Teardown[j] = r
<1>1. CASE r[1] \in {"cuda", "library", "loader", "context", "stream", "module", "handle", "capture", "encoder"}
  BY <1>1, Kinds, TeardownOrder, SMTT(60)
<1>2. CASE r[1] \in {"surface", "registered", "bitstream", "mapped", "locked"}
  BY <1>2, Kinds, TeardownOrder, SMTT(60) DEF Slots
<1>3. CASE r[1] = "test"
  BY <1>3, Kinds, Zenon DEF Test
<1> QED BY <1>1, <1>2, <1>3, Kinds, Zenon

\* A step inside the frame loop that acquires nothing keeps what is held.
LEMMA HeldStays ==
  ASSUME HeldInv, held' = held, stage' = stage,
         main' = main \/ (main \in {"files"} \union InLoop /\ main' \in InLoop)
  PROVE  HeldInv'
<1>1. main \in {"files"} \union InLoop => main \notin {"options", "setup", "teardown", "exited"}
  BY Zenon DEF InLoop, Loop, Claimed
<1>2. main' \in InLoop => main' \notin {"options", "setup", "teardown", "exited"}
  BY Zenon DEF InLoop, Loop, Claimed
<1> QED BY <1>1, <1>2, Zenon DEF HeldInv, Closed

\* An exception that leaves the block starts the teardown.
LEMMA HeldThrows ==
  ASSUME HeldInv, Throw, held' = held
  PROVE  HeldInv'
<1>1. main' = "teardown" /\ stage' = 1 /\ ~(1 > Len(Teardown))
  BY TeardownOrder DEF Throw
<1>2. main' \notin {"options", "setup", "files", "exited"} \union InLoop
  BY <1>1, Zenon DEF InLoop, Loop, Claimed
<1> QED BY <1>1, <1>2 DEF HeldInv, Closed

\* What has all it is made from may be added.
LEMMA ClosedUnder ==
  ASSUME NEW h, Closed(h), NEW r, Needs(r) \subseteq h
  PROVE  Closed(h \union {r})
BY Zenon DEF Closed

\* In the frame loop both slots have their registered surface and their
\* bitstream.
LEMMA SlotResources ==
  ASSUME HeldInv, main \in InLoop, NEW s \in Slots
  PROVE  <<"registered", s>> \in held /\ <<"bitstream", s>> \in held
<1>1. \A k \in 1 .. 16 : Stages[k] \in held \union {Test}
  BY StageOrder, Zenon DEF HeldInv
<1>2. /\ Stages[12] \in held \union {Test} /\ Stages[13] \in held \union {Test}
      /\ Stages[15] \in held \union {Test} /\ Stages[16] \in held \union {Test}
  BY <1>1
<1>3. /\ <<"registered", 0>> # Test /\ <<"registered", 1>> # Test
      /\ <<"bitstream", 0>> # Test /\ <<"bitstream", 1>> # Test
  BY Zenon DEF Test
<1>4. /\ Stages[12] = <<"registered", 0>> /\ Stages[13] = <<"bitstream", 0>>
      /\ Stages[15] = <<"registered", 1>> /\ Stages[16] = <<"bitstream", 1>>
  BY StageOrder, Zenon
<1>5. /\ <<"registered", 0>> \in held /\ <<"registered", 1>> \in held
      /\ <<"bitstream", 0>> \in held /\ <<"bitstream", 1>> \in held
  BY <1>2, <1>3, <1>4, Zenon
<1> QED BY <1>5, Zenon DEF Slots

\* A slot may be mapped and locked in the frame loop.
LEMMA HeldAdds ==
  ASSUME HeldInv, main \in InLoop, main' \in InLoop, stage' = stage, NEW s \in Slots,
         NEW r \in {<<"mapped", s>>, <<"locked", s>>}, held' = held \union {r}
  PROVE  HeldInv'
<1>1. r \in Resources /\ r # Test
  BY IsResource DEF Test
<1>2. Needs(r) \subseteq held
  <2>1. CASE r = <<"mapped", s>>
    <3>1. Needs(r) = {<<"registered", s>>}
      BY <2>1, Zenon DEF Needs
    <3> QED BY <3>1, SlotResources, Zenon
  <2>2. CASE r = <<"locked", s>>
    <3>1. Needs(r) = {<<"bitstream", s>>}
      BY <2>2, Zenon DEF Needs
    <3> QED BY <3>1, SlotResources, Zenon
  <2> QED BY <2>1, <2>2, Zenon
<1>3. Closed(held)'
  BY <1>2, ClosedUnder, Zenon DEF HeldInv
<1>4. main \notin {"options", "setup", "teardown", "exited"}
  BY Zenon DEF InLoop, Loop, Claimed
<1>5. main' \notin {"options", "setup", "teardown", "exited"}
  BY Zenon DEF InLoop, Loop, Claimed
<1> QED BY <1>1, <1>3, <1>4, <1>5, Zenon DEF HeldInv

\* Nothing is made from a mapped input or a locked bitstream, so both may be
\* released.
LEMMA HeldDrops ==
  ASSUME HeldInv, main \in InLoop, main' \in InLoop, stage' = stage, NEW s \in Slots,
         NEW r \in {<<"mapped", s>>, <<"locked", s>>}, held' = held \ {r}
  PROVE  HeldInv'
<1>1. \A q \in Resources : r \notin Needs(q)
  <2> SUFFICES ASSUME NEW q \in Resources PROVE r \notin Needs(q)
    BY Zenon
  <2>1. r[1] \in {"mapped", "locked"}
    OBVIOUS
  <2>2. \A n \in Needs(q) : n[1] \in {"cuda", "context", "library", "handle", "loader", "encoder",
                                      "surface", "registered", "bitstream"}
    <3>1. CASE q[1] \in {"cuda", "library", "loader", "context", "stream", "module", "test",
                         "surface", "handle"}
      BY <3>1, NeedsOf
    <3>2. CASE q[1] \in {"capture", "encoder", "registered", "bitstream", "mapped", "locked"}
      BY <3>2, NeedsOf
    <3> QED BY <3>1, <3>2, Kinds, Zenon
  <2> QED BY <2>1, <2>2, Zenon
<1>2. Closed(held)'
  BY <1>1, Zenon DEF HeldInv, Closed
<1>3. main \notin {"options", "setup", "teardown", "exited"}
  BY Zenon DEF InLoop, Loop, Claimed
<1>4. main' \notin {"options", "setup", "teardown", "exited"}
  BY Zenon DEF InLoop, Loop, Claimed
<1>5. ASSUME NEW k \in 1 .. Len(Stages) PROVE Stages[k] \in held' \union {Test}
  <2>1. Stages[k] \in held \union {Test}
    BY Zenon DEF HeldInv
  <2>2. Stages[k] # r
    <3>1. k \in 1 .. 16 /\ r[1] \in {"mapped", "locked"}
      BY StageOrder
    <3>2. Stages[k][1] \notin {"mapped", "locked"}
      <4>1. CASE k \in 1 .. 8
        BY <4>1, StageOrder
      <4>2. CASE k \in 9 .. 16
        BY <4>2, StageOrder
      <4> QED BY <3>1, <4>1, <4>2
    <3> QED BY <3>1, <3>2, Zenon
  <2> QED BY <2>1, <2>2, Zenon
<1> QED BY <1>2, <1>3, <1>4, <1>5, Zenon DEF HeldInv

\* Acquiring the next stage keeps the invariant of the resources.
LEMMA HeldAcquire ==
  ASSUME HeldInv, Acquire
  PROVE  HeldInv'
<1>1. CASE Throw /\ held' = held
  BY <1>1, HeldThrows, Zenon
<1>2. CASE held' = held \union {Stages[stage]} /\ stage' = stage + 1
           /\ main' = IF stage = Len(Stages) THEN "files" ELSE "setup"
  <2>1. /\ main = "setup" /\ stage \in Nat \ {0} /\ stage <= Len(Stages) /\ Len(Stages) = 16
        /\ \A k \in 1 .. stage - 1 : Stages[k] \in held \union {Test}
        /\ Stages[stage] # Test
    BY StageOrder, Zenon DEF Acquire, HeldInv, Test
  <2>2. Stages[stage] \in Resources /\ Needs(Stages[stage]) \subseteq held
    BY <2>1, StageNeeds
  <2> PICK r : r = Stages[stage]
    BY Zenon
  <2>3. held' = held \union {r} /\ r \in Resources /\ r # Test /\ Needs(r) \subseteq held
    BY <1>2, <2>1, <2>2, Zenon
  <2>4. Closed(held)'
    BY <2>3, ClosedUnder, Zenon DEF HeldInv
  <2>5. \A k \in 1 .. stage : Stages[k] \in held' \union {Test}
    BY <2>1, <2>3
  <2>6. held' \subseteq Resources /\ Test \notin held'
    BY <2>1, <2>3, ZenonT(60) DEF HeldInv
  <2>7. CASE stage = Len(Stages)
    <3>1. main' = "files" /\ "files" \notin InLoop
      BY <1>2, <2>7, Zenon DEF InLoop, Loop, Claimed
    <3> QED BY <1>2, <2>1, <2>4, <2>5, <2>6, <2>7, <3>1 DEF HeldInv
  <2>8. CASE stage # Len(Stages)
    <3>1. main' = "setup" /\ "setup" \notin InLoop \union {"files"}
      BY <1>2, <2>8, Zenon DEF InLoop, Loop, Claimed
    <3>2. stage' \in Nat \ {0} /\ stage' <= Len(Stages) /\ stage' - 1 = stage
      BY <1>2, <2>1, <2>8
    <3> QED BY <1>2, <2>1, <2>4, <2>5, <2>6, <3>1, <3>2, Zenon DEF HeldInv
  <2> QED BY <2>7, <2>8, Zenon
<1> QED BY <1>1, <1>2, Zenon DEF Acquire

\* The self-tests keep it: the buffers a failed one leaves are the context's.
LEMMA HeldSelfTest ==
  ASSUME HeldInv, SelfTestConversion
  PROVE  HeldInv'
<1>1. /\ main = "setup" /\ stage \in Nat \ {0} /\ stage <= Len(Stages) /\ Len(Stages) = 16
      /\ Stages[stage] = Test
      /\ \A k \in 1 .. stage - 1 : Stages[k] \in held \union {Test}
  BY StageOrder, Zenon DEF SelfTestConversion, HeldInv, Test
<1>2. stage \in 1 .. 16
  BY <1>1
<1>3. stage = 5
  <2>1. \A k \in 1 .. 16 : k # 5 => Stages[k][1] # "test"
    <3> SUFFICES ASSUME NEW k \in 1 .. 16, k # 5 PROVE Stages[k][1] # "test"
      BY Zenon
    <3>1. CASE k \in 1 .. 8
      BY <3>1, StageOrder
    <3>2. CASE k \in 9 .. 16
      BY <3>2, StageOrder
    <3> QED BY <3>1, <3>2
  <2>2. Test[1] = "test"
    BY ZenonT(60) DEF Test
  <2> QED BY <1>1, <1>2, <2>1, <2>2, Zenon
<1>4. CASE stage' = stage + 1 /\ UNCHANGED <<main, held>>
  <2>1. "setup" \notin InLoop \union {"files"}
    BY Zenon DEF InLoop, Loop, Claimed
  <2>2. \A k \in 1 .. stage' - 1 : Stages[k] \in held' \union {Test}
    BY <1>1, <1>3, <1>4, SMTT(60)
  <2> QED BY <1>1, <1>3, <1>4, <2>1, <2>2 DEF HeldInv, Closed
<1>5. CASE Throw /\ held' = held
  BY <1>5, HeldThrows, Zenon
<1>6. CASE Throw /\ held' = held \union {Test}
  <2>1. main' = "teardown" /\ stage' = 1 /\ ~(1 > Len(Teardown))
    BY <1>6, TeardownOrder DEF Throw
  <2>2. main' \notin {"options", "setup", "files", "exited"} \union InLoop
    BY <2>1, Zenon DEF InLoop, Loop, Claimed
  <2>3. Needs(Test) = {<<"context", 0>>}
    BY Zenon DEF Needs, Test
  <2>4. <<"context", 0>> \in held
    <3>1. Stages[2] \in held \union {Test}
      BY <1>1, <1>3
    <3>2. Stages[2] = <<"context", 0>> /\ <<"context", 0>> # Test
      BY StageOrder, Zenon DEF Test
    <3> QED BY <3>1, <3>2, Zenon
  <2>5. Closed(held)'
    BY <1>6, <2>3, <2>4, ClosedUnder, Zenon DEF HeldInv
  <2>6. Test \in Resources
    BY IsResource, Zenon DEF Test
  <2> QED BY <1>6, <2>1, <2>2, <2>5, <2>6, SMTT(60) DEF HeldInv
<1> QED BY <1>4, <1>5, <1>6, Zenon DEF SelfTestConversion, Test

\* Releasing the next entry of the teardown keeps it.
LEMMA HeldRelease ==
  ASSUME HeldInv, Release
  PROVE  HeldInv'
<1> PICK t, e : t = Teardown[stage] /\ e = (IF t[1] = "context" THEN {Test} ELSE {})
  BY Zenon
<1>1. /\ main = "teardown" /\ main' = "teardown" /\ stage \in Nat \ {0}
      /\ stage <= Len(Teardown)
      /\ stage' = stage + 1 /\ held' = held \ ({t} \union e) /\ Len(Teardown) = 19
  BY TeardownOrder, Zenon DEF Release, HeldInv, Test
<1>2. \A k \in 1 .. Len(Teardown) : k < stage => Teardown[k] \notin held
  BY <1>1, Zenon DEF HeldInv
<1>3. \A k \in 1 .. Len(Teardown) : k < stage' => Teardown[k] \notin held'
  BY <1>1, <1>2
<1>4. Closed(held)'
  <2> SUFFICES ASSUME NEW r \in held', NEW n \in Needs(r) PROVE n \in held'
    BY Zenon DEF Closed
  <2>1. r \in held /\ r \in Resources /\ n \in held
    BY <1>1, Zenon DEF HeldInv, Closed
  <2>2. n # t
    <3> SUFFICES ASSUME n = t PROVE FALSE
      BY Zenon
    <3>1. CASE r = Test
      <4>1. Needs(Test) = {<<"context", 0>>}
        BY Zenon DEF Needs, Test
      <4>2. t[1] = "context"
        BY <3>1, <4>1
      <4> QED BY <1>1, <3>1, <4>2, Zenon
    <3>2. CASE r # Test
      <4>1. stage \in 1 .. Len(Teardown)
        BY <1>1
      <4>2. PICK j \in 1 .. stage - 1 : Teardown[j] = r
        BY <2>1, <3>2, <4>1, TeardownNeeds, Zenon
      <4>3. Teardown[j] \notin held
        BY <1>1, <1>2, <4>2
      <4> QED BY <2>1, <4>2, <4>3, Zenon
    <3> QED BY <3>1, <3>2, Zenon
  <2>3. n # Test
    <3>1. n[1] # "test"
      <4>1. CASE r[1] \in {"cuda", "library", "loader", "context", "stream", "module", "test",
                           "surface", "handle"}
        BY <2>1, <4>1, NeedsOf, SMTT(60)
      <4>2. CASE r[1] \in {"capture", "encoder", "registered", "bitstream", "mapped", "locked"}
        BY <2>1, <4>2, NeedsOf
      <4> QED BY <2>1, <4>1, <4>2, Kinds, Zenon
    <3> QED BY <3>1 DEF Test
  <2> QED BY <1>1, <2>1, <2>2, <2>3, Zenon
<1>5. stage' > Len(Teardown) => Test \notin held'
  <2> SUFFICES ASSUME stage' > Len(Teardown), Test \in held PROVE FALSE
    BY <1>1, Zenon
  <2>1. stage = 19
    BY <1>1, SMTT(60)
  <2>2. Teardown[18] = <<"context", 0>>
    BY TeardownOrder, Zenon
  <2>3. 18 \in 1 .. Len(Teardown) /\ 18 < stage
    BY <1>1, <2>1
  <2>4. Teardown[18] \notin held
    BY <1>2, <2>3, Zenon
  <2>5. Needs(Test) = {<<"context", 0>>}
    BY Zenon DEF Needs, Test
  <2> QED BY <2>2, <2>4, <2>5, Zenon DEF HeldInv, Closed
<1>6. "teardown" \notin {"options", "setup", "files", "exited"} \union InLoop
  BY Zenon DEF InLoop, Loop, Claimed
<1>7. held' \subseteq Resources /\ stage' \in Nat \ {0}
  BY <1>1, SMTT(60) DEF HeldInv
<1> QED BY <1>1, <1>3, <1>4, <1>5, <1>6, <1>7, Zenon DEF HeldInv

\* At the end of the teardown nothing is held.
LEMMA HeldExit ==
  ASSUME HeldInv, Exit
  PROVE  HeldInv'
<1>1. main = "teardown" /\ main' = "exited" /\ stage > Len(Teardown) /\ Len(Teardown) = 19
      /\ stage \in Nat \ {0} /\ UNCHANGED <<held, stage>> /\ Test \notin held
  BY TeardownOrder, Zenon DEF Exit, HeldInv
<1>2. held = {}
  <2> SUFFICES ASSUME NEW r \in held PROVE FALSE
    BY Zenon
  <2>1. r \in Resources /\ r # Test
    BY <1>1, Zenon DEF HeldInv
  <2>2. PICK j \in 1 .. Len(Teardown) : Teardown[j] = r
    BY <2>1, TeardownCovers, Zenon
  <2>3. Teardown[j] \notin held
    BY <1>1, SMTT(60) DEF HeldInv
  <2> QED BY <2>2, <2>3, Zenon
<1>3. "exited" \notin {"options", "setup", "files", "teardown"} \union InLoop
  BY Zenon DEF InLoop, Loop, Claimed
<1> QED BY <1>1, <1>2, <1>3, Zenon DEF HeldInv, Closed

\* While a slot is drained main is in the frame loop.
LEMMA Running ==
  ASSUME FlowInv, drain.step # "none"
  PROVE  main \in InLoop /\ drain.slot \in Slots
<1>1. main = "draining" \/ worker = "draining"
  BY Zenon DEF FlowInv, Threads
<1>2. main \notin Before /\ main \notin After
  BY <1>1, Zenon DEF FlowInv, Threads, Fresh, Before, After
<1> QED BY <1>2, Zenon DEF FlowInv, Threads, ThreadTypes, Places, InLoop, After

\* Then a step of drain_slot leaves main there.
LEMMA HeldDrains ==
  ASSUME FlowInv, HeldInv, DrainThrows \/ NoThrow \/ main' \in {main, "claim"}, drain.step # "none", stage' = stage
  PROVE  main' \in InLoop /\ (held' = held => HeldInv')
<1>1. main \in InLoop
  BY Running, Zenon
<1>2. main' \in {main, "catch", "claim"}
  BY Zenon DEF DrainThrows, NoThrow, Caught
<1>3. main' \in InLoop
  BY <1>1, <1>2, Zenon DEF InLoop, Loop
<1> QED BY <1>1, <1>3, HeldStays, Zenon

\* Every step of drain_slot keeps it.
LEMMA HeldDrainStep ==
  ASSUME FlowInv, HeldInv, DrainStep
  PROVE  HeldInv'
<1>1. drain.step # "none" /\ stage' = stage
  BY Zenon DEF DrainStep, LockBitstream, WriteBitstream, UnlockBitstream, UnmapInput
<1>2. main \in InLoop /\ drain.slot \in Slots
  BY <1>1, Running, Zenon
<1> PICK s : s = drain.slot
  BY Zenon
<1>3. CASE LockBitstream
  <2>1. (DrainThrows /\ held' = held) \/ (NoThrow /\ held' = held \union {<<"locked", s>>})
    BY <1>3, Zenon DEF LockBitstream
  <2>2. main' \in InLoop /\ (held' = held => HeldInv')
    BY <1>1, <2>1, HeldDrains, Zenon
  <2> QED BY <1>1, <1>2, <2>1, <2>2, HeldAdds, Zenon
<1>4. CASE WriteBitstream
  <2>1. (DrainThrows \/ NoThrow) /\ held' = held
    BY <1>4, Zenon DEF WriteBitstream
  <2> QED BY <1>1, <2>1, HeldDrains, Zenon
<1>5. CASE UnlockBitstream
  <2>1. (DrainThrows /\ held' = held) \/ (NoThrow /\ held' = held \ {<<"locked", s>>})
    BY <1>5, Zenon DEF UnlockBitstream
  <2>2. main' \in InLoop /\ (held' = held => HeldInv')
    BY <1>1, <2>1, HeldDrains, Zenon
  <2> QED BY <1>1, <1>2, <2>1, <2>2, HeldDrops, Zenon
<1>6. CASE UnmapInput
  <2>1. (DrainThrows /\ held' = held) \/ (main' \in {main, "claim"} /\ held' = held \ {<<"mapped", s>>})
    BY <1>6, Zenon DEF UnmapInput
  <2>2. main' \in InLoop /\ (held' = held => HeldInv')
    BY <1>1, <2>1, HeldDrains, Zenon
  <2> QED BY <1>1, <1>2, <2>1, <2>2, HeldDrops, Zenon
<1> QED BY <1>3, <1>4, <1>5, <1>6, Zenon DEF DrainStep

\* Every step of main keeps it.
LEMMA HeldMain ==
  ASSUME FlowInv, HeldInv, MainStep
  PROVE  HeldInv'
<1>1. CASE ParseOptions
  <2>1. /\ main = "options" /\ main' \in {"setup", "exited"} /\ held = {} /\ stage = 1
        /\ UNCHANGED <<held, stage>> /\ Len(Stages) = 16
    BY <1>1, StageOrder, Zenon DEF ParseOptions, HeldInv
  <2>2. main' \notin InLoop \union {"files", "options", "teardown"}
    BY <2>1, Zenon DEF InLoop, Loop, Claimed
  <2> QED BY <2>1, <2>2 DEF HeldInv, Closed
<1>2. CASE OpenFiles
  <2>1. (Throw \/ (main = "files" /\ main' = "claim" /\ stage' = stage)) /\ held' = held
    BY <1>2, Zenon DEF OpenFiles
  <2>2. "claim" \in InLoop
    BY Zenon DEF InLoop, Loop
  <2> QED BY <2>1, <2>2, HeldThrows, HeldStays, Zenon
<1>3. CASE ClaimSlot \/ InvalidateReferences \/ CaptureAndConvert \/ EncodePicture \/ HandOver
  <2>1. /\ main \in {"claim", "invalidate", "capture", "encode", "hand_over"}
        /\ main' \in {main, "invalidate", "capture", "map", "hand_over", "claim", "draining", "catch"}
        /\ UNCHANGED <<held, stage>>
    BY <1>3, Zenon
       DEF ClaimSlot, LoopHead, InvalidateReferences, CaptureAndConvert, EncodePicture,
          HandOver,
                Caught
  <2>2. main \in InLoop /\ main' \in InLoop
    BY <2>1, Zenon DEF InLoop, Loop, Claimed
  <2> QED BY <2>1, <2>2, HeldStays, Zenon
<1>4. CASE MapInput
  <2> PICK s : s = Slot
    BY Zenon
  <2>1. /\ main = "map" /\ main' \in {"encode", "catch"} /\ stage' = stage
        /\ held' = held \/ held' = held \union {<<"mapped", s>>}
    BY <1>4, Zenon DEF MapInput, Caught
  <2>2. main \in InLoop /\ main' \in InLoop
    BY <2>1, Zenon DEF InLoop, Loop, Claimed
  <2>3. s \in Slots
    BY DEF FlowInv, QueueTypes, Slot, Slots
  <2> QED BY <2>1, <2>2, <2>3, HeldStays, HeldAdds, Zenon
<1>5. CASE FinishInput
  <2>1. /\ main \in {"catch", "claim"} /\ held' = held
        /\ Throw \/ (main' \in {"rethrow", "join", "eos"} /\ stage' = stage)
    BY <1>5, Zenon DEF FinishInput
  <2>2. main \in InLoop /\ (main' \in {"rethrow", "join", "eos"} => main' \in InLoop)
    BY <2>1, Zenon DEF InLoop, Loop
  <2> QED BY <2>1, <2>2, HeldThrows, HeldStays, Zenon
<1>6. CASE Join
  <2>1. /\ main \in {"join", "rethrow"} /\ held' = held
        /\ Throw \/ (main' = "eos" /\ stage' = stage)
    BY <1>6, Zenon DEF Join
  <2>2. main \in InLoop /\ "eos" \in InLoop
    BY <2>1, Zenon DEF InLoop
  <2> QED BY <2>1, <2>2, HeldThrows, HeldStays, Zenon
<1>7. CASE SendEos
  <2>1. main = "eos" /\ held' = held /\ (Throw \/ (main' = "gates" /\ stage' = stage))
    BY <1>7, Zenon DEF SendEos
  <2>2. "eos" \in InLoop /\ "gates" \in InLoop
    BY Zenon DEF InLoop
  <2> QED BY <2>1, <2>2, HeldThrows, HeldStays, Zenon
<1>8. CASE Gates
  BY <1>8, HeldThrows, Zenon DEF Gates
<1>9. CASE main = "draining" /\ DrainStep
  BY <1>9, HeldDrainStep, Zenon
<1> QED BY <1>1, <1>2, <1>3, <1>4, <1>5, <1>6, <1>7, <1>8, <1>9, HeldAcquire, HeldSelfTest,
           HeldRelease,
           HeldExit, ZenonT(60) DEF MainStep

\* Every step keeps it.
LEMMA HeldNext ==
  ASSUME FlowInv, HeldInv, [Next]_vars
  PROVE  HeldInv'
<1>1. CASE TakePending
  BY <1>1, HeldStays, Zenon DEF TakePending
<1>2. CASE UNCHANGED vars
  BY <1>2, HeldStays, Zenon DEF vars
<1> QED BY <1>1, <1>2, HeldMain, HeldDrainStep, Zenon DEF Next, WorkerStep

-----------------------------------------------------------------------------
(* The theorems.                                                           *)

\* So does a stuttering step, for the frames.
LEMMA FlowStutters ==
  ASSUME FlowInv, UNCHANGED vars
  PROVE  FlowInv'
<1>1. UNCHANGED <<opts, main, worker, drain, frame, content, slot_in_use, pending_slots, input_done,
                  worker_error, out, code>>
  BY Zenon DEF vars
<1>2. Done' = Done /\ Busy' = Busy
  BY <1>1, ZenonT(60) DEF Done, Busy
<1>3. ThreadTypes' /\ QueueTypes' /\ OutTypes' /\ Accepted' /\ Fresh' /\ Threads'
  BY <1>1, SMTT(60)
     DEF FlowInv, ThreadTypes, QueueTypes, OutTypes, Accepted, Fresh, Threads
<1>4. Order' /\ Queue'
  BY <1>1, <1>2, Zenon DEF FlowInv, Order, Queue, Holds, Slot, FrameId
<1>5. Written' /\ Kept' /\ Passed' /\ InvalidateAfterLoss'
  BY <1>1, <1>2, Zenon
     DEF FlowInv, Written, Position, Kept, Going, Passed, Complete, InvalidateAfterLoss
<1> QED BY <1>3, <1>4, <1>5, Zenon DEF FlowInv

\* Every step keeps the invariant of the frames.
LEMMA FlowNext ==
  ASSUME FlowInv, [Next]_vars
  PROVE  FlowInv'
<1>1. CASE DrainStep
  BY <1>1, FlowLockBitstream, FlowWriteBitstream, FlowUnlockBitstream, FlowUnmapInput, Zenon
     DEF DrainStep
<1>2. CASE MainStep
  BY <1>1, <1>2, FlowParseOptions, FlowAcquire, FlowSelfTestConversion, FlowOpenFiles,
     FlowClaimSlot,
     FlowInvalidateReferences, FlowCaptureAndConvert, FlowMapInput, FlowEncodePicture, FlowHandOver,
     FlowFinishInput, FlowJoin, FlowSendEos, FlowGates, FlowRelease, FlowExit, ZenonT(60) DEF MainStep
<1> QED BY <1>1, <1>2, FlowTakePending, FlowStutters, Zenon DEF Next, WorkerStep

\* Both invariants hold at the start.
LEMMA VideoStarts ==
  ASSUME SomeOptions, Init
  PROVE  FlowInv /\ HeldInv
<1>1. /\ opts \in CommandLines /\ main = "options" /\ worker = "none" /\ frame = 0
      /\ drain = [slot |-> None, step |-> "none"] /\ held = {} /\ stage = 1
      /\ content = [s \in Slots |-> 0] /\ slot_in_use = [s \in Slots |-> FALSE]
      /\ pending_slots = <<>> /\ input_done = FALSE /\ worker_error = FALSE /\ code = -1
      /\ out = [written |-> <<>>, reference |-> <<>>, dropped |-> 0, invalidated |-> FALSE,
                forced |-> FALSE]
  BY Zenon DEF Init, SomeOptions, Idle
<1>2. ThreadTypes /\ QueueTypes /\ OutTypes
  <2>1. ThreadTypes
    BY <1>1, Zenon DEF ThreadTypes, Places, Before
  <2>2. QueueTypes
    <3>1. content \in [Slots -> Nat] /\ slot_in_use \in [Slots -> BOOLEAN]
      BY <1>1, Zenon
    <3>2. pending_slots \in Seq(Slots) /\ frame \in Nat
      BY <1>1
    <3>3. input_done \in BOOLEAN /\ worker_error \in BOOLEAN
      BY <1>1, ZenonT(60)
    <3> QED BY <3>1, <3>2, <3>3, Zenon DEF QueueTypes
  <2>3. OutTypes
    BY <1>1 DEF OutTypes
  <2> QED BY <2>1, <2>2, <2>3, Zenon
<1>3. /\ main \in Before
      /\ main \notin Loop \union {"join", "rethrow", "eos", "gates"} \union After
  BY <1>1, Zenon DEF Before, Loop, Claimed, After
<1>4. /\ Done = 0 /\ Busy = 0 /\ Len(pending_slots) = 0 /\ Len(out.written) = 0
      /\ opts.loss \in Nat
  BY <1>1 DEF Done, Busy, CommandLines
<1>5. Accepted /\ Fresh /\ Threads
  BY <1>1, <1>3, ZenonT(60) DEF Accepted, Fresh, Threads, Loop, Claimed, After
<1>6. Order /\ Queue
  BY <1>1, <1>3, <1>4, SMTT(60) DEF Order, Queue, Loop, Claimed
<1>7. Written
  BY <1>1, <1>4 DEF Written
<1>8. Kept /\ Passed /\ InvalidateAfterLoss
  BY <1>1, <1>3, ZenonT(60) DEF Kept, Going, Passed, InvalidateAfterLoss
<1>9. HeldInv
  <2>1. main \notin InLoop \union {"setup", "files", "teardown", "exited"}
    BY <1>1, Zenon DEF InLoop, Loop, Claimed
  <2>2. held \subseteq Resources /\ Closed(held) /\ Test \notin held
    BY <1>1, Zenon DEF Closed
  <2>3. stage \in Nat \ {0}
    BY <1>1
  <2> QED BY <1>1, <2>1, <2>2, <2>3, Zenon DEF HeldInv
<1> QED BY <1>2, <1>5, <1>6, <1>7, <1>8, <1>9, Zenon DEF FlowInv

\* A run with status 0 wrote what it should.
LEMMA FlowCompletes ==
  ASSUME FlowInv
  PROVE  PassIsComplete
<1> SUFFICES ASSUME main = "exited", code = 0, ~opts.self_test
             PROVE  /\ out.written = AllButTheLoss
                    /\ opts.reference = "given" => out.reference = AllFrames
                    /\ Recovering(opts) => out.invalidated
                    /\ opts.idr # 0 => out.forced
  BY Zenon DEF PassIsComplete
<1>1. /\ Complete /\ Written /\ out.written \in Seq(Nat)
      /\ out.reference \in Seq(Nat) /\ out.dropped \in Nat
  BY Zenon DEF FlowInv, Passed, OutTypes
<1> PICK f, l, n : f = opts.frames /\ l = opts.loss /\ n = Len(out.written)
  BY ZenonT(60)
<1>2. f \in Nat /\ l \in Nat /\ n \in Nat /\ l <= f
  BY <1>1, SMTT(60) DEF FlowInv, ThreadTypes, CommandLines, Complete
<1>3. n + out.dropped = f /\ out.dropped = (IF l # 0 /\ l <= f THEN 1 ELSE 0)
  BY <1>1, Zenon DEF Complete, Done, Written
<1>4. n = IF l = 0 THEN f ELSE f - 1
  <2>1. CASE l = 0
    BY <1>2, <1>3, <2>1
  <2>2. CASE l # 0
    <3>1. out.dropped = 1
      BY <1>2, <1>3, <2>2, Zenon
    <3> QED BY <1>2, <1>3, <2>2, <3>1
  <2> QED BY <2>1, <2>2, Zenon
<1>5. out.written = AllButTheLoss
  <2>1. \A k \in 1 .. n : out.written[k] = IF l # 0 /\ k >= l THEN k + 1 ELSE k
    BY <1>1, Zenon DEF Written, Position
  <2>2. out.written = [k \in 1 .. n |-> IF l # 0 /\ k >= l THEN k + 1 ELSE k]
    <3> PICK w : w = out.written
      BY Zenon
    <3>1. w \in [1 .. n -> Nat]
      BY <1>1
    <3> QED BY <2>1, <3>1, Zenon
  <2> QED BY <1>4, <2>2, Zenon DEF AllButTheLoss
<1>6. ASSUME opts.reference = "given" PROVE out.reference = AllFrames
  <2>1. Len(out.reference) = f /\ \A k \in 1 .. f : out.reference[k] = k
    BY <1>1, <1>6, Zenon DEF Complete
  <2> PICK w : w = out.reference
    BY Zenon
  <2>2. w \in [1 .. f -> Nat]
    BY <1>1, <2>1
  <2> QED BY <2>1, <2>2, Zenon DEF AllFrames
<1> QED BY <1>1, <1>5, <1>6, Zenon DEF Complete

\* plank-probe-video-pipeline, for every command line: a run that exits 0 wrote
\* every frame in capture order but the simulated loss, and carried out the
\* recovery it was asked for; neither a reuse of a slot under the worker nor a
\* failure of either thread goes unnoticed.
THEOREM EncoderPassIsComplete == SomeOptions => (Spec => []PassIsComplete)
<1> SUFFICES ASSUME SomeOptions PROVE Spec => []PassIsComplete
  BY Zenon
<1>1. Init => FlowInv
  BY VideoStarts, Zenon
<1>2. FlowInv /\ [Next]_vars => FlowInv'
  BY FlowNext, Zenon
<1>3. FlowInv => PassIsComplete
  BY FlowCompletes, Zenon
<1> QED BY <1>1, <1>2, <1>3, PTL DEF Spec

\* For every command line the check of --invalidate-delay-frames lets through,
\* references are invalidated only after the lost frame came out of the encoder,
\* in the threaded run too.
THEOREM InvalidationIsLate == SomeOptions => (Spec => []InvalidateAfterLoss)
<1> SUFFICES ASSUME SomeOptions PROVE Spec => []InvalidateAfterLoss
  BY Zenon
<1>1. Init => FlowInv
  BY VideoStarts, Zenon
<1>2. FlowInv /\ [Next]_vars => FlowInv'
  BY FlowNext, Zenon
<1>3. FlowInv => InvalidateAfterLoss
  BY Zenon DEF FlowInv
<1> QED BY <1>1, <1>2, <1>3, PTL DEF Spec

\* From a failure of any call in either thread, no resource outlives one it was
\* made from, and nothing is held when main returns.
THEOREM EncoderReleasesAll == SomeOptions => (Spec => []NothingOutlivesItsOwner)
<1> SUFFICES ASSUME SomeOptions PROVE Spec => []NothingOutlivesItsOwner
  BY Zenon
<1>1. Init => FlowInv /\ HeldInv
  BY VideoStarts, Zenon
<1>2. FlowInv /\ HeldInv /\ [Next]_vars => FlowInv' /\ HeldInv'
  BY FlowNext, HeldNext, Zenon
<1>3. HeldInv => NothingOutlivesItsOwner
  BY Zenon DEF HeldInv, Closed, NothingOutlivesItsOwner
<1> QED BY <1>1, <1>2, <1>3, PTL DEF Spec

=============================================================================
