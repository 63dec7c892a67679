------------------------------ MODULE AudioRing ------------------------------
(***************************************************************************)
(* media/audio-tap-buffer.h, with its two users in media/audio-tap.m: the  *)
(* audio system's thread in receive, and the session queue in drain.  Each *)
(* access to a shared word is a step.  A block is a header (frames and     *)
(* hostTime) and samples, written and read one after the other; its value  *)
(* is the number of the callback that brought it.                          *)
(***************************************************************************)
EXTENDS RingState

CONSTANTS Slots,       \* PLANKTapSlots (16)
          Modulus,     \* number of values of an index (2^32)
          MaxBlocks    \* bound: callbacks of the audio system

VARIABLES
  readIndex, writeIndex, failed, overruns, stopped, blocks,   \* PLANKTapBuffer
  hal, callback, write, read,       \* the producer and its locals
  ready,                            \* data merged into the dispatch source
  handled, target,                  \* the consumer's locals
  failureReported,
  rejected                          \* last block refused for want of room

buffer == <<readIndex, writeIndex, failed, overruns, stopped, blocks>>
producer == <<hal, callback, write, read, rejected>>
consumer == <<tapOwner, handled, target, block, failureReported, encoded, noticed>>
vars == <<buffer, producer, consumer, ready>>

Empty == [header |-> 0, samples |-> 0]

Init ==
  /\ readIndex = 0 /\ writeIndex = 0 /\ failed = FALSE /\ overruns = 0 /\ stopped = FALSE
  /\ blocks = [s \in 0 .. Slots - 1 |-> Empty]
  /\ hal = "idle" /\ callback = 0 /\ write = 0 /\ read = 0 /\ ready = FALSE
  /\ tapOwner = "idle" /\ handled = 0 /\ target = 0 /\ block = Empty /\ failureReported = FALSE
  /\ encoded = <<>> /\ rejected = 0 /\ noticed = 0

-----------------------------------------------------------------------------
(* The producer: receive and PLANKTapPush.                                 *)

\* A callback comes: nothing once stopped, a failure if it is malformed.
Receive ==
  /\ hal = "idle" /\ callback < MaxBlocks
  /\ callback' = callback + 1
  /\ \/ stopped /\ UNCHANGED <<hal, failed>>
     \/ ~stopped /\ hal' = "push" /\ UNCHANGED failed
     \/ ~stopped /\ hal' = "merge" /\ failed' = TRUE
  /\ UNCHANGED <<readIndex, writeIndex, overruns, stopped, blocks, write, read, rejected,
                 consumer, ready>>

\* Push looks at stopped again, loads the indexes and checks its arguments.
Load ==
  /\ hal = "push"
  /\ \/ stopped /\ hal' = "merge" /\ UNCHANGED <<write, read, failed>>
     \/ /\ ~stopped
        /\ write' = writeIndex /\ read' = readIndex
        /\ \/ hal' = "room" /\ UNCHANGED failed
           \/ hal' = "merge" /\ failed' = TRUE
  /\ UNCHANGED <<readIndex, writeIndex, overruns, stopped, blocks, callback, rejected,
                 consumer, ready>>

\* Mutant: the ring is full one block later.
FullLate == (write - read) % Modulus > Slots

\* All slots hold blocks, by the indexes the producer loaded.
Full == (write - read) % Modulus >= Slots

Room ==
  /\ hal = "room"
  /\ \/ /\ Full
        /\ overruns' = overruns + 1 /\ rejected' = callback /\ hal' = "merge"
     \/ ~Full /\ hal' = "header" /\ UNCHANGED <<overruns, rejected>>
  /\ UNCHANGED <<readIndex, writeIndex, failed, stopped, blocks, callback, write, read,
                 consumer, ready>>

FillHeader ==
  /\ hal = "header" /\ hal' = "samples"
  /\ blocks' = [blocks EXCEPT ![write % Slots].header = callback]
  /\ UNCHANGED <<readIndex, writeIndex, failed, overruns, stopped, callback, write, read,
                 rejected, consumer, ready>>

\* The samples; one that is not finite fails the tap.
FillSamples ==
  /\ hal = "samples"
  /\ blocks' = [blocks EXCEPT ![write % Slots].samples = callback]
  /\ \/ hal' = "publish" /\ UNCHANGED failed
     \/ hal' = "merge" /\ failed' = TRUE
  /\ UNCHANGED <<readIndex, writeIndex, overruns, stopped, callback, write, read, rejected,
                 consumer, ready>>

Publish ==
  /\ hal = "publish" /\ hal' = "merge"
  /\ writeIndex' = (write + 1) % Modulus
  /\ UNCHANGED <<readIndex, failed, overruns, stopped, blocks, callback, write, read,
                 rejected, consumer, ready>>

\* Mutant: the session queue is told of published blocks only.
MergePublished ==
  /\ hal = "merge" /\ hal' = "idle"
  /\ ready' = (ready \/ writeIndex = (write + 1) % Modulus)
  /\ UNCHANGED <<buffer, callback, write, read, rejected, consumer>>

\* dispatch_source_merge_data, whatever Push returned.
Merge ==
  /\ hal = "merge" /\ hal' = "idle" /\ ready' = TRUE
  /\ UNCHANGED <<buffer, callback, write, read, rejected, consumer>>

-----------------------------------------------------------------------------
(* The consumer: drain, on the session queue.                              *)

Drain ==
  /\ tapOwner = "idle" /\ ready /\ ready' = FALSE
  /\ \/ (stopped \/ failureReported) /\ UNCHANGED <<tapOwner, failureReported, handled>>
     \/ /\ ~stopped /\ ~failureReported /\ failed
        /\ failureReported' = TRUE /\ UNCHANGED <<tapOwner, handled>>
     \/ /\ ~stopped /\ ~failureReported /\ ~failed
        /\ tapOwner' = "exchange" /\ handled' = 0 /\ UNCHANGED failureReported
  /\ UNCHANGED <<buffer, producer, target, block, encoded, noticed>>

\* PLANKTapDiscardOverrun: take the count, and after an overrun drop all
\* that is published.
Exchange ==
  /\ tapOwner = "exchange"
  /\ overruns' = 0 /\ noticed' = rejected
  /\ tapOwner' = IF overruns > 0 THEN "discard" ELSE "peek"
  /\ UNCHANGED <<readIndex, writeIndex, failed, stopped, blocks, producer, ready, handled,
                 target, block, failureReported, encoded>>

\* Mutant: only the oldest block is dropped.
OneBlock == (readIndex + 1) % Modulus

\* The new read index: everything published is dropped.
Backlog == writeIndex

LoadBacklog ==
  /\ tapOwner = "discard" /\ tapOwner' = "skip" /\ target' = Backlog
  /\ UNCHANGED <<buffer, producer, ready, handled, block, failureReported, encoded, noticed>>

SkipBacklog ==
  /\ tapOwner = "skip" /\ tapOwner' = "peek" /\ readIndex' = target
  /\ UNCHANGED <<writeIndex, failed, overruns, stopped, blocks, producer, ready, handled,
                 target, block, failureReported, encoded, noticed>>

\* PLANKTapPeek.
Peek ==
  /\ tapOwner = "peek"
  /\ tapOwner' = IF readIndex = writeIndex THEN "tail" ELSE "header"
  /\ UNCHANGED <<buffer, producer, ready, handled, target, block, failureReported, encoded,
                 noticed>>

ReadHeader ==
  /\ tapOwner = "header" /\ tapOwner' = "samples"
  /\ block' = [block EXCEPT !.header = blocks[readIndex % Slots].header]
  /\ UNCHANGED <<buffer, producer, ready, handled, target, failureReported, encoded, noticed>>

\* The samples are scaled and copied; the encoder takes them or refuses, and
\* its callback may stop the tap.
ReadSamples ==
  /\ tapOwner = "samples"
  /\ block' = [block EXCEPT !.samples = blocks[readIndex % Slots].samples]
  /\ \/ /\ encoded' = Append(encoded, block') /\ tapOwner' = "pop"
        /\ stopped' \in {stopped, TRUE}
     \/ tapOwner' = "refused" /\ UNCHANGED <<encoded, stopped>>
  /\ UNCHANGED <<readIndex, writeIndex, failed, overruns, blocks, producer, ready, handled,
                 target, failureReported, noticed>>

\* PLANKTapPop, then the next block, at most Slots of them in one turn.
Pop ==
  /\ tapOwner \in {"pop", "refused"}
  /\ readIndex' = (readIndex + 1) % Modulus
  /\ handled' = handled + 1
  /\ failureReported' = (tapOwner = "refused")
  /\ tapOwner' = CASE tapOwner = "refused" -> "idle"
                [] tapOwner = "pop" /\ ~stopped /\ handled' < Slots -> "exchange"
                [] OTHER -> "tail"
  /\ UNCHANGED <<writeIndex, failed, overruns, stopped, blocks, producer, ready, target,
                 block, encoded, noticed>>

\* A turn that leaves blocks asks for another one.
TurnEnds ==
  /\ tapOwner = "tail" /\ tapOwner' = "idle"
  /\ ready' = (ready \/ (~stopped /\ readIndex # writeIndex))
  /\ UNCHANGED <<buffer, producer, handled, target, block, failureReported, encoded, noticed>>

\* stopWithCompletion, on the same queue.
StopTap ==
  /\ tapOwner = "idle" /\ ~stopped /\ stopped' = TRUE
  /\ UNCHANGED <<readIndex, writeIndex, failed, overruns, blocks, producer, consumer, ready>>

-----------------------------------------------------------------------------

ProducerStep == Load \/ Room \/ FillHeader \/ FillSamples \/ Publish \/ Merge
ConsumerStep == Drain \/ Exchange \/ LoadBacklog \/ SkipBacklog \/ Peek \/ ReadHeader
                \/ ReadSamples \/ Pop \/ TurnEnds

Next == Receive \/ ProducerStep \/ ConsumerStep \/ StopTap

\* A callback runs to its end, and the session queue runs what is ready.
Spec == Init /\ [][Next]_vars /\ WF_vars(ProducerStep) /\ WF_vars(ConsumerStep)

-----------------------------------------------------------------------------
(* Properties.                                                             *)

\* No block stays in the ring and no failure unreported without a turn to
\* come, unless the tap is stopped.
RingSettles ==
  <>[](stopped \/ failureReported \/ (readIndex = writeIndex /\ ~failed))

=============================================================================
