----------------------------- MODULE NativeReceive -----------------------------
(***************************************************************************)
(* One receive lane of a native endpoint (native_ffi.rs): the lane task    *)
(* that queues what arrives, and the receive call of the C ABI, which      *)
(* waits for the front of the queue, copies it without the lock and only   *)
(* then removes it.  Items are numbered in the order of their arrival.     *)
(***************************************************************************)
EXTENDS NativeShared

CONSTANTS
  Lanes,         \* the kinds of lane under consideration
  Capacity,      \* *_RECEIVE_CAPACITY
  MaxArrivals    \* bound on the items that arrive

ASSUME LaneAssumption ==
  /\ Lanes \subseteq {"media", "input", "data"}   \* media: video and audio
  /\ Capacity \in Nat \ {0}
  /\ MaxArrivals \in Nat

VARIABLES
  lane,       \* which lane this is; it never changes
  queue,      \* the lane's VecDeque
  arrived,    \* history: how many items arrived
  drops,      \* *_receive_drops
  receiver,   \* where the receive call is, and the item it has cloned
  delivered,  \* history: the items the receive calls handed out
  outcome     \* what the last receive call returned

laneVars == <<lane, queue, arrived, drops, receiver, delivered, outcome>>

Points == {"idle", "look", "park", "wait", "none", "copy"}
Outcomes == {"-", "OK", "TIMEOUT", "RUNTIME", "TOO_SMALL"}

ReceiveInit ==
  /\ lane \in Lanes
  /\ queue = <<>> /\ arrived = 0 /\ drops = 0
  /\ receiver = [at |-> "idle", item |-> 0]
  /\ delivered = <<>> /\ outcome = "-"

\* Media may lose its oldest item; input and data may not lose any.
Replaceable == lane = "media"

\* The lane's task is polled: the data lane also before the session is ready.
LaneRuns == phase = "ready" \/ (phase = Wait["session"] /\ lane = "data")

\* wait_pop holds the queue lock from its look at the queue until it waits.
Locked == receiver.at = "park"

\* push_video_receive and push_audio_receive drop the oldest item when full.
Evicted(q) == IF Len(q) = Capacity THEN Tail(q) ELSE q

NotifyOne == parked' = IF parked = "parked" THEN "woken" ELSE parked

Dropped_bug(q) == 0

Dropped(q) == IF Len(q) = Capacity THEN 1 ELSE 0

ArrivalPossible == LaneRuns /\ ~Locked /\ arrived < MaxArrivals

\* receive_video and receive_audio with one item.
ArriveMedia ==
  /\ ArrivalPossible /\ Replaceable
  /\ queue' = Append(Evicted(queue), arrived + 1)
  /\ arrived' = arrived + 1
  /\ drops' = drops + Dropped(queue)
  /\ NotifyOne
  /\ UNCHANGED <<config, lane, state, stop, phase, owner, receiver, delivered, outcome>>

\* receive_input and receive_data with one item: a lane that is full ends, and
\* its connection with it.
ArriveReliable ==
  /\ ArrivalPossible /\ ~Replaceable /\ Len(queue) < Capacity
  /\ queue' = Append(queue, arrived + 1)
  /\ arrived' = arrived + 1
  /\ NotifyOne
  /\ UNCHANGED <<config, lane, state, stop, phase, owner, drops, receiver, delivered, outcome>>

LaneExhausted ==
  /\ LaneRuns /\ ~Locked /\ ~Replaceable /\ Len(queue) = Capacity
  /\ phase' = AfterHold
  /\ UNCHANGED <<config, lane, state, stop, owner, parked, queue, arrived, drops,
                 receiver, delivered, outcome>>

-----------------------------------------------------------------------------
\* A receive call begins.
Call ==
  /\ receiver.at = "idle"
  /\ receiver' = [receiver EXCEPT !.at = "look"]
  /\ outcome' = "-"
  /\ UNCHANGED <<config, lane, state, stop, phase, owner, parked, queue, arrived, drops, delivered>>

\* wait_pop: the front of the queue; nothing, for good or because the timeout is
\* over; or the wait.
Look ==
  /\ receiver.at = "look"
  /\ \/ /\ queue # <<>>
        /\ receiver' = [at |-> "copy", item |-> Head(queue)]
     \/ /\ queue = <<>>
        /\ receiver' = [receiver EXCEPT !.at = "none"]
     \/ /\ queue = <<>> /\ ~stop /\ state \notin {"Failed", "Stopped"}
        /\ receiver' = [receiver EXCEPT !.at = "park"]
  /\ UNCHANGED <<config, lane, state, stop, phase, owner, parked, queue, arrived, drops, delivered, outcome>>

\* The wait releases the lock.
Park ==
  /\ receiver.at = "park"
  /\ receiver' = [receiver EXCEPT !.at = "wait"]
  /\ parked' = "parked"
  /\ UNCHANGED <<config, lane, state, stop, phase, owner, queue, arrived, drops, delivered, outcome>>

\* Notified: look again.  Timed out: return without another look.
Wake ==
  /\ receiver.at = "wait"
  /\ \/ parked = "woken" /\ receiver' = [receiver EXCEPT !.at = "look"]
     \/ parked = "parked" /\ receiver' = [receiver EXCEPT !.at = "none"]
  /\ parked' = "no"
  /\ UNCHANGED <<config, lane, state, stop, phase, owner, queue, arrived, drops, delivered, outcome>>

\* The call found nothing, and reads the state to say why.
Report ==
  /\ receiver.at = "none"
  /\ receiver' = [at |-> "idle", item |-> 0]
  /\ outcome' = IF state = "Failed" THEN "RUNTIME" ELSE "TIMEOUT"
  /\ UNCHANGED <<config, lane, state, stop, phase, owner, parked, queue, arrived, drops, delivered>>

Removed_bug(q) == q

\* pop_front under a second acquisition of the lock.
Removed(q) == IF q = <<>> THEN q ELSE Tail(q)

\* copy_bytes_out refuses a buffer that is too small and leaves the queue.
Refuse ==
  /\ receiver.at = "copy"
  /\ receiver' = [at |-> "idle", item |-> 0]
  /\ outcome' = "TOO_SMALL"
  /\ UNCHANGED <<config, lane, state, stop, phase, owner, parked, queue, arrived, drops, delivered>>

Deliver ==
  /\ receiver.at = "copy"
  /\ receiver' = [at |-> "idle", item |-> 0]
  /\ outcome' = "OK"
  /\ delivered' = Append(delivered, receiver.item)
  /\ queue' = Removed(queue)
  /\ UNCHANGED <<config, lane, state, stop, phase, owner, parked, arrived, drops>>
==============================================================================
