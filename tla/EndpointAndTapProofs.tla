------------------------- MODULE EndpointAndTapProofs -------------------------
(***************************************************************************)
(* The two queues between threads: a native endpoint with its lanes        *)
(* (module NativeEndpoint) and the audio tap's ring (module AudioRing, as  *)
(* Tap).                                                                   *)
(*                                                                         *)
(* For the endpoint, for every set of configurations and lanes, every      *)
(* capacity and every number of arrivals: the gates, the end of a stop,    *)
(* and the account of a lane.                                              *)
(*                                                                         *)
(* The ring delivers whole blocks in order, and nothing older than an      *)
(* overrun it has noticed, for every number of slots and every width of    *)
(* the indexes that the slots divide.  The indexes wrap, so the proof      *)
(* counts: R blocks were taken or dropped, W were published, the producer  *)
(* last saw P taken, and a discard aims at T.  The code's indexes are      *)
(* these counts modulo Modulus, and since Slots divides Modulus a count n  *)
(* has its block in the slot n % Slots, whatever was wrapped in between.   *)
(***************************************************************************)
EXTENDS NativeEndpoint, RingState, Integers, TLAPS

-----------------------------------------------------------------------------
(* The gates.                                                              *)

\* What the worker has passed: beyond the certificate's gate the certificate
\* is approved, beyond the session's gate the session is authorized.
PastCertificate ==
  phase \in {"session load", "session arm", "session wait", "promoting", "ready"}
PastSession == phase \in {"promoting", "ready"}

\* Gated is not inductive: state and arrived follow from where the worker is.
GateInv ==
  /\ granted \in [Gates -> BOOLEAN]
  /\ PastCertificate /\ ApprovalRequired => granted["certificate"]
  /\ PastSession /\ config.setup => granted["session"]
  /\ arrived \in Nat
  /\ Gated

\* A step that leaves the configuration, the flags, the published state and the
\* arrivals alone, and takes the worker past no gate, keeps the invariant.
LEMMA GateKept ==
  ASSUME GateInv,
         UNCHANGED <<config, granted, arrived>>,
         PastCertificate' => PastCertificate,
         PastSession' => PastSession,
         state' = "Ready" => state = "Ready"
  PROVE  GateInv'
BY Zenon DEF GateInv, Gated, ApprovalRequired

\* Every step of the endpoint keeps the invariant of the gates.
LEMMA GateStep == GateInv /\ [Next]_vars => GateInv'
<1> SUFFICES ASSUME GateInv, [Next]_vars PROVE GateInv'
  BY Zenon
<1> USE DEF Gates, Load, Arm, Wait
<1>1. CASE WorkerStep
  <2>0. UNCHANGED <<lane, queue, arrived, drops, receiver, delivered, outcome>>
    BY <1>1, Zenon DEF WorkerStep, laneVars
  <2>1. CASE Connect
    <3>0. UNCHANGED <<config, granted>>
      BY <2>1, Zenon DEF Connect
    <3>1. CASE Enter(FirstHold)
      BY <2>0, <3>0, <3>1, Zenon
         DEF Enter, FirstHold, Published, GateInv, Gated, PastCertificate,
         PastSession, ApprovalRequired
    <3>2. CASE phase' \in {"ended", "failing"} /\ UNCHANGED state
      BY <2>0, <3>0, <3>2, GateKept, Zenon DEF PastCertificate, PastSession
    <3> QED BY <2>1, <3>1, <3>2, Zenon DEF Connect
  <2>2. CASE GateLoad("certificate")
    <3>0. UNCHANGED <<config, granted>> /\ phase = "certificate load"
      BY <2>2, Zenon DEF GateLoad
    <3>1. CASE Open("certificate") /\ Enter(NextHold("certificate"))
      BY <2>0, <3>0, <3>1, Zenon
         DEF Enter, Open, NextHold, Published, GateInv, Gated,
         PastCertificate, PastSession, ApprovalRequired
    <3>2. CASE phase' = "certificate arm" /\ UNCHANGED state
      BY <2>0, <3>0, <3>2, GateKept, Zenon DEF PastCertificate, PastSession
    <3> QED BY <2>2, <3>1, <3>2, Zenon DEF GateLoad
  <2>3. CASE GateLoad("session")
    <3>0. UNCHANGED <<config, granted>> /\ phase = "session load"
      BY <2>3, Zenon DEF GateLoad
    <3>1. CASE Open("session") /\ Enter(NextHold("session"))
      BY <2>0, <3>0, <3>1, Zenon
         DEF Enter, Open, NextHold, Published, GateInv, Gated,
         PastCertificate, PastSession, ApprovalRequired
    <3>2. CASE phase' = "session arm" /\ UNCHANGED state
      BY <2>0, <3>0, <3>2, GateKept, Zenon DEF PastCertificate, PastSession
    <3> QED BY <2>3, <3>1, <3>2, Zenon DEF GateLoad
  <2>4. CASE \/ GateArm("certificate") \/ GateWoken("certificate")
             \/ GateArm("session") \/ GateWoken("session")
    BY <2>0, <2>4, GateKept, Zenon
       DEF GateArm, GateWoken, PastCertificate, PastSession
  <2>5. CASE StopSeen \/ ConnectionLost
    BY <2>0, <2>5, GateKept, Zenon
       DEF StopSeen, ConnectionLost, AfterHold, PastCertificate, PastSession
  <2>6. CASE Promote
    <3>0. UNCHANGED <<config, granted>> /\ phase = "promoting"
      BY <2>6, Zenon DEF Promote
    <3>1. CASE Enter("ready")
      BY <2>0, <3>0, <3>1, Zenon
         DEF Enter, Published, GateInv, Gated, PastCertificate, PastSession,
         ApprovalRequired
    <3>2. CASE phase' = AfterHold /\ UNCHANGED state
      BY <2>0, <3>0, <3>2, GateKept, Zenon DEF AfterHold, PastCertificate, PastSession
    <3> QED BY <2>6, <3>1, <3>2, Zenon DEF Promote
  <2>7. CASE Drain \/ FinishWorker \/ Fail
    BY <2>0, <2>7, GateKept, Zenon
       DEF Drain, FinishWorker, Fail, PastCertificate, PastSession
  <2> QED BY <1>1, <2>1, <2>2, <2>3, <2>4, <2>5, <2>6, <2>7, Zenon DEF WorkerStep
<1>2. CASE OwnerStep
  <2>0. UNCHANGED <<lane, queue, arrived, drops, receiver, delivered, outcome>>
    BY <1>2, Zenon DEF OwnerStep, laneVars
  <2>1. CASE Start
    BY <2>0, <2>1, GateKept, Zenon DEF Start, PastCertificate, PastSession
  <2>2. CASE ApprovePeerCertificate
    BY <2>0, <2>2, Zenon
       DEF ApprovePeerCertificate, GateInv, Gated, PastCertificate, PastSession,
       ApprovalRequired
  <2>3. CASE AuthorizeSession
    BY <2>0, <2>3, Zenon
       DEF AuthorizeSession, GateInv, Gated, PastCertificate, PastSession,
       ApprovalRequired
  <2>4. CASE StopRead \/ StopMark \/ StopFlag \/ StopJoin
    BY <2>0, <2>4, GateKept, Zenon
       DEF StopRead, StopMark, StopFlag, StopJoin, PastCertificate,
       PastSession
  <2> QED BY <1>2, <2>1, <2>2, <2>3, <2>4, Zenon DEF OwnerStep
<1>3. CASE ReceiveStep
  <2>0. UNCHANGED <<granted, permit, heard>>
    BY <1>3, Zenon DEF ReceiveStep
  <2>1. CASE ArriveMedia \/ ArriveReliable
    <3>1. UNCHANGED <<config, state, phase, granted>> /\ PastCertificate
      BY <2>0, <2>1, Zenon
         DEF ArriveMedia, ArriveReliable, ArrivalPossible, LaneRuns, PastCertificate
    <3>2. arrived' \in Nat
      BY <2>1 DEF ArriveMedia, ArriveReliable, GateInv
    <3>3. Gated'
      BY <3>1, Zenon DEF GateInv, Gated, ApprovalRequired
    <3> QED BY <3>1, <3>2, <3>3, Zenon
            DEF GateInv, PastCertificate, PastSession, ApprovalRequired
  <2>2. CASE LaneExhausted
    BY <2>0, <2>2, GateKept, Zenon
       DEF LaneExhausted, AfterHold, PastCertificate, PastSession
  <2>3. CASE Call \/ Look \/ Park \/ Wake \/ Report \/ Refuse \/ Deliver
    BY <2>0, <2>3, GateKept, Zenon
       DEF Call, Look, Park, Wake, Report, Refuse, Deliver,
       PastCertificate, PastSession
  <2> QED BY <1>3, <2>1, <2>2, <2>3, Zenon DEF ReceiveStep
<1>4. CASE UNCHANGED vars
  BY <1>4, GateKept, Zenon DEF vars, PastCertificate, PastSession
<1> QED BY <1>1, <1>2, <1>3, <1>4, Zenon DEF Next

\* No application queue is active before the certificate is approved, and READY
\* is not published before the session is authorized, in every endpoint.
THEOREM GatesHold == Spec => []Gated
<1>1. Init => GateInv
  BY DEF Init, WorkerInit, ReceiveInit, GateInv, Gated, PastCertificate, PastSession, Gates
<1>2. GateInv => Gated
  BY Zenon DEF GateInv
<1> QED BY <1>1, <1>2, GateStep, PTL DEF Spec

-----------------------------------------------------------------------------
(* The end of a stop.                                                      *)

\* Once stop has returned there is no worker and the state is final.
StopInv ==
  owner = "returned" => phase \in {"none", "done"} /\ state \in {"Stopped", "Failed"}

\* What a returned stop leaves is left by every step, whatever the receiver or
\* a second stop call does.
LEMMA StopStep ==
  StopInv /\ [Next]_vars =>
    StopInv' /\ (owner = "returned" => UNCHANGED <<state, phase, arrived>>)
<1> DEFINE Quiet == owner = "returned" => UNCHANGED <<state, phase, arrived>>
<1> SUFFICES ASSUME StopInv, [Next]_vars PROVE StopInv' /\ Quiet
  BY Zenon
<1> USE DEF Gates, Load, Arm, Wait
<1>1. CASE WorkerStep
  <2>1. UNCHANGED <<owner, arrived>>
    BY <1>1, Zenon
       DEF WorkerStep, laneVars, Connect, GateLoad, GateArm, GateWoken, StopSeen,
       ConnectionLost, Promote, Drain, FinishWorker, Fail
  <2>2. phase \notin {"none", "done"}
    <3>1. CASE \/ GateLoad("certificate") \/ GateArm("certificate") \/ GateWoken("certificate")
               \/ GateLoad("session") \/ GateArm("session") \/ GateWoken("session")
      BY <3>1, Zenon DEF GateLoad, GateArm, GateWoken
    <3>2. CASE StopSeen \/ ConnectionLost
      <4>1. ASSUME NEW g \in Gates PROVE Wait[g] \notin {"none", "done"}
        <5>1. CASE g = "certificate"
          BY <5>1, Zenon
        <5>2. CASE g = "session"
          BY <5>2, Zenon
        <5> QED BY <5>1, <5>2, Zenon
      <4>2. phase \in Holding
        BY <3>2, Zenon DEF StopSeen, ConnectionLost
      <4>3. phase = "ready" \/ \E g \in Gates : phase = Wait[g]
        BY <4>2, Zenon DEF Holding
      <4> QED BY <4>1, <4>3, Zenon
    <3>3. CASE Connect \/ Promote \/ Drain \/ FinishWorker \/ Fail
      BY <3>3, Zenon DEF Connect, Promote, Drain, FinishWorker, Fail
    <3> QED BY <1>1, <3>1, <3>2, <3>3, Zenon DEF WorkerStep
  <2> QED BY <2>1, <2>2, Zenon DEF StopInv
<1>2. CASE OwnerStep
  <2>0. UNCHANGED arrived
    BY <1>2, Zenon DEF OwnerStep, laneVars
  <2>1. CASE Start
    BY <2>0, <2>1, Zenon DEF Start, StopInv
  <2>2. CASE ApprovePeerCertificate \/ AuthorizeSession
    BY <2>0, <2>2, Zenon DEF ApprovePeerCertificate, AuthorizeSession, StopInv
  <2>3. CASE StopRead
    BY <2>0, <2>3, Zenon DEF StopRead, StopInv
  <2>4. CASE StopMark \/ StopFlag
    BY <2>0, <2>4, Zenon DEF StopMark, StopFlag, StopInv
  <2>5. CASE StopJoin
    BY <2>0, <2>5, Zenon DEF StopJoin, Joined, StopInv
  <2> QED BY <1>2, <2>1, <2>2, <2>3, <2>4, <2>5, Zenon DEF OwnerStep
<1>3. CASE ReceiveStep
  <2>1. CASE ArriveMedia \/ ArriveReliable
    <3>1. UNCHANGED <<owner, state, phase>> /\ phase \notin {"none", "done"}
      BY <2>1, Zenon
         DEF ArriveMedia, ArriveReliable, ArrivalPossible, LaneRuns
    <3> QED BY <3>1, Zenon DEF StopInv
  <2>2. CASE LaneExhausted
    <3>1. UNCHANGED <<owner, state, arrived>> /\ phase \notin {"none", "done"}
      BY <2>2, Zenon DEF LaneExhausted, LaneRuns
    <3> QED BY <3>1, Zenon DEF StopInv
  <2>3. CASE Call \/ Look \/ Park \/ Wake \/ Report \/ Refuse \/ Deliver
    BY <2>3, Zenon DEF Call, Look, Park, Wake, Report, Refuse, Deliver, StopInv
  <2> QED BY <1>3, <2>1, <2>2, <2>3, Zenon DEF ReceiveStep
<1>4. CASE UNCHANGED vars
  BY <1>4, Zenon DEF vars, StopInv
<1> QED BY <1>1, <1>2, <1>3, <1>4, Zenon DEF Next

\* Once a stop call has returned, nothing changes the state, the worker or the
\* queue's arrivals behind the owner.
THEOREM StopEnds == Spec => StopIsFinal
<1>1. Init => StopInv
  BY Zenon DEF Init, WorkerInit, StopInv
<1> QED BY <1>1, StopStep, PTL DEF Spec, StopIsFinal
-----------------------------------------------------------------------------
(* The account of a lane.                                                  *)

LaneType ==
  /\ queue \in Seq(Nat) /\ delivered \in Seq(Nat)
  /\ arrived \in Nat /\ drops \in Nat
  /\ Len(queue) <= Capacity
  /\ receiver \in [at : Points, item : Nat]

\* What was handed out and what is queued, each in order, one before the other.
LaneOrder ==
  /\ \A i, j \in 1 .. Len(delivered) : i < j => delivered[i] < delivered[j]
  /\ \A i, j \in 1 .. Len(queue) : i < j => queue[i] < queue[j]
  /\ \A i \in 1 .. Len(delivered), j \in 1 .. Len(queue) : delivered[i] < queue[j]
  /\ \A i \in 1 .. Len(delivered) : delivered[i] <= arrived
  /\ \A j \in 1 .. Len(queue) : queue[j] <= arrived

\* A reliable lane hands out, and then holds, everything from the first item on.
LaneWhole ==
  ~Replaceable =>
    /\ drops = 0
    /\ \A i \in 1 .. Len(delivered) : delivered[i] = i
    /\ \A j \in 1 .. Len(queue) : queue[j] = Len(delivered) + j

\* The item a receive call has copied is still to be removed: it follows all
\* that was handed out and precedes all that is queued but the front, which is
\* the item itself unless the item was evicted.
CopyInv ==
  receiver.at = "copy" =>
    /\ Len(queue) > 0
    /\ receiver.item <= arrived
    /\ \A i \in 1 .. Len(delivered) : delivered[i] < receiver.item
    /\ \A j \in 2 .. Len(queue) : receiver.item < queue[j]
    /\ ~Replaceable => receiver.item = queue[1]

LaneInv == LaneType /\ LossesCounted /\ LaneOrder /\ LaneWhole /\ CopyInv

\* Steps that leave the queue, the counters and the lane alone keep the account
\* as long as the receive call does not come to hold an item.
LEMMA LaneKept ==
  ASSUME LaneInv,
         UNCHANGED <<lane, queue, arrived, drops, delivered>>,
         receiver' \in [at : Points, item : Nat],
         receiver'.at = "copy" => receiver' = receiver
  PROVE  LaneInv'
<1>1. LaneType' /\ LossesCounted' /\ LaneOrder' /\ LaneWhole'
  BY Zenon DEF LaneInv, LaneType, LossesCounted, LaneOrder, LaneWhole, Replaceable
<1>2. CopyInv'
  BY Zenon DEF LaneInv, CopyInv, Replaceable
<1> QED BY <1>1, <1>2, Zenon DEF LaneInv

\* The elements of a sequence of naturals are naturals.
LEMMA Elements ==
  ASSUME NEW s \in Seq(Nat)
  PROVE  Len(s) \in Nat /\ \A i \in 1 .. Len(s) : s[i] \in Nat
OBVIOUS

\* A queue that loses its first d items and gains the newest one stays in order,
\* behind what was handed out and behind an item that a receive call has copied.
LEMMA QueueAdvances ==
  ASSUME LaneInv, UNCHANGED <<lane, receiver, delivered>>,
         NEW d \in Nat, d <= 1, NEW n \in Nat, n + d = Len(queue),
         queue' \in Seq(Nat), Len(queue') = n + 1,
         \A j \in 1 .. n : queue'[j] = queue[j + d],
         queue'[n + 1] = arrived + 1, arrived' = arrived + 1,
         d = 1 => Replaceable
  PROVE  LaneOrder' /\ CopyInv'
<1>1. /\ queue \in Seq(Nat) /\ delivered \in Seq(Nat) /\ arrived \in Nat
      /\ Len(queue) \in Nat /\ Len(delivered) \in Nat
  BY DEF LaneInv, LaneType
<1>2. ASSUME NEW j \in 1 .. Len(queue'), j # n + 1
      PROVE  j \in 1 .. n /\ j + d \in 1 .. Len(queue) /\ queue'[j] = queue[j + d]
  <2>1. j \in 1 .. n
    BY <1>2
  <2>2. j + d \in 1 .. Len(queue)
    BY <1>1, <2>1
  <2> QED BY <2>1, <2>2, Zenon
<1>3. \A j \in 1 .. Len(queue) : queue[j] \in Nat /\ queue[j] <= arrived
  <2>1. \A j \in 1 .. Len(queue) : queue[j] \in Nat
    BY <1>1, Elements, Zenon
  <2> QED BY <2>1, Zenon DEF LaneInv, LaneOrder
<1>3a. \A i \in 1 .. Len(delivered) : delivered[i] \in Nat /\ delivered[i] <= arrived
  <2>1. \A i \in 1 .. Len(delivered) : delivered[i] \in Nat
    BY <1>1, Elements, Zenon
  <2> QED BY <2>1, Zenon DEF LaneInv, LaneOrder
<1>4. \A j \in 1 .. Len(queue') : queue'[j] <= arrived'
  <2> TAKE j \in 1 .. Len(queue')
  <2>1. CASE j = n + 1
    BY <1>1, <2>1
  <2>2. CASE j # n + 1
    <3>1. j + d \in 1 .. Len(queue) /\ queue'[j] = queue[j + d]
      BY <1>2, <2>2, Zenon
    <3>2. queue[j + d] \in Nat /\ queue[j + d] <= arrived
      BY <1>3, <3>1, Zenon
    <3> QED BY <1>1, <3>1, <3>2, SMTT(60)
  <2> QED BY <2>1, <2>2, Zenon
<1>5. \A i, j \in 1 .. Len(queue') : i < j => queue'[i] < queue'[j]
  <2> TAKE i, j \in 1 .. Len(queue')
  <2> HAVE i < j
  <2>1. i # n + 1 /\ i + d < j + d
    BY <1>1
  <2>2. CASE j = n + 1
    <3>1. i + d \in 1 .. Len(queue) /\ queue'[i] = queue[i + d]
      BY <1>2, <2>1, Zenon
    <3>2. queue[i + d] \in Nat /\ queue[i + d] <= arrived
      BY <1>3, <3>1, Zenon
    <3> QED BY <1>1, <2>2, <3>1, <3>2, SMTT(60)
  <2>3. CASE j # n + 1
    BY <1>1, <1>2, <2>1, <2>3, Zenon DEF LaneInv, LaneOrder
  <2> QED BY <2>2, <2>3, Zenon
<1>6. ASSUME Len(queue) > 0, NEW x \in Nat, x <= arrived,
             \A k \in 2 .. Len(queue) : x < queue[k]
      PROVE  \A j \in 2 .. Len(queue') : x < queue'[j]
  <2> TAKE j \in 2 .. Len(queue')
  <2>1. CASE j = n + 1
    BY <1>1, <1>6, <2>1
  <2>2. CASE j # n + 1
    BY <1>1, <1>2, <1>6, <2>2
  <2> QED BY <2>1, <2>2, Zenon
<1>7. \A i \in 1 .. Len(delivered), j \in 1 .. Len(queue') : delivered[i] < queue'[j]
  <2> TAKE i \in 1 .. Len(delivered), j \in 1 .. Len(queue')
  <2>1. CASE j = n + 1
    BY <1>1, <1>3a, <2>1, SMTT(60)
  <2>2. CASE j # n + 1
    BY <1>2, <2>2, Zenon DEF LaneInv, LaneOrder
  <2> QED BY <2>1, <2>2, Zenon
<1>8. \A i \in 1 .. Len(delivered) : delivered[i] <= arrived'
  BY <1>1, <1>3a, SMTT(60)
<1>9. LaneOrder'
  BY <1>4, <1>5, <1>7, <1>8, Zenon DEF LaneInv, LaneOrder
<1>10. CopyInv'
  <2> SUFFICES ASSUME receiver.at = "copy" PROVE CopyInv'
    BY Zenon DEF CopyInv
  <2>1. /\ Len(queue) > 0 /\ receiver.item \in Nat /\ receiver.item <= arrived
        /\ \A i \in 1 .. Len(delivered) : delivered[i] < receiver.item
        /\ \A j \in 2 .. Len(queue) : receiver.item < queue[j]
        /\ ~Replaceable => receiver.item = queue[1]
    BY Zenon DEF LaneInv, LaneType, CopyInv
  <2>2. Len(queue') > 0 /\ receiver.item <= arrived'
    BY <1>1, <2>1, SMTT(60)
  <2>3. \A j \in 2 .. Len(queue') : receiver.item < queue'[j]
    BY <1>6, <2>1, Zenon
  <2>4. ~Replaceable => receiver.item = queue'[1]
    <3> SUFFICES ASSUME ~Replaceable PROVE receiver.item = queue'[1]
      BY Zenon
    <3>1. d = 0 /\ 1 \in 1 .. n
      BY <1>1, <2>1
    <3> QED BY <1>1, <2>1, <3>1
  <2> QED BY <2>1, <2>2, <2>3, <2>4, Zenon DEF CopyInv, Replaceable
<1> QED BY <1>9, <1>10, Zenon
\* receive_video and receive_audio keep the account: an eviction is counted,
\* also that of the item a receive call is copying.
LEMMA MediaKept == LaneInv /\ ArriveMedia => LaneInv'
<1> SUFFICES ASSUME LaneInv, ArriveMedia PROVE LaneInv'
  BY Zenon
<1> DEFINE kept == Evicted(queue)
           d == Dropped(queue)
<1>1. UNCHANGED <<lane, receiver, delivered>> /\ Replaceable
  BY Zenon DEF ArriveMedia
<1>2. queue' = Append(kept, arrived + 1) /\ arrived' = arrived + 1 /\ drops' = drops + d
  BY Zenon DEF ArriveMedia
<1>3. /\ queue \in Seq(Nat) /\ arrived \in Nat /\ drops \in Nat
      /\ Len(queue) \in Nat /\ Len(delivered) \in Nat /\ Len(queue) <= Capacity
      /\ Capacity \in Nat /\ Capacity > 0
  BY LaneAssumption DEF LaneInv, LaneType
<1>4. /\ kept \in Seq(Nat) /\ Len(kept) \in Nat /\ d \in Nat /\ d <= 1
      /\ Len(kept) + d = Len(queue) /\ Len(kept) < Capacity
      /\ \A j \in 1 .. Len(kept) : kept[j] = queue[j + d]
  <2>1. CASE Len(queue) = Capacity
    BY <1>3, <2>1 DEF Evicted, Dropped
  <2>2. CASE Len(queue) # Capacity
    BY <1>3, <2>2 DEF Evicted, Dropped
  <2> QED BY <2>1, <2>2, Zenon
<1> HIDE DEF kept, d
<1>5. /\ queue' \in Seq(Nat) /\ Len(queue') = Len(kept) + 1
      /\ \A j \in 1 .. Len(kept) : queue'[j] = queue[j + d]
      /\ queue'[Len(kept) + 1] = arrived + 1
  BY <1>2, <1>3, <1>4
<1>6. LaneOrder' /\ CopyInv'
  BY <1>1, <1>2, <1>4, <1>5, QueueAdvances, Zenon
<1>7. arrived' \in Nat /\ drops' \in Nat /\ Len(queue') <= Capacity
  BY <1>2, <1>3, <1>4, <1>5
<1>8. LaneType'
  BY <1>1, <1>5, <1>7, Zenon DEF LaneInv, LaneType
<1>9. LossesCounted'
  <2>1. arrived = Len(delivered) + Len(queue) + drops
    BY Zenon DEF LaneInv, LossesCounted
  <2>2. arrived' = Len(delivered) + Len(queue') + drops'
    BY <1>2, <1>3, <1>4, <1>5, <2>1, SMTT(60)
  <2> QED BY <1>1, <2>2, Zenon DEF LossesCounted
<1>10. LaneWhole'
  BY <1>1, Zenon DEF LaneWhole, Replaceable
<1> QED BY <1>6, <1>8, <1>9, <1>10, Zenon DEF LaneInv

\* receive_input and receive_data keep the account.
LEMMA ReliableKept == LaneInv /\ ArriveReliable => LaneInv'
<1> SUFFICES ASSUME LaneInv, ArriveReliable PROVE LaneInv'
  BY Zenon
<1>1. UNCHANGED <<lane, receiver, delivered, drops>> /\ ~Replaceable
  BY Zenon DEF ArriveReliable
<1>2. queue' = Append(queue, arrived + 1) /\ arrived' = arrived + 1 /\ Len(queue) < Capacity
  BY Zenon DEF ArriveReliable
<1>3. /\ queue \in Seq(Nat) /\ arrived \in Nat /\ Len(queue) \in Nat
      /\ Len(delivered) \in Nat /\ Capacity \in Nat
  BY LaneAssumption DEF LaneInv, LaneType
<1>4. /\ queue' \in Seq(Nat) /\ Len(queue') = Len(queue) + 1
      /\ \A j \in 1 .. Len(queue) : queue'[j] = queue[j]
      /\ queue'[Len(queue) + 1] = arrived + 1
  BY <1>2, <1>3
<1>5. /\ \A j \in 1 .. Len(queue) : queue'[j] = queue[j + 0]
      /\ Len(queue) + 0 = Len(queue) /\ 0 \in Nat /\ 0 <= 1 /\ 0 # 1
  BY <1>3, <1>4
<1>6. LaneOrder' /\ CopyInv'
  BY <1>1, <1>2, <1>3, <1>4, <1>5, QueueAdvances, Zenon
<1>7. arrived' \in Nat /\ Len(queue') <= Capacity
  BY <1>2, <1>3, <1>4
<1>8. LaneType'
  BY <1>1, <1>4, <1>7, Zenon DEF LaneInv, LaneType
<1>9. drops = 0 /\ arrived = Len(delivered) + Len(queue)
  BY <1>1, <1>3 DEF LaneInv, LossesCounted, LaneWhole
<1>10. LossesCounted'
  <2>1. arrived' = Len(delivered) + Len(queue') + drops
    BY <1>2, <1>3, <1>4, <1>9
  <2> QED BY <1>1, <2>1, Zenon DEF LossesCounted
<1>11. \A j \in 1 .. Len(queue') : queue'[j] = Len(delivered) + j
  <2> TAKE j \in 1 .. Len(queue')
  <2>1. CASE j = Len(queue) + 1
    BY <1>3, <1>4, <1>9, <2>1
  <2>2. CASE j # Len(queue) + 1
    <3>1. j \in 1 .. Len(queue)
      BY <1>3, <1>4, <2>2
    <3> QED BY <1>1, <1>4, <3>1, Zenon DEF LaneInv, LaneWhole
  <2> QED BY <2>1, <2>2, Zenon
<1>12. LaneWhole'
  <2>1. \A i \in 1 .. Len(delivered) : delivered[i] = i
    BY <1>1, Zenon DEF LaneInv, LaneWhole
  <2> QED BY <1>1, <1>9, <1>11, <2>1, Zenon DEF LaneWhole
<1> QED BY <1>6, <1>8, <1>10, <1>12, Zenon DEF LaneInv
\* The receive call's look at the queue gives it the front to copy.
LEMMA LookKept == LaneInv /\ Look => LaneInv'
<1> SUFFICES ASSUME LaneInv, Look PROVE LaneInv'
  BY Zenon
<1>1. UNCHANGED <<lane, queue, arrived, drops, delivered>>
  BY Zenon DEF Look
<1>2. /\ receiver \in [at : Points, item : Nat]
      /\ queue \in Seq(Nat) /\ Len(queue) \in Nat /\ arrived \in Nat
  BY DEF LaneInv, LaneType
<1>3. CASE queue # <<>> /\ receiver' = [at |-> "copy", item |-> Head(queue)]
  <2>1. Len(queue) > 0 /\ Head(queue) = queue[1] /\ 1 \in 1 .. Len(queue)
    BY <1>2, <1>3
  <2>2. queue[1] \in Nat
    BY <1>2, <2>1, Elements, Zenon
  <2>3. /\ receiver' \in [at : Points, item : Nat]
        /\ receiver'.at = "copy" /\ receiver'.item = queue[1]
    BY <1>3, <2>1, <2>2, Zenon DEF Points
  <2>4. LaneType' /\ LossesCounted' /\ LaneOrder' /\ LaneWhole'
    BY <1>1, <2>3, Zenon
       DEF LaneInv, LaneType, LossesCounted, LaneOrder, LaneWhole, Replaceable
  <2>5. \A j \in 2 .. Len(queue) : queue[1] < queue[j]
    <3> TAKE j \in 2 .. Len(queue)
    <3>1. j \in 1 .. Len(queue) /\ 1 < j
      BY <1>2
    <3> QED BY <2>1, <3>1, Zenon DEF LaneInv, LaneOrder
  <2>6. /\ queue[1] <= arrived
        /\ \A i \in 1 .. Len(delivered) : delivered[i] < queue[1]
    BY <2>1, Zenon DEF LaneInv, LaneOrder
  <2>7. CopyInv'
    BY <1>1, <2>1, <2>3, <2>5, <2>6, Zenon DEF CopyInv
  <2> QED BY <2>4, <2>7, Zenon DEF LaneInv
<1>4. CASE receiver' = [receiver EXCEPT !.at = "none"]
  BY <1>1, <1>2, <1>4, LaneKept, Zenon DEF Points
<1>5. CASE receiver' = [receiver EXCEPT !.at = "park"]
  BY <1>1, <1>2, <1>5, LaneKept, Zenon DEF Points
<1> QED BY <1>3, <1>4, <1>5, Zenon DEF Look

\* The item is handed out and the front removed under the second lock.
LEMMA DeliverKept == LaneInv /\ Deliver => LaneInv'
<1> SUFFICES ASSUME LaneInv, Deliver PROVE LaneInv'
  BY Zenon
<1> DEFINE item == receiver.item
<1>1. UNCHANGED <<lane, arrived, drops>> /\ receiver.at = "copy"
  BY Zenon DEF Deliver
<1>2. /\ queue \in Seq(Nat) /\ delivered \in Seq(Nat) /\ arrived \in Nat /\ drops \in Nat
      /\ Len(queue) \in Nat /\ Len(delivered) \in Nat /\ Len(queue) <= Capacity
      /\ Capacity \in Nat /\ item \in Nat
  BY LaneAssumption DEF LaneInv, LaneType
<1>3. /\ Len(queue) > 0 /\ item <= arrived
      /\ \A i \in 1 .. Len(delivered) : delivered[i] < item
      /\ \A j \in 2 .. Len(queue) : item < queue[j]
      /\ ~Replaceable => item = queue[1]
  BY <1>1, Zenon DEF LaneInv, CopyInv
<1>4. queue' = Tail(queue) /\ delivered' = Append(delivered, item)
  <2>1. queue # <<>>
    BY <1>2, <1>3
  <2> QED BY <2>1, Zenon DEF Deliver, Removed
<1>5. receiver' \in [at : Points, item : Nat] /\ receiver'.at # "copy"
  BY Zenon DEF Deliver, Points
<1> HIDE DEF item
<1>6. /\ queue' \in Seq(Nat) /\ Len(queue') = Len(queue) - 1
      /\ \A j \in 1 .. Len(queue') : queue'[j] = queue[j + 1]
  BY <1>2, <1>3, <1>4
<1>7. /\ delivered' \in Seq(Nat) /\ Len(delivered') = Len(delivered) + 1
      /\ \A i \in 1 .. Len(delivered) : delivered'[i] = delivered[i]
      /\ delivered'[Len(delivered) + 1] = item
  BY <1>2, <1>4
<1>8. Len(queue') \in Nat /\ Len(queue') <= Capacity
  BY <1>2, <1>3, <1>6
<1>9. LaneType'
  BY <1>1, <1>5, <1>6, <1>7, <1>8, Zenon DEF LaneInv, LaneType
<1>10. LossesCounted'
  <2>1. arrived = Len(delivered) + Len(queue) + drops
    BY Zenon DEF LaneInv, LossesCounted
  <2>2. arrived = Len(delivered') + Len(queue') + drops
    BY <1>2, <1>6, <1>7, <2>1
  <2> QED BY <1>1, <2>2, Zenon DEF LossesCounted
<1>11. \A j \in 1 .. Len(queue') : j + 1 \in 2 .. Len(queue) /\ j + 1 \in 1 .. Len(queue)
  BY <1>2, <1>6
<1>12. \A i \in 1 .. Len(delivered') : i = Len(delivered) + 1 \/ i \in 1 .. Len(delivered)
  BY <1>2, <1>7
<1>13. \A i, j \in 1 .. Len(delivered') : i < j => delivered'[i] < delivered'[j]
  <2> TAKE i, j \in 1 .. Len(delivered')
  <2> HAVE i < j
  <2>1. i \in 1 .. Len(delivered)
    BY <1>2, <1>7
  <2>2. CASE j = Len(delivered) + 1
    BY <1>3, <1>7, <2>1, <2>2, Zenon
  <2>3. CASE j \in 1 .. Len(delivered)
    BY <1>7, <2>1, <2>3, Zenon DEF LaneInv, LaneOrder
  <2> QED BY <1>12, <2>2, <2>3, Zenon
<1>14. \A i, j \in 1 .. Len(queue') : i < j => queue'[i] < queue'[j]
  <2> TAKE i, j \in 1 .. Len(queue')
  <2> HAVE i < j
  <2>1. i + 1 < j + 1
    BY <1>8
  <2> QED BY <1>6, <1>11, <2>1, Zenon DEF LaneInv, LaneOrder
<1>15. \A i \in 1 .. Len(delivered'), j \in 1 .. Len(queue') : delivered'[i] < queue'[j]
  <2> TAKE i \in 1 .. Len(delivered'), j \in 1 .. Len(queue')
  <2>1. CASE i = Len(delivered) + 1
    BY <1>3, <1>6, <1>7, <1>11, <2>1, Zenon
  <2>2. CASE i \in 1 .. Len(delivered)
    BY <1>6, <1>7, <1>11, <2>2, Zenon DEF LaneInv, LaneOrder
  <2> QED BY <1>12, <2>1, <2>2, Zenon
<1>16. \A i \in 1 .. Len(delivered') : delivered'[i] <= arrived
  BY <1>3, <1>7, <1>12, Zenon DEF LaneInv, LaneOrder
<1>17. \A j \in 1 .. Len(queue') : queue'[j] <= arrived
  BY <1>6, <1>11, Zenon DEF LaneInv, LaneOrder
<1>18. LaneOrder'
  BY <1>1, <1>13, <1>14, <1>15, <1>16, <1>17, Zenon DEF LaneOrder
<1>19. LaneWhole'
  <2> SUFFICES ASSUME ~Replaceable
               PROVE  /\ drops = 0
                      /\ \A i \in 1 .. Len(delivered') : delivered'[i] = i
                      /\ \A j \in 1 .. Len(queue') : queue'[j] = Len(delivered') + j
    BY <1>1, Zenon DEF LaneWhole, Replaceable
  <2>1. /\ drops = 0
        /\ \A i \in 1 .. Len(delivered) : delivered[i] = i
        /\ \A j \in 1 .. Len(queue) : queue[j] = Len(delivered) + j
    BY Zenon DEF LaneInv, LaneWhole
  <2>2. item = Len(delivered) + 1
    <3>1. 1 \in 1 .. Len(queue) /\ item = queue[1]
      BY <1>2, <1>3
    <3> QED BY <2>1, <3>1, Zenon
  <2>3. \A i \in 1 .. Len(delivered') : delivered'[i] = i
    BY <1>7, <1>12, <2>1, <2>2, Zenon
  <2>4. \A j \in 1 .. Len(queue') : queue'[j] = Len(delivered') + j
    <3> TAKE j \in 1 .. Len(queue')
    <3>1. queue'[j] = Len(delivered) + (j + 1)
      BY <1>6, <1>11, <2>1, Zenon
    <3> QED BY <1>2, <1>7, <1>8, <3>1
  <2> QED BY <2>1, <2>3, <2>4, Zenon
<1>20. CopyInv'
  BY <1>5, Zenon DEF CopyInv
<1> QED BY <1>9, <1>10, <1>18, <1>19, <1>20, Zenon DEF LaneInv
\* Every step of the endpoint keeps the account of the lane.
LEMMA LaneStep == LaneInv /\ [Next]_vars => LaneInv'
<1> SUFFICES ASSUME LaneInv, [Next]_vars PROVE LaneInv'
  BY Zenon
<1>0. receiver \in [at : Points, item : Nat]
  BY Zenon DEF LaneInv, LaneType
<1>1. CASE WorkerStep \/ OwnerStep \/ UNCHANGED vars
  <2>1. UNCHANGED <<lane, queue, arrived, drops, receiver, delivered>>
    BY <1>1, Zenon DEF WorkerStep, OwnerStep, laneVars, vars
  <2> QED BY <1>0, <2>1, LaneKept, Zenon
<1>2. CASE ReceiveStep
  <2>1. CASE LaneExhausted
    BY <1>0, <2>1, LaneKept, Zenon DEF LaneExhausted
  <2>2. CASE Call
    BY <1>0, <2>2, LaneKept, Zenon DEF Call, Points
  <2>3. CASE Park
    BY <1>0, <2>3, LaneKept, Zenon DEF Park, Points
  <2>4. CASE Wake
    BY <1>0, <2>4, LaneKept, Zenon DEF Wake, Points
  <2>5. CASE Report \/ Refuse
    BY <1>0, <2>5, LaneKept DEF Report, Refuse, Points
  <2> QED BY <1>2, <2>1, <2>2, <2>3, <2>4, <2>5, MediaKept, ReliableKept, LookKept,
            DeliverKept, Zenon
       DEF ReceiveStep
<1> QED BY <1>1, <1>2, Zenon DEF Next

\* What the invariant says of the two sequences apart, LaneAccounts says of one
\* after the other.
LEMMA LaneInvAccounts == LaneInv => LaneAccounts
<1> SUFFICES ASSUME LaneInv PROVE LossesCounted /\ InOrder
  BY Zenon DEF LaneAccounts
<1> DEFINE items == delivered \o queue
           n == Len(delivered)
<1>1. /\ queue \in Seq(Nat) /\ delivered \in Seq(Nat) /\ Len(queue) \in Nat /\ n \in Nat
      /\ arrived \in Nat /\ drops \in Nat
  BY DEF LaneInv, LaneType
<1>2. /\ items \in Seq(Nat) /\ Len(items) = n + Len(queue)
      /\ \A i \in 1 .. Len(items) : items[i] = IF i <= n THEN delivered[i] ELSE queue[i - n]
  BY <1>1
<1> HIDE DEF items, n
<1>3. \A i \in 1 .. Len(items) : IF i <= n THEN i \in 1 .. n ELSE i - n \in 1 .. Len(queue)
  BY <1>1, <1>2
<1>4. \A i, j \in 1 .. Len(items) : i < j => items[i] < items[j]
  <2> TAKE i, j \in 1 .. Len(items)
  <2> HAVE i < j
  <2>1. CASE j <= n
    <3>1. i <= n
      BY <1>1, <1>2, <2>1
    <3> QED BY <1>2, <1>3, <2>1, <3>1, Zenon DEF LaneInv, LaneOrder, n
  <2>2. CASE ~(j <= n) /\ i <= n
    BY <1>2, <1>3, <2>2, Zenon DEF LaneInv, LaneOrder, n
  <2>3. CASE ~(j <= n) /\ ~(i <= n)
    <3>1. i - n < j - n
      BY <1>1, <1>2
    <3> QED BY <1>2, <1>3, <2>3, <3>1, Zenon DEF LaneInv, LaneOrder
  <2> QED BY <2>1, <2>2, <2>3, Zenon
<1>5. ASSUME ~Replaceable PROVE items = [i \in 1 .. arrived |-> i]
  <2>1. /\ drops = 0
        /\ \A i \in 1 .. n : delivered[i] = i
        /\ \A j \in 1 .. Len(queue) : queue[j] = n + j
    BY <1>5, Zenon DEF LaneInv, LaneWhole, n
  <2>2. Len(items) = arrived
    BY <1>1, <1>2, <2>1 DEF LaneInv, LossesCounted, n
  <2>3. \A i \in 1 .. Len(items) : items[i] = i
    <3> TAKE i \in 1 .. Len(items)
    <3>1. CASE i <= n
      BY <1>2, <1>3, <2>1, <3>1, Zenon
    <3>2. CASE ~(i <= n)
      <4>1. items[i] = n + (i - n)
        BY <1>2, <1>3, <2>1, <3>2, Zenon
      <4> QED BY <1>1, <1>2, <4>1
    <3> QED BY <3>1, <3>2, Zenon
  <2>4. items = [i \in 1 .. Len(items) |-> items[i]]
    BY <1>2
  <2> QED BY <2>2, <2>3, <2>4, Zenon
<1>6. InOrder
  BY <1>4, <1>5, Zenon DEF InOrder, items
<1> QED BY <1>6, Zenon DEF LaneInv

\* Between the task that queues and evicts and the receive call that copies and
\* removes, the numbers of a lane agree, nothing is handed out twice or out of
\* order, and a reliable lane leaves nothing out: for every capacity.
THEOREM LanesAccount == Spec => []LaneAccounts
<1>1. Init => LaneInv
  <2> SUFFICES ASSUME Init PROVE LaneInv
    BY Zenon
  <2>1. /\ queue = <<>> /\ delivered = <<>> /\ arrived = 0 /\ drops = 0
        /\ receiver = [at |-> "idle", item |-> 0]
    BY Zenon DEF Init, ReceiveInit
  <2> QED BY <2>1, LaneAssumption
            DEF LaneInv, LaneType, LossesCounted, LaneOrder, LaneWhole,
       CopyInv, Points
<1> QED BY <1>1, LaneStep, LaneInvAccounts, PTL DEF Spec

-----------------------------------------------------------------------------
(* The audio tap.                                                          *)

CONSTANTS Slots, Modulus, MaxBlocks

VARIABLES readIndex, writeIndex, failed, overruns, stopped, blocks, hal, callback, write,
          read, ready, handled, target, failureReported, rejected

\* The ring; what it promises is in RingState.
Tap == INSTANCE AudioRing

\* PLANKTapSlots divides the number of values of an index, and is less.
RingSizes == Slots \in Nat \ {0} /\ \E m \in Nat : m > 1 /\ Modulus = m * Slots

\* A block, with its two parts as it is filled and read.
Block == [header: Nat, samples: Nat]

\* The index of a count.
Index(n) == n % Modulus

\* The slot of a count.
Slot(n) == n % Slots

\* The block that a count has its place for.
Held(n) == blocks[Slot(n)]

\* The number of the last block that the encoder got.
Last == IF encoded = <<>> THEN 0 ELSE encoded[Len(encoded)].header

\* The producer works on a block.
Busy == hal \in {"push", "room", "header", "samples", "publish"}

\* Every variable has its type.
RingTypes ==
  /\ hal \in {"idle", "push", "room", "header", "samples", "publish", "merge"}
  /\ tapOwner \in {"idle", "exchange", "discard", "skip", "peek", "header", "samples", "pop",
                "refused", "tail"}
  /\ callback \in Nat /\ rejected \in Nat /\ noticed \in Nat /\ overruns \in Nat
  /\ block \in Block /\ blocks \in [0 .. Slots - 1 -> Block] /\ encoded \in Seq(Block)

\* The indexes are the counts, no more than Slots blocks are in the ring, the
\* producer has a free slot once it found room, and the consumer has a block
\* once it found one.
Counts(R, W, P, T) ==
  /\ R \in Nat /\ W \in Nat /\ P \in Nat /\ T \in Nat
  /\ readIndex = Index(R) /\ writeIndex = Index(W)
  /\ R <= W /\ W <= R + Slots
  /\ hal \in {"room", "header", "samples", "publish"} => write = Index(W)
  /\ hal = "room" => read = Index(P) /\ P <= R /\ W <= P + Slots
  /\ hal \in {"header", "samples", "publish"} => W < R + Slots
  /\ tapOwner \in {"header", "samples", "pop", "refused"} => R < W
  /\ tapOwner = "skip" => target = Index(T) /\ R <= T /\ T <= W

\* The published blocks are whole, in order and not of the running callback, whose
\* block is filled part by part; and the consumer has its header from the first.
Contents(R, W) ==
  /\ \A n \in Nat : R <= n /\ n < W =>
       Held(n).header = Held(n).samples /\ Held(n).header <= callback
  /\ Busy => \A n \in Nat : R <= n /\ n < W => Held(n).header < callback
  /\ \A m, n \in Nat : R <= m /\ m < n /\ n < W => Held(m).header < Held(n).header
  /\ hal \in {"samples", "publish"} => Held(W).header = callback
  /\ hal = "publish" => Held(W).samples = callback
  /\ tapOwner = "samples" => block.header = Held(R).header

\* Outside a discard all blocks in the ring are later than the overrun that was
\* noticed; during one those are that the discard leaves.
Notices(R, W, T) ==
  /\ rejected <= callback /\ (Busy => rejected < callback)
  /\ noticed <= rejected /\ (overruns = 0 => rejected = noticed)
  /\ tapOwner \notin {"discard", "skip"} =>
       \A n \in Nat : R <= n /\ n < W => noticed < Held(n).header
  /\ tapOwner = "skip" => \A n \in Nat : T <= n /\ n < W => noticed < Held(n).header

\* What was delivered is whole, in order and older than what is in the ring, but
\* for a block that is delivered and not yet popped.
Given(R, W) ==
  /\ WholeBlocksInOrder
  /\ Last <= callback /\ (Busy => Last < callback)
  /\ \A n \in Nat : R <= n /\ n < W /\ (n # R \/ tapOwner # "pop") => Last < Held(n).header

\* All of it, with the counts.
Ring(R, W, P, T) == Counts(R, W, P, T) /\ Contents(R, W) /\ Notices(R, W, T) /\ Given(R, W)

\* The inductive invariant.
RingInv == RingTypes /\ \E R, W, P, T \in Nat : Ring(R, W, P, T)

-----------------------------------------------------------------------------
(* Arithmetic of indexes that wrap.                                        *)

\* Division with remainder.
LEMMA DivMod ==
  ASSUME NEW a \in Int, NEW b \in Int, b > 0
  PROVE  /\ a % b \in 0 .. b - 1 /\ a \div b \in Int
         /\ a = b * (a \div b) + (a % b)
<1>1. a % b \in 0 .. b - 1 /\ a \div b \in Int
  OBVIOUS
<1>2. a = b * (a \div b) + (a % b)
  OBVIOUS
<1> QED BY <1>1, <1>2, Zenon

\* The remainder is unique.
LEMMA ModUnique ==
  ASSUME NEW a \in Int, NEW b \in Int, b > 0, NEW q \in Int, NEW r \in 0 .. b - 1, a = b * q + r
  PROVE  a % b = r
<1>1. a % b \in 0 .. b - 1 /\ a \div b \in Int /\ b * (a \div b) + (a % b) = b * q + r
  BY DivMod, Zenon
<1> DEFINE p == a \div b
           s == a % b
<1>2. p \in Int /\ s \in 0 .. b - 1 /\ b * p + s = b * q + r
  BY <1>1, Zenon
<1> HIDE DEF p, s
<1>3. s = r
  BY <1>2
<1> QED BY <1>3, Zenon DEF s

\* The sizes of the ring, as the proofs use them.
LEMMA Sizes ==
  ASSUME RingSizes
  PROVE  /\ Slots \in Int /\ Slots > 0 /\ Modulus \in Int /\ Modulus > Slots
         /\ \E m \in Nat : Modulus = Slots * m
<1>1. PICK m \in Nat : m > 1 /\ Modulus = m * Slots
  BY Zenon DEF RingSizes
<1>2. Slots \in Int /\ Slots > 0
  BY DEF RingSizes
<1>3. Modulus = Slots * m
  BY <1>1, <1>2
<1>4. Slots * m > Slots /\ Slots * m \in Int
  BY <1>1, <1>2
<1> QED BY <1>2, <1>3, <1>4, Zenon

\* A number is a multiple and a remainder.
LEMMA Parts ==
  ASSUME NEW a \in Int, NEW b \in Int, b > 0
  PROVE  \E q \in Int : \E r \in 0 .. b - 1 : a = b * q + r /\ r = a % b
<1> DEFINE q == a \div b
           r == a % b
<1>1. q \in Int /\ r \in 0 .. b - 1 /\ a = b * q + r /\ r = a % b
  BY DivMod, Zenon
<1> HIDE DEF q, r
<1> QED BY <1>1, Zenon

\* An index has the slot of its count.
LEMMA SlotOfIndex ==
  ASSUME RingSizes, NEW n \in Nat
  PROVE  (n % Modulus) % Slots = n % Slots
<1>1. /\ Slots \in Int /\ Slots > 0 /\ Modulus \in Int /\ Modulus > 0 /\ n \in Int
  BY Sizes
<1>2. PICK m \in Nat : Modulus = Slots * m
  BY Sizes, Zenon
<1>3. PICK q \in Int : \E r \in 0 .. Modulus - 1 : n = Modulus * q + r /\ r = n % Modulus
  BY <1>1, Parts, Zenon
<1>4. PICK x \in 0 .. Modulus - 1 : n = Modulus * q + x /\ x = n % Modulus
  BY <1>3, Zenon
<1>5. x \in Int
  BY <1>1
<1>6. PICK p \in Int : \E r \in 0 .. Slots - 1 : x = Slots * p + r /\ r = x % Slots
  BY <1>1, <1>5, Parts, Zenon
<1>7. PICK y \in 0 .. Slots - 1 : x = Slots * p + y /\ y = x % Slots
  BY <1>6, Zenon
<1>8. n = Slots * (m * q + p) + y /\ m * q + p \in Int
  <2>1. Modulus * q = Slots * (m * q)
    BY <1>1, <1>2
  <2>2. m * q \in Int
    OBVIOUS
  <2>3. Slots * (m * q + p) = Slots * (m * q) + Slots * p
    BY <1>1, <2>2
  <2>4. n = Slots * (m * q) + (Slots * p + y)
    BY <1>4, <1>7, <2>1, Zenon
  <2>5. Slots * (m * q) \in Int /\ Slots * p \in Int /\ m * q + p \in Int /\ y \in Int
    BY <1>1, <2>2
  <2> QED BY <2>3, <2>4, <2>5
<1>9. n % Slots = y
  <2> DEFINE k == m * q + p
  <2>1. k \in Int /\ n = Slots * k + y
    BY <1>8, Zenon
  <2> HIDE DEF k
  <2> QED BY <1>1, <2>1, ModUnique, Zenon
<1> QED BY <1>4, <1>7, <1>9, Zenon

\* The next index is the index of the next count.
LEMMA NextIndex ==
  ASSUME RingSizes, NEW n \in Nat
  PROVE  ((n % Modulus) + 1) % Modulus = (n + 1) % Modulus
<1>1. Modulus \in Int /\ Modulus > 0 /\ n \in Int
  BY Sizes
<1>2. PICK q \in Int : \E r \in 0 .. Modulus - 1 : n = Modulus * q + r /\ r = n % Modulus
  BY <1>1, Parts, Zenon
<1>3. PICK x \in 0 .. Modulus - 1 : n = Modulus * q + x /\ x = n % Modulus
  BY <1>2, Zenon
<1>4. x + 1 \in Int
  BY <1>1
<1>5. PICK p \in Int : \E r \in 0 .. Modulus - 1 : x + 1 = Modulus * p + r /\ r = (x + 1) % Modulus
  BY <1>1, <1>4, Parts, Zenon
<1>6. PICK y \in 0 .. Modulus - 1 : x + 1 = Modulus * p + y /\ y = (x + 1) % Modulus
  BY <1>5, Zenon
<1>7. n + 1 = Modulus * (q + p) + y /\ q + p \in Int /\ n + 1 \in Int
  BY <1>1, <1>3, <1>6
<1>8. (n + 1) % Modulus = y
  BY <1>1, <1>7, ModUnique, Zenon
<1> QED BY <1>3, <1>6, <1>8, Zenon

\* The difference of two remainders is that of the numbers.
LEMMA Distance ==
  ASSUME NEW b \in Int, b > 0, NEW m \in Nat, NEW n \in Nat, m <= n, n < m + b
  PROVE  ((n % b) - (m % b)) % b = n - m
<1>1. PICK q \in Int : \E r \in 0 .. b - 1 : n = b * q + r /\ r = n % b
  BY Parts
<1>2. PICK x \in 0 .. b - 1 : n = b * q + x /\ x = n % b
  BY <1>1, Zenon
<1>3. PICK p \in Int : \E r \in 0 .. b - 1 : m = b * p + r /\ r = m % b
  BY Parts
<1>4. PICK y \in 0 .. b - 1 : m = b * p + y /\ y = m % b
  BY <1>3, Zenon
<1>5. x - y = b * (p - q) + (n - m) /\ p - q \in Int /\ n - m \in 0 .. b - 1 /\ x - y \in Int
  BY <1>2, <1>4
<1>6. (x - y) % b = n - m
  BY <1>5, ModUnique, Zenon
<1> QED BY <1>2, <1>4, <1>6, Zenon

\* Numbers that are close have different remainders.
LEMMA Apart ==
  ASSUME NEW b \in Int, b > 0, NEW m \in Nat, NEW n \in Nat, m < n, n < m + b
  PROVE  m % b # n % b
<1>1. ((n % b) - (m % b)) % b = n - m
  <2>1. m <= n
    OBVIOUS
  <2> QED BY <2>1, Distance, Zenon
<1>0. n % b \in Int /\ m % b \in Int
  OBVIOUS
<1>2. 0 % b = 0
  <2>1. 0 = b * 0 + 0 /\ 0 \in 0 .. b - 1
    OBVIOUS
  <2> QED BY <2>1, ModUnique
<1>3. m % b = n % b => (n % b) - (m % b) = 0
  BY <1>0
<1>4. n - m # 0
  OBVIOUS
<1> QED BY <1>1, <1>2, <1>3, <1>4, Zenon

\* What the proofs about steps need of indexes and slots.
LEMMA Wraps ==
  ASSUME RingSizes
  PROVE  /\ Slots \in Nat /\ Slots > 0
         /\ \A n \in Nat : /\ Slot(n) \in 0 .. Slots - 1 /\ Index(n) % Slots = Slot(n)
                           /\ (Index(n) + 1) % Modulus = Index(n + 1)
         /\ \A m, n \in Nat : m <= n /\ n <= m + Slots => (Index(n) - Index(m)) % Modulus = n - m
         /\ \A m, n \in Nat : m < n /\ n <= m + Slots => Index(m) # Index(n)
         /\ \A m, n \in Nat : m < n /\ n < m + Slots => Slot(m) # Slot(n)
<1>1. Slots \in Int /\ Slots > 0 /\ Modulus \in Int /\ Modulus > 0 /\ Modulus > Slots
  BY Sizes
<1>2. \A n \in Nat : Slot(n) \in 0 .. Slots - 1
  BY <1>1, DivMod DEF Slot
<1>3. \A n \in Nat : Index(n) % Slots = Slot(n)
  BY SlotOfIndex, Zenon DEF Slot, Index
<1>4. \A n \in Nat : (Index(n) + 1) % Modulus = Index(n + 1)
  BY NextIndex, Zenon DEF Index
<1>5. \A m, n \in Nat : m <= n /\ n <= m + Slots => (Index(n) - Index(m)) % Modulus = n - m
  <2> SUFFICES ASSUME NEW m \in Nat, NEW n \in Nat, m <= n, n <= m + Slots
               PROVE  ((n % Modulus) - (m % Modulus)) % Modulus = n - m
    BY Zenon DEF Index
  <2>1. n < m + Modulus
    BY <1>1
  <2> QED BY <1>1, <2>1, Distance, Zenon
<1>6. \A m, n \in Nat : m < n /\ n <= m + Slots => Index(m) # Index(n)
  <2> SUFFICES ASSUME NEW m \in Nat, NEW n \in Nat, m < n, n <= m + Slots
               PROVE  m % Modulus # n % Modulus
    BY Zenon DEF Index
  <2>1. n < m + Modulus
    BY <1>1
  <2> QED BY <1>1, <2>1, Apart, Zenon
<1>7. \A m, n \in Nat : m < n /\ n < m + Slots => Slot(m) # Slot(n)
  <2> SUFFICES ASSUME NEW m \in Nat, NEW n \in Nat, m < n, n < m + Slots
               PROVE  m % Slots # n % Slots
    BY Zenon DEF Slot
  <2> QED BY <1>1, Apart, Zenon
<1> QED BY <1>1, <1>2, <1>3, <1>4, <1>5, <1>6, <1>7

-----------------------------------------------------------------------------
(* The steps.                                                              *)

\* The invariant with its counts.
Counted(R, W, P, T) == RingSizes /\ RingTypes /\ Ring(R, W, P, T)

\* A block in the ring has numbers.
LEMMA HeldTyped ==
  ASSUME RingSizes, RingTypes, NEW n \in Nat
  PROVE  Held(n) \in Block /\ Held(n).header \in Nat /\ Held(n).samples \in Nat
<1>1. Slot(n) \in 0 .. Slots - 1
  BY Wraps, Zenon
<1>2. Held(n) \in Block
  BY <1>1, Zenon DEF RingTypes, Held
<1> QED BY <1>2, Zenon DEF Block

\* Blocks that are not written stay.
LEMMA HeldSame ==
  ASSUME UNCHANGED blocks
  PROVE  \A n \in Nat : Held(n)' = Held(n)
  BY Zenon DEF Held

\* The last delivered number is a number, and stays with what was delivered.
LEMMA LastTyped ==
  ASSUME RingTypes
  PROVE  Last \in Nat
<1>1. encoded # <<>> => Len(encoded) \in DOMAIN encoded /\ encoded[Len(encoded)] \in Block
  BY DEF RingTypes
<1> QED BY <1>1, Zenon DEF Last, Block

\* receive keeps the counts: a new callback is later than every block.
LEMMA ReceiveKeeps ==
  ASSUME NEW R \in Nat, NEW W \in Nat, NEW P \in Nat, NEW T \in Nat,
         Counted(R, W, P, T), Tap!Receive
  PROVE  RingTypes' /\ Ring(R, W, P, T)'
<1>0. /\ RingSizes /\ RingTypes /\ Counts(R, W, P, T) /\ Contents(R, W) /\ Notices(R, W, T)
      /\ Given(R, W)
  BY Zenon DEF Counted, Ring
<1>1. /\ UNCHANGED <<readIndex, writeIndex, overruns, stopped, blocks, write, read, rejected,
                     Tap!consumer, ready>>
      /\ hal = "idle" /\ hal' \in {"idle", "push", "merge"} /\ callback' = callback + 1
  BY Zenon DEF Tap!Receive
<1>2. RingTypes'
  BY <1>0, <1>1 DEF RingTypes, Tap!consumer
<1>3. \A n \in Nat : Held(n)' = Held(n) /\ Held(n).header \in Nat
  BY <1>0, <1>1, HeldTyped, HeldSame, Zenon
<1>4. Counts(R, W, P, T)'
  BY <1>0, <1>1, Zenon DEF Counts, Tap!consumer
<1>5. callback \in Nat /\ rejected \in Nat /\ Last \in Nat
  BY <1>0, LastTyped, Zenon DEF RingTypes
<1>6. Contents(R, W)'
  BY <1>0, <1>1, <1>3, <1>5 DEF Contents, Busy, Tap!consumer
<1>7. Notices(R, W, T)'
  BY <1>0, <1>1, <1>3, <1>5 DEF Notices, Busy, Tap!consumer
<1>8. Given(R, W)'
  <2>1. WholeBlocksInOrder' /\ Last' = Last /\ tapOwner' = tapOwner
    BY <1>0, <1>1, Zenon DEF Given, WholeBlocksInOrder, Last, Tap!consumer
  <2> QED BY <1>0, <1>1, <1>3, <1>5, <2>1 DEF Given, Busy
<1> QED BY <1>2, <1>4, <1>6, <1>7, <1>8, Zenon DEF Ring

\* The load of the indexes keeps the counts: the producer now sees R blocks
\* taken.
LEMMA LoadKeeps ==
  ASSUME NEW R \in Nat, NEW W \in Nat, NEW P \in Nat, NEW T \in Nat, Counted(R, W, P, T), Tap!Load
  PROVE  RingTypes' /\ Ring(R, W, R, T)'
<1>0. /\ RingSizes /\ RingTypes /\ Counts(R, W, P, T) /\ Contents(R, W) /\ Notices(R, W, T)
      /\ Given(R, W)
  BY Zenon DEF Counted, Ring
<1> USE DEF Tap!Load, Tap!buffer, Tap!producer, Tap!consumer
<1>1. RingTypes'
  BY <1>0, Zenon DEF RingTypes, Block, Tap!Empty
<1>2. \A n \in Nat : Held(n)' = Held(n)
  BY HeldSame, Zenon
<1>3. Counts(R, W, R, T)'
  <2>1. /\ hal' \in {"merge", "room"}
        /\ hal' = "room" => write' = writeIndex /\ read' = readIndex
        /\ UNCHANGED <<readIndex, writeIndex, tapOwner, target>> /\ R <= R
    OBVIOUS
  <2> QED BY <1>0, <2>1, Zenon DEF Counts
<1>4. Contents(R, W)'
  BY <1>0, <1>2, Zenon DEF Counts, Contents, Busy
<1>5. Notices(R, W, T)'
  BY <1>0, <1>2, Zenon DEF Notices, Busy
<1>6. Given(R, W)'
  BY <1>0, <1>2, Zenon DEF Given, WholeBlocksInOrder, Last, Busy
<1> QED BY <1>1, <1>3, <1>4, <1>5, <1>6, Zenon DEF Ring

\* The look for room keeps the counts: what the producer saw taken is still
\* taken, so there is at least the room it found; a refused block is noted as
\* overrun.
LEMMA RoomKeeps ==
  ASSUME NEW R \in Nat, NEW W \in Nat, NEW P \in Nat, NEW T \in Nat, Counted(R, W, P, T), Tap!Room
  PROVE  RingTypes' /\ Ring(R, W, P, T)'
<1>0. /\ RingSizes /\ RingTypes /\ Counts(R, W, P, T) /\ Contents(R, W) /\ Notices(R, W, T)
      /\ Given(R, W)
  BY Zenon DEF Counted, Ring
<1>1. /\ UNCHANGED <<readIndex, writeIndex, failed, stopped, blocks, callback, write, read,
                     Tap!consumer, ready>>
      /\ hal = "room" /\ hal' \in {"merge", "header"}
      /\ hal' = "merge" => overruns' = overruns + 1 /\ rejected' = callback
      /\ hal' = "header" => overruns' = overruns /\ rejected' = rejected /\ ~Tap!Full
  BY Zenon DEF Tap!Room
<1>2. RingTypes'
  BY <1>0, <1>1 DEF RingTypes, Tap!consumer
<1>3. \A n \in Nat : Held(n)' = Held(n) /\ Held(n).header \in Nat
  BY <1>0, <1>1, HeldTyped, HeldSame, Zenon
<1>4. Counts(R, W, P, T)'
  <2>1. hal' = "header" => W < R + Slots
    <3>1. (Index(W) - Index(P)) % Modulus = W - P /\ P <= R /\ Slots \in Nat
      BY <1>0, <1>1, Wraps DEF Counts
    <3>2. Tap!Full <=> W - P >= Slots
      BY <1>0, <1>1, <3>1, Zenon DEF Tap!Full, Counts
    <3> QED BY <1>1, <3>1, <3>2
  <2> QED BY <1>0, <1>1, <2>1, Zenon DEF Counts, Tap!consumer
<1>5. /\ callback \in Nat /\ rejected \in Nat /\ noticed \in Nat /\ overruns \in Nat
      /\ UNCHANGED <<tapOwner, block, target, encoded, noticed>>
  BY <1>0, <1>1, Zenon DEF RingTypes, Tap!consumer
<1>6. Contents(R, W)'
  BY <1>0, <1>1, <1>3, <1>5, ZenonT(60) DEF Contents, Busy
<1>7. Notices(R, W, T)'
  BY <1>0, <1>1, <1>3, <1>5 DEF Notices, Busy
<1>8. Given(R, W)'
  BY <1>0, <1>1, <1>3, <1>5, Zenon DEF Given, WholeBlocksInOrder, Last, Busy
<1> QED BY <1>2, <1>4, <1>6, <1>7, <1>8, Zenon DEF Ring

\* Filling the header keeps the counts: the slot of W is none of R to W - 1.
LEMMA FillHeaderKeeps ==
  ASSUME NEW R \in Nat, NEW W \in Nat, NEW P \in Nat, NEW T \in Nat,
         Counted(R, W, P, T), Tap!FillHeader
  PROVE  RingTypes' /\ Ring(R, W, P, T)'
<1>0. /\ RingSizes /\ RingTypes /\ Counts(R, W, P, T) /\ Contents(R, W) /\ Notices(R, W, T)
      /\ Given(R, W)
  BY Zenon DEF Counted, Ring
<1>1. /\ UNCHANGED <<readIndex, writeIndex, overruns, stopped, callback, write, read,
                     rejected, tapOwner, handled, target, block, encoded, noticed>>
      /\ hal = "header" /\ hal' \in {"samples"}
      /\ blocks' = [blocks EXCEPT ![write % Slots].header = callback]
  BY Zenon DEF Tap!FillHeader, Tap!consumer
<1>2. /\ write % Slots = Slot(W) /\ W < R + Slots /\ Slot(W) \in 0 .. Slots - 1
      /\ callback \in Nat /\ rejected \in Nat /\ noticed \in Nat
  BY <1>0, <1>1, Wraps, Zenon DEF Counts, RingTypes
<1>3. RingTypes'
  <2>1. blocks' \in [0 .. Slots - 1 -> Block]
    BY <1>0, <1>1, <1>2, Zenon DEF RingTypes, Block
  <2> QED BY <1>0, <1>1, <2>1, Zenon DEF RingTypes
<1>4. \A n \in Nat : R <= n /\ n < W => Held(n)' = Held(n) /\ Held(n).header \in Nat
  <2> SUFFICES ASSUME NEW n \in Nat, R <= n, n < W PROVE Held(n)' = Held(n)
    BY <1>0, HeldTyped, Zenon
  <2>1. n < W /\ W < n + Slots /\ Slots \in Nat
    BY <1>0, <1>2, Wraps
  <2>2. Slot(n) # Slot(W) /\ Slot(n) \in 0 .. Slots - 1
    BY <1>0, <2>1, Wraps, Zenon
  <2> QED BY <1>0, <1>1, <1>2, <2>2, Zenon DEF Held, RingTypes
<1>5. Held(W)'.header = callback /\ Held(W)'.samples = Held(W).samples
  BY <1>0, <1>1, <1>2, Zenon DEF Held, RingTypes, Block
<1>6. Counts(R, W, P, T)'
  BY <1>0, <1>1, <1>2, Zenon DEF Counts
<1>7. Contents(R, W)'
  BY <1>0, <1>1, <1>2, <1>4, <1>5 DEF Counts, Contents, Busy
<1>8. Notices(R, W, T)'
  BY <1>0, <1>1, <1>2, <1>4 DEF Counts, Notices, Busy
<1>9. Given(R, W)'
  BY <1>0, <1>1, <1>2, <1>4, Zenon DEF Given, WholeBlocksInOrder, Last, Busy
<1> QED BY <1>3, <1>6, <1>7, <1>8, <1>9, Zenon DEF Ring

\* Filling the samples keeps the counts, likewise.
LEMMA FillSamplesKeeps ==
  ASSUME NEW R \in Nat, NEW W \in Nat, NEW P \in Nat, NEW T \in Nat,
         Counted(R, W, P, T), Tap!FillSamples
  PROVE  RingTypes' /\ Ring(R, W, P, T)'
<1>0. /\ RingSizes /\ RingTypes /\ Counts(R, W, P, T) /\ Contents(R, W) /\ Notices(R, W, T)
      /\ Given(R, W)
  BY Zenon DEF Counted, Ring
<1>1. /\ UNCHANGED <<readIndex, writeIndex, overruns, stopped, callback, write, read,
                     rejected, tapOwner, handled, target, block, encoded, noticed>>
      /\ hal = "samples" /\ hal' \in {"publish", "merge"}
      /\ blocks' = [blocks EXCEPT ![write % Slots].samples = callback]
  BY Zenon DEF Tap!FillSamples, Tap!consumer
<1>2. /\ write % Slots = Slot(W) /\ W < R + Slots /\ Slot(W) \in 0 .. Slots - 1
      /\ callback \in Nat /\ rejected \in Nat /\ noticed \in Nat
  BY <1>0, <1>1, Wraps, Zenon DEF Counts, RingTypes
<1>3. RingTypes'
  <2>1. blocks' \in [0 .. Slots - 1 -> Block]
    BY <1>0, <1>1, <1>2, Zenon DEF RingTypes, Block
  <2> QED BY <1>0, <1>1, <2>1, Zenon DEF RingTypes
<1>4. \A n \in Nat : R <= n /\ n < W => Held(n)' = Held(n) /\ Held(n).header \in Nat
  <2> SUFFICES ASSUME NEW n \in Nat, R <= n, n < W PROVE Held(n)' = Held(n)
    BY <1>0, HeldTyped, Zenon
  <2>1. n < W /\ W < n + Slots /\ Slots \in Nat
    BY <1>0, <1>2, Wraps
  <2>2. Slot(n) # Slot(W) /\ Slot(n) \in 0 .. Slots - 1
    BY <1>0, <2>1, Wraps, Zenon
  <2> QED BY <1>0, <1>1, <1>2, <2>2, ZenonT(60) DEF Held, RingTypes
<1>5. Held(W)'.samples = callback /\ Held(W)'.header = Held(W).header
  BY <1>0, <1>1, <1>2, Zenon DEF Held, RingTypes, Block
<1>6. Counts(R, W, P, T)'
  BY <1>0, <1>1, <1>2, Zenon DEF Counts
<1>7. Contents(R, W)'
  BY <1>0, <1>1, <1>2, <1>4, <1>5 DEF Counts, Contents, Busy
<1>8. Notices(R, W, T)'
  BY <1>0, <1>1, <1>2, <1>4 DEF Counts, Notices, Busy
<1>9. Given(R, W)'
  BY <1>0, <1>1, <1>2, <1>4, Zenon DEF Given, WholeBlocksInOrder, Last, Busy
<1> QED BY <1>3, <1>6, <1>7, <1>8, <1>9, Zenon DEF Ring

\* Publishing adds a whole block, later than the others.
LEMMA PublishKeeps ==
  ASSUME NEW R \in Nat, NEW W \in Nat, NEW P \in Nat, NEW T \in Nat,
         Counted(R, W, P, T), Tap!Publish
  PROVE  RingTypes' /\ Ring(R, W + 1, P, T)'
<1>0. /\ RingSizes /\ RingTypes /\ Counts(R, W, P, T) /\ Contents(R, W) /\ Notices(R, W, T)
      /\ Given(R, W)
  BY Zenon DEF Counted, Ring
<1>1. /\ UNCHANGED <<readIndex, overruns, stopped, blocks, callback, write, read, rejected,
                     tapOwner, handled, target, block, encoded, noticed>>
      /\ hal = "publish" /\ hal' = "merge" /\ writeIndex' = (write + 1) % Modulus
  BY Zenon DEF Tap!Publish, Tap!consumer
<1>2. RingTypes'
  BY <1>0, <1>1, Zenon DEF RingTypes
<1>3. \A n \in Nat : Held(n)' = Held(n) /\ Held(n).header \in Nat
  BY <1>0, <1>1, HeldTyped, HeldSame, Zenon
<1>4. /\ write = Index(W) /\ W < R + Slots /\ (Index(W) + 1) % Modulus = Index(W + 1)
      /\ callback \in Nat /\ rejected \in Nat /\ noticed \in Nat /\ Last \in Nat /\ Slots \in Nat
      /\ Held(W).header = callback /\ Held(W).samples = callback /\ R <= W
  BY <1>0, <1>1, Wraps, LastTyped, Zenon DEF Counts, RingTypes, Contents
<1>5. Counts(R, W + 1, P, T)'
  BY <1>0, <1>1, <1>4 DEF Counts
<1>6. \A n \in Nat : n < W + 1 => n < W \/ n = W
  OBVIOUS
<1>7. Contents(R, W + 1)'
  <2>1. \A n \in Nat : R <= n /\ n < W + 1 =>
           Held(n).header = Held(n).samples /\ Held(n).header <= callback
    BY <1>0, <1>4, <1>6 DEF Contents
  <2>2. \A m, n \in Nat : R <= m /\ m < n /\ n < W + 1 => Held(m).header < Held(n).header
    BY <1>0, <1>1, <1>4, <1>6, ZenonT(60) DEF Contents, Busy
  <2> QED BY <1>0, <1>1, <1>3, <2>1, <2>2, Zenon DEF Contents, Busy
<1>8. Notices(R, W + 1, T)'
  BY <1>0, <1>1, <1>3, <1>4, <1>6 DEF Notices, Busy
<1>9. Given(R, W + 1)'
  <2>1. WholeBlocksInOrder' /\ Last' = Last
    BY <1>0, <1>1, Zenon DEF Given, WholeBlocksInOrder, Last
  <2> QED BY <1>0, <1>1, <1>3, <1>4, <1>6, <2>1, Zenon DEF Given, Busy
<1> QED BY <1>2, <1>5, <1>7, <1>8, <1>9, Zenon DEF Ring

\* dispatch_source_merge_data keeps the counts.
LEMMA MergeKeeps ==
  ASSUME NEW R \in Nat, NEW W \in Nat, NEW P \in Nat, NEW T \in Nat, Counted(R, W, P, T), Tap!Merge
  PROVE  RingTypes' /\ Ring(R, W, P, T)'
<1>0. /\ RingSizes /\ RingTypes /\ Counts(R, W, P, T) /\ Contents(R, W) /\ Notices(R, W, T)
      /\ Given(R, W)
  BY Zenon DEF Counted, Ring
<1> USE DEF Tap!Merge, Tap!buffer, Tap!producer, Tap!consumer
<1>1. RingTypes'
  BY <1>0, Zenon DEF RingTypes, Block, Tap!Empty
<1>2. \A n \in Nat : Held(n)' = Held(n)
  BY HeldSame, Zenon
<1>3. Counts(R, W, P, T)'
  BY <1>0, Zenon DEF RingTypes, Counts
<1>4. Contents(R, W)'
  BY <1>0, <1>2, Zenon DEF Counts, Contents, Busy
<1>5. Notices(R, W, T)'
  BY <1>0, <1>2, Zenon DEF Notices, Busy
<1>6. Given(R, W)'
  BY <1>0, <1>2, Zenon DEF Given, WholeBlocksInOrder, Last, Busy
<1> QED BY <1>1, <1>3, <1>4, <1>5, <1>6, Zenon DEF Ring

\* The beginning of tapOwner keeps the counts.
LEMMA DrainKeeps ==
  ASSUME NEW R \in Nat, NEW W \in Nat, NEW P \in Nat, NEW T \in Nat, Counted(R, W, P, T), Tap!Drain
  PROVE  RingTypes' /\ Ring(R, W, P, T)'
<1>0. /\ RingSizes /\ RingTypes /\ Counts(R, W, P, T) /\ Contents(R, W) /\ Notices(R, W, T)
      /\ Given(R, W)
  BY Zenon DEF Counted, Ring
<1> USE DEF Tap!Drain, Tap!buffer, Tap!producer, Tap!consumer
<1>1. RingTypes'
  BY <1>0, Zenon DEF RingTypes, Block, Tap!Empty
<1>2. \A n \in Nat : Held(n)' = Held(n)
  BY HeldSame, Zenon
<1>3. Counts(R, W, P, T)'
  BY <1>0, Zenon DEF RingTypes, Counts
<1>4. Contents(R, W)'
  BY <1>0, <1>2, Zenon DEF Counts, Contents, Busy
<1>5. Notices(R, W, T)'
  BY <1>0, <1>2, Zenon DEF Notices, Busy
<1>6. Given(R, W)'
  BY <1>0, <1>2, Zenon DEF Given, WholeBlocksInOrder, Last, Busy
<1> QED BY <1>1, <1>3, <1>4, <1>5, <1>6, Zenon DEF Ring

\* Taking the overruns keeps the counts: with none since the last look nothing
\* is new.
LEMMA ExchangeKeeps ==
  ASSUME NEW R \in Nat, NEW W \in Nat, NEW P \in Nat, NEW T \in Nat,
         Counted(R, W, P, T), Tap!Exchange
  PROVE  RingTypes' /\ Ring(R, W, P, T)'
<1>0. /\ RingSizes /\ RingTypes /\ Counts(R, W, P, T) /\ Contents(R, W) /\ Notices(R, W, T)
      /\ Given(R, W)
  BY Zenon DEF Counted, Ring
<1>1. /\ UNCHANGED <<readIndex, writeIndex, blocks, hal, callback, write, read, rejected,
                     target, block, encoded>>
      /\ overruns' = 0 /\ noticed' = rejected /\ tapOwner = "exchange"
      /\ tapOwner' = IF overruns > 0 THEN "discard" ELSE "peek"
  BY Zenon DEF Tap!Exchange, Tap!producer
<1>2. RingTypes'
  BY <1>0, <1>1, Zenon DEF RingTypes
<1>3. \A n \in Nat : Held(n)' = Held(n)
  BY <1>1, HeldSame, Zenon
<1>4. Counts(R, W, P, T)'
  BY <1>0, <1>1, Zenon DEF Counts
<1>5. Contents(R, W)'
  BY <1>0, <1>1, <1>3, Zenon DEF Contents, Busy
<1>6. Notices(R, W, T)'
  <2>1. rejected \in Nat /\ overruns \in Nat
    BY <1>0, Zenon DEF RingTypes
  <2>2. tapOwner' = "peek" => noticed' = noticed
    BY <1>0, <1>1, <2>1 DEF Notices
  <2> QED BY <1>0, <1>1, <1>3, <2>1, <2>2 DEF Notices, Busy
<1>7. Given(R, W)'
  BY <1>0, <1>1, <1>3, Zenon DEF Given, WholeBlocksInOrder, Last, Busy
<1> QED BY <1>2, <1>4, <1>5, <1>6, <1>7, Zenon DEF Ring

\* A discard aims at all that is published.
LEMMA LoadBacklogKeeps ==
  ASSUME NEW R \in Nat, NEW W \in Nat, NEW P \in Nat, NEW T \in Nat,
         Counted(R, W, P, T), Tap!LoadBacklog
  PROVE  RingTypes' /\ Ring(R, W, P, W)'
<1>0. /\ RingSizes /\ RingTypes /\ Counts(R, W, P, T) /\ Contents(R, W) /\ Notices(R, W, T)
      /\ Given(R, W)
  BY Zenon DEF Counted, Ring
<1> USE DEF Tap!Backlog, Tap!LoadBacklog, Tap!buffer, Tap!producer, Tap!consumer
<1>1. RingTypes'
  BY <1>0, Zenon DEF RingTypes, Block, Tap!Empty
<1>2. \A n \in Nat : Held(n)' = Held(n)
  BY HeldSame, Zenon
<1>3. Counts(R, W, P, W)'
  BY <1>0 DEF RingTypes, Counts
<1>4. Contents(R, W)'
  BY <1>0, <1>2, Zenon DEF Counts, Contents, Busy
<1>5. Notices(R, W, W)'
  BY <1>0, <1>2 DEF Notices, Busy
<1>6. Given(R, W)'
  BY <1>0, <1>2, Zenon DEF Given, WholeBlocksInOrder, Last, Busy
<1> QED BY <1>1, <1>3, <1>4, <1>5, <1>6, Zenon DEF Ring

\* A discard takes what it aimed at; what was published meanwhile is later than
\* the overrun.
LEMMA SkipBacklogKeeps ==
  ASSUME NEW R \in Nat, NEW W \in Nat, NEW P \in Nat, NEW T \in Nat,
         Counted(R, W, P, T), Tap!SkipBacklog
  PROVE  RingTypes' /\ Ring(T, W, P, T)'
<1>0. /\ RingSizes /\ RingTypes /\ Counts(R, W, P, T) /\ Contents(R, W) /\ Notices(R, W, T)
      /\ Given(R, W)
  BY Zenon DEF Counted, Ring
<1>1. /\ UNCHANGED <<writeIndex, overruns, blocks, hal, callback, write, read, rejected,
                     target, block, encoded, noticed>>
      /\ tapOwner = "skip" /\ tapOwner' = "peek" /\ readIndex' = target
  BY Zenon DEF Tap!SkipBacklog, Tap!producer
<1>2. RingTypes'
  BY <1>0, <1>1, Zenon DEF RingTypes
<1>3. \A n \in Nat : Held(n)' = Held(n) /\ Held(n).header \in Nat
  BY <1>0, <1>1, HeldTyped, HeldSame, Zenon
<1>4. R <= T /\ T <= W /\ T \in Nat /\ Slots \in Nat /\ readIndex' = Index(T)
  BY <1>0, <1>1, Wraps, Zenon DEF Counts
<1>5. \A n \in Nat : T <= n => R <= n
  BY <1>4
<1>6. Counts(T, W, P, T)'
  BY <1>0, <1>1, <1>4 DEF Counts, RingTypes
<1>7. Contents(T, W)'
  BY <1>0, <1>1, <1>3, <1>5, Zenon DEF Contents, Busy
<1>8. Notices(T, W, T)'
  BY <1>0, <1>1, <1>3, <1>5, Zenon DEF Notices, Busy
<1>9. Given(T, W)'
  <2>1. WholeBlocksInOrder' /\ Last' = Last
    BY <1>0, <1>1, Zenon DEF Given, WholeBlocksInOrder, Last
  <2> QED BY <1>0, <1>1, <1>3, <1>5, <2>1, Zenon DEF Given, Busy
<1> QED BY <1>2, <1>6, <1>7, <1>8, <1>9, Zenon DEF Ring

\* PLANKTapPeek keeps the counts: equal indexes are equal counts.
LEMMA PeekKeeps ==
  ASSUME NEW R \in Nat, NEW W \in Nat, NEW P \in Nat, NEW T \in Nat, Counted(R, W, P, T), Tap!Peek
  PROVE  RingTypes' /\ Ring(R, W, P, T)'
<1>0. /\ RingSizes /\ RingTypes /\ Counts(R, W, P, T) /\ Contents(R, W) /\ Notices(R, W, T)
      /\ Given(R, W)
  BY Zenon DEF Counted, Ring
<1> USE DEF Tap!Peek, Tap!buffer, Tap!producer, Tap!consumer
<1>1. RingTypes'
  BY <1>0, Zenon DEF RingTypes, Block, Tap!Empty
<1>2. \A n \in Nat : Held(n)' = Held(n)
  BY HeldSame, ZenonT(60)
<1>3. Counts(R, W, P, T)'
  BY <1>0, Wraps DEF RingTypes, Counts
<1>4. Contents(R, W)'
  BY <1>0, <1>2, Zenon DEF Counts, Contents, Busy
<1>5. Notices(R, W, T)'
  BY <1>0, <1>2, Zenon DEF Notices, Busy
<1>6. Given(R, W)'
  BY <1>0, <1>2, Zenon DEF Given, WholeBlocksInOrder, Last, Busy
<1> QED BY <1>1, <1>3, <1>4, <1>5, <1>6, Zenon DEF Ring

\* The header is read from the first block.
LEMMA ReadHeaderKeeps ==
  ASSUME NEW R \in Nat, NEW W \in Nat, NEW P \in Nat, NEW T \in Nat,
         Counted(R, W, P, T), Tap!ReadHeader
  PROVE  RingTypes' /\ Ring(R, W, P, T)'
<1>0. /\ RingSizes /\ RingTypes /\ Counts(R, W, P, T) /\ Contents(R, W) /\ Notices(R, W, T)
      /\ Given(R, W)
  BY Zenon DEF Counted, Ring
<1>1. /\ UNCHANGED <<readIndex, writeIndex, overruns, blocks, hal, callback, write, read,
                     rejected, target, encoded, noticed>>
      /\ tapOwner = "header" /\ tapOwner' = "samples"
      /\ block' = [block EXCEPT !.header = blocks[readIndex % Slots].header]
  BY Zenon DEF Tap!ReadHeader, Tap!producer, Tap!buffer
<1>2. blocks[readIndex % Slots] = Held(R)
  BY <1>0, Wraps, Zenon DEF Counts, Held
<1>3. block' \in Block /\ block'.header = Held(R).header
  BY <1>0, <1>1, <1>2, HeldTyped, Zenon DEF RingTypes, Block
<1>4. RingTypes'
  BY <1>0, <1>1, <1>3, Zenon DEF RingTypes
<1>5. \A n \in Nat : Held(n)' = Held(n)
  BY <1>1, HeldSame, Zenon
<1>6. Counts(R, W, P, T)'
  BY <1>0, <1>1, Zenon DEF Counts
<1>7. Contents(R, W)'
  BY <1>0, <1>1, <1>3, <1>5, Zenon DEF Contents, Busy
<1>8. Notices(R, W, T)'
  BY <1>0, <1>1, <1>5, Zenon DEF Notices, Busy
<1>9. Given(R, W)'
  BY <1>0, <1>1, <1>5, Zenon DEF Given, WholeBlocksInOrder, Last, Busy
<1> QED BY <1>4, <1>6, <1>7, <1>8, <1>9, Zenon DEF Ring

\* The samples are of the same block, since nobody wrote its slot; it is
\* delivered whole and later than all before.
LEMMA ReadSamplesKeeps ==
  ASSUME NEW R \in Nat, NEW W \in Nat, NEW P \in Nat, NEW T \in Nat,
         Counted(R, W, P, T), Tap!ReadSamples
  PROVE  RingTypes' /\ Ring(R, W, P, T)'
<1>0. /\ RingSizes /\ RingTypes /\ Counts(R, W, P, T) /\ Contents(R, W) /\ Notices(R, W, T)
      /\ Given(R, W)
  BY Zenon DEF Counted, Ring
<1>1. /\ UNCHANGED <<readIndex, writeIndex, overruns, blocks, hal, callback, write, read,
                     rejected, target, noticed>>
      /\ tapOwner = "samples" /\ tapOwner' \in {"pop", "refused"}
      /\ block' = [block EXCEPT !.samples = blocks[readIndex % Slots].samples]
      /\ tapOwner' = "pop" => encoded' = Append(encoded, block')
      /\ tapOwner' = "refused" => encoded' = encoded
  BY Zenon DEF Tap!ReadSamples, Tap!producer
<1>2. blocks[readIndex % Slots] = Held(R) /\ R < W
  BY <1>0, <1>1, Wraps, Zenon DEF Counts, Held
<1>3. /\ block' \in Block /\ block'.header = Held(R).header /\ block'.samples = Held(R).samples
      /\ block'.header \in Nat
  BY <1>0, <1>1, <1>2, HeldTyped, Zenon DEF RingTypes, Block, Contents
<1>4. RingTypes'
  <2>1. encoded \in Seq(Block)
    BY <1>0, Zenon DEF RingTypes
  <2>2. Append(encoded, block') \in Seq(Block)
    BY <1>3, <2>1
  <2>3. encoded' \in Seq(Block)
    BY <1>1, <2>1, <2>2, Zenon
  <2> QED BY <1>0, <1>1, <1>3, <2>3, Zenon DEF RingTypes
<1>5. \A n \in Nat : Held(n)' = Held(n)
  BY <1>1, HeldSame, Zenon
<1>6. Counts(R, W, P, T)'
  BY <1>0, <1>1, <1>2, Zenon DEF Counts
<1>7. Contents(R, W)'
  BY <1>0, <1>1, <1>5, Zenon DEF Contents, Busy
<1>8. Notices(R, W, T)'
  BY <1>0, <1>1, <1>5, Zenon DEF Notices, Busy
<1>9. Given(R, W)'
  <2>1. CASE tapOwner' = "refused"
    BY <1>0, <1>1, <1>5, <2>1, Zenon DEF Given, WholeBlocksInOrder, Last, Busy
  <2>2. CASE tapOwner' = "pop"
    <3>1. /\ Held(R).header = Held(R).samples /\ Held(R).header <= callback /\ Last < Held(R).header
          /\ Busy => Held(R).header < callback
      BY <1>0, <1>1, <1>2 DEF Contents, Given
    <3>2. /\ Len(encoded) \in Nat /\ Len(encoded') = Len(encoded) + 1
          /\ DOMAIN encoded' = 1 .. Len(encoded) + 1 /\ DOMAIN encoded = 1 .. Len(encoded)
          /\ encoded'[Len(encoded) + 1] = block' /\ encoded' # <<>>
          /\ \A i \in DOMAIN encoded : encoded'[i] = encoded[i]
      <4>1. encoded \in Seq(Block) /\ encoded' = Append(encoded, block')
        BY <1>0, <1>1, <2>2, Zenon DEF RingTypes
      <4> QED BY <1>3, <4>1, SMTT(60)
    <3>3. Last' = Held(R).header
      BY <1>3, <3>2, Zenon DEF Last
    <3>4. Len(encoded) > 0 => Last = encoded[Len(encoded)].header
      BY <3>2, SMTT(60) DEF Last
    <3>5. WholeBlocksInOrder'
      BY <1>0, <1>3, <3>1, <3>2, <3>4, SMTT(60)
         DEF Given, WholeBlocksInOrder
    <3>6. \A n \in Nat : R <= n /\ n < W /\ n # R => Held(R).header < Held(n).header
      BY <1>0 DEF Contents
    <3> QED BY <1>0, <1>1, <1>5, <2>2, <3>1, <3>3, <3>5, <3>6, Zenon DEF Given, Busy
  <2> QED BY <1>1, <2>1, <2>2, Zenon
<1> QED BY <1>4, <1>6, <1>7, <1>8, <1>9, Zenon DEF Ring

\* PLANKTapPop takes the first block.
LEMMA PopKeeps ==
  ASSUME NEW R \in Nat, NEW W \in Nat, NEW P \in Nat, NEW T \in Nat, Counted(R, W, P, T), Tap!Pop
  PROVE  RingTypes' /\ Ring(R + 1, W, P, T)'
<1>0. /\ RingSizes /\ RingTypes /\ Counts(R, W, P, T) /\ Contents(R, W) /\ Notices(R, W, T)
      /\ Given(R, W)
  BY Zenon DEF Counted, Ring
<1>1. /\ UNCHANGED <<writeIndex, overruns, blocks, hal, callback, write, read, rejected,
                     target, block, encoded, noticed>>
      /\ tapOwner \in {"pop", "refused"} /\ tapOwner' \in {"idle", "exchange", "tail"}
      /\ readIndex' = (readIndex + 1) % Modulus
  BY Zenon DEF Tap!Pop, Tap!producer
<1>2. RingTypes'
  BY <1>0, <1>1, Zenon DEF RingTypes
<1>3. \A n \in Nat : Held(n)' = Held(n) /\ Held(n).header \in Nat
  BY <1>0, <1>1, HeldTyped, HeldSame, Zenon
<1>4. R <= R + 1 /\ R + 1 <= W /\ R + 1 \in Nat /\ Slots \in Nat /\ readIndex' = Index(R + 1)
  BY <1>0, <1>1, Wraps DEF Counts
<1>5. \A n \in Nat : R + 1 <= n => R <= n /\ n # R
  BY <1>4
<1>6. Counts(R + 1, W, P, T)'
  BY <1>0, <1>1, <1>4, SMTT(60) DEF Counts, RingTypes
<1>7. Contents(R + 1, W)'
  BY <1>0, <1>1, <1>3, <1>5, Zenon DEF Contents, Busy
<1>8. Notices(R + 1, W, T)'
  BY <1>0, <1>1, <1>3, <1>5, Zenon DEF Notices, Busy
<1>9. Given(R + 1, W)'
  <2>1. WholeBlocksInOrder' /\ Last' = Last
    BY <1>0, <1>1, Zenon DEF Given, WholeBlocksInOrder, Last
  <2> QED BY <1>0, <1>1, <1>3, <1>5, <2>1, Zenon DEF Given, Busy
<1> QED BY <1>2, <1>6, <1>7, <1>8, <1>9, Zenon DEF Ring

\* The end of a turn keeps the counts.
LEMMA TurnEndsKeeps ==
  ASSUME NEW R \in Nat, NEW W \in Nat, NEW P \in Nat, NEW T \in Nat,
         Counted(R, W, P, T), Tap!TurnEnds
  PROVE  RingTypes' /\ Ring(R, W, P, T)'
<1>0. /\ RingSizes /\ RingTypes /\ Counts(R, W, P, T) /\ Contents(R, W) /\ Notices(R, W, T)
      /\ Given(R, W)
  BY Zenon DEF Counted, Ring
<1> USE DEF Tap!TurnEnds, Tap!buffer, Tap!producer, Tap!consumer
<1>1. RingTypes'
  BY <1>0, Zenon DEF RingTypes, Block, Tap!Empty
<1>2. \A n \in Nat : Held(n)' = Held(n)
  BY HeldSame, Zenon
<1>3. Counts(R, W, P, T)'
  BY <1>0, Zenon DEF RingTypes, Counts
<1>4. Contents(R, W)'
  BY <1>0, <1>2, Zenon DEF Counts, Contents, Busy
<1>5. Notices(R, W, T)'
  BY <1>0, <1>2, Zenon DEF Notices, Busy
<1>6. Given(R, W)'
  BY <1>0, <1>2, Zenon DEF Given, WholeBlocksInOrder, Last, Busy
<1> QED BY <1>1, <1>3, <1>4, <1>5, <1>6, Zenon DEF Ring

\* stopWithCompletion keeps the counts.
LEMMA StopTapKeeps ==
  ASSUME NEW R \in Nat, NEW W \in Nat, NEW P \in Nat, NEW T \in Nat,
         Counted(R, W, P, T), Tap!StopTap
  PROVE  RingTypes' /\ Ring(R, W, P, T)'
<1>0. /\ RingSizes /\ RingTypes /\ Counts(R, W, P, T) /\ Contents(R, W) /\ Notices(R, W, T)
      /\ Given(R, W)
  BY Zenon DEF Counted, Ring
<1> USE DEF Tap!StopTap, Tap!buffer, Tap!producer, Tap!consumer
<1>1. RingTypes'
  BY <1>0, Zenon DEF RingTypes, Block, Tap!Empty
<1>2. \A n \in Nat : Held(n)' = Held(n)
  BY HeldSame, Zenon
<1>3. Counts(R, W, P, T)'
  BY <1>0, Zenon DEF RingTypes, Counts
<1>4. Contents(R, W)'
  BY <1>0, <1>2, Zenon DEF Counts, Contents, Busy
<1>5. Notices(R, W, T)'
  BY <1>0, <1>2, Zenon DEF Notices, Busy
<1>6. Given(R, W)'
  BY <1>0, <1>2, Zenon DEF Given, WholeBlocksInOrder, Last, Busy
<1> QED BY <1>1, <1>3, <1>4, <1>5, <1>6, Zenon DEF Ring

-----------------------------------------------------------------------------
(* The theorems.                                                           *)

\* The invariant holds in the beginning.
LEMMA RingStarts ==
  ASSUME RingSizes, Tap!Init
  PROVE  RingInv
<1>1. Slots \in Nat /\ Slots > 0 /\ Modulus \in Int /\ Modulus > 0
  BY Wraps, Sizes
<1>2. Index(0) = 0
  <2>1. 0 = Modulus * 0 + 0 /\ 0 \in 0 .. Modulus - 1
    BY <1>1
  <2> QED BY <1>1, <2>1, ModUnique DEF Index
<1>3. /\ hal = "idle" /\ tapOwner = "idle" /\ callback = 0 /\ rejected = 0 /\ noticed = 0
      /\ overruns = 0 /\ block = Tap!Empty /\ blocks = [s \in 0 .. Slots - 1 |-> Tap!Empty]
      /\ encoded = <<>> /\ readIndex = 0 /\ writeIndex = 0
  BY Zenon DEF Tap!Init
<1>4. RingTypes
  <2>1. Tap!Empty \in Block /\ <<>> \in Seq(Block)
    BY DEF Tap!Empty, Block
  <2> QED BY <1>3, <2>1, Zenon DEF RingTypes
<1>5. Counts(0, 0, 0, 0)
  BY <1>1, <1>2, <1>3 DEF Counts
<1>6. Contents(0, 0) /\ Notices(0, 0, 0)
  BY <1>3 DEF Contents, Notices, Busy
<1>7. Given(0, 0)
  BY <1>3 DEF Given, WholeBlocksInOrder, Last, Busy
<1>8. Ring(0, 0, 0, 0)
  BY <1>5, <1>6, <1>7, Zenon DEF Ring
<1> QED BY <1>4, <1>8, Zenon DEF RingInv

\* Every step keeps the invariant.
LEMMA RingSteps ==
  ASSUME RingSizes, RingInv, [Tap!Next]_(Tap!vars)
  PROVE  RingInv'
<1>1. PICK R \in Nat, W \in Nat, P \in Nat, T \in Nat : Ring(R, W, P, T)
  BY Zenon DEF RingInv
<1>2. Counted(R, W, P, T)
  BY <1>1, Zenon DEF RingInv, Counted
<1> SUFFICES RingTypes' /\ \E r, w, p, t \in Nat : Ring(r, w, p, t)'
  BY Zenon DEF RingInv
<1>3. CASE Tap!Receive
  BY <1>2, <1>3, ReceiveKeeps
<1>4. CASE Tap!Load
  BY <1>2, <1>4, LoadKeeps, ZenonT(60)
<1>5. CASE Tap!Room
  BY <1>2, <1>5, RoomKeeps
<1>6. CASE Tap!FillHeader
  BY <1>2, <1>6, FillHeaderKeeps
<1>7. CASE Tap!FillSamples
  BY <1>2, <1>7, FillSamplesKeeps
<1>8. CASE Tap!Publish
  BY <1>2, <1>8, PublishKeeps
<1>9. CASE Tap!Merge
  BY <1>2, <1>9, MergeKeeps
<1>10. CASE Tap!Drain
  BY <1>2, <1>10, DrainKeeps
<1>11. CASE Tap!Exchange
  BY <1>2, <1>11, ExchangeKeeps
<1>12. CASE Tap!LoadBacklog
  BY <1>2, <1>12, LoadBacklogKeeps, ZenonT(60)
<1>13. CASE Tap!SkipBacklog
  BY <1>2, <1>13, SkipBacklogKeeps
<1>14. CASE Tap!Peek
  BY <1>2, <1>14, PeekKeeps
<1>15. CASE Tap!ReadHeader
  BY <1>2, <1>15, ReadHeaderKeeps
<1>16. CASE Tap!ReadSamples
  BY <1>2, <1>16, ReadSamplesKeeps
<1>17. CASE Tap!Pop
  BY <1>2, <1>17, PopKeeps
<1>18. CASE Tap!TurnEnds
  BY <1>2, <1>18, TurnEndsKeeps
<1>19. CASE Tap!StopTap
  BY <1>2, <1>19, StopTapKeeps
<1>20. CASE UNCHANGED Tap!vars
  <2>1. RingTypes'
    BY <1>20, Zenon DEF RingInv, RingTypes, Tap!vars, Tap!buffer, Tap!producer, Tap!consumer
  <2>2. Counts(R, W, P, T)'
    BY <1>1, <1>20, Zenon
       DEF Ring, Counts, Tap!vars, Tap!buffer, Tap!producer, Tap!consumer
  <2>3. Contents(R, W)' /\ Notices(R, W, T)'
    BY <1>1, <1>20, Zenon
       DEF Ring, Contents, Notices, Held, Busy, Tap!vars, Tap!buffer, Tap!producer,
          Tap!consumer
  <2>4. Given(R, W)'
    BY <1>1, <1>20, Zenon
       DEF Ring, Given, WholeBlocksInOrder, Last, Held, Busy, Tap!vars, Tap!buffer,
          Tap!producer,
                     Tap!consumer
  <2> QED BY <2>1, <2>2, <2>3, <2>4, Zenon DEF Ring
<1> QED BY <1>3, <1>4, <1>5, <1>6, <1>7, <1>8, <1>9, <1>10, <1>11, <1>12,
       <1>13, <1>14, <1>15, <1>16, <1>17, <1>18, <1>19, <1>20, ZenonT(60)
    DEF Tap!Next, Tap!ProducerStep, Tap!ConsumerStep

\* RingInv is an invariant of the ring.
THEOREM RingInvariant == RingSizes => (Tap!Spec => []RingInv)
<1> SUFFICES ASSUME RingSizes PROVE Tap!Spec => []RingInv
  BY Zenon
<1>1. Tap!Init => RingInv
  BY RingStarts, Zenon
<1>2. RingInv /\ [Tap!Next]_(Tap!vars) => RingInv'
  BY RingSteps, Zenon
<1> QED BY <1>1, <1>2, PTL DEF Tap!Spec

\* The encoder gets whole blocks, each at most once and in the order they came
\* (PLANKTapPush, PLANKTapPeek and PLANKTapPop), for every number of slots and
\* across every wrap.
THEOREM BlocksAreWhole == RingSizes => (Tap!Spec => []WholeBlocksInOrder)
<1>1. RingInv => WholeBlocksInOrder
  BY Zenon DEF RingInv, Ring, Given
<1> QED BY <1>1, RingInvariant, PTL

\* Once tapOwner has noticed a refused block it reads nothing that came before it
\* (PLANKTapDiscardOverrun).
THEOREM OverrunIsDropped == RingSizes => (Tap!Spec => []BacklogDropped)
<1> SUFFICES ASSUME RingSizes PROVE Tap!Spec => []BacklogDropped
  BY Zenon
<1>1. RingInv => BacklogDropped
  <2> SUFFICES ASSUME RingInv, tapOwner = "samples" PROVE block.header > noticed
    BY Zenon DEF BacklogDropped
  <2>1. PICK R \in Nat, W \in Nat, P \in Nat, T \in Nat : Ring(R, W, P, T)
    BY ZenonT(60) DEF RingInv
  <2>2. R < W /\ block.header = Held(R).header /\ noticed < Held(R).header
    BY <2>1 DEF Ring, Counts, Contents, Notices
  <2>3. Held(R).header \in Nat /\ noticed \in Nat
    BY HeldTyped, Zenon DEF RingInv, RingTypes
  <2> QED BY <2>2, <2>3, Zenon
<1>2. Tap!Spec => []RingInv
  BY RingInvariant, Zenon
<1> QED BY <1>1, <1>2, PTL

\* Both together, RingDelivers: what the encoder gets across wraps and overruns
\* (receive and tapOwner of audio-tap.m over audio-tap-buffer.h).
THEOREM TapDelivers == RingSizes => (Tap!Spec => []RingDelivers)
<1>1. WholeBlocksInOrder /\ BacklogDropped => RingDelivers
  BY Zenon DEF RingDelivers
<1> QED BY <1>1, BlocksAreWhole, OverrunIsDropped, PTL

=============================================================================
