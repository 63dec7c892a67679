---------------------------- MODULE NativeEndpoint ----------------------------
(***************************************************************************)
(* One native QUIC endpoint (native_ffi.rs): its owner, its worker thread, *)
(* one receive lane and the thread that is blocked in its receive call.    *)
(***************************************************************************)
EXTENDS NativeWorker, NativeReceive

vars == <<config, state, stop, phase, owner, parked, granted, permit, heard,
          lane, queue, arrived, drops, receiver, delivered, outcome>>

Init == WorkerInit /\ ReceiveInit

WorkerStep ==
  /\ \/ Connect
     \/ \E g \in Gates : GateLoad(g) \/ GateArm(g) \/ GateWoken(g)
     \/ StopSeen
     \/ ConnectionLost
     \/ Promote
     \/ Drain
     \/ FinishWorker
     \/ Fail
  /\ UNCHANGED laneVars

OwnerStep ==
  /\ \/ Start
     \/ ApprovePeerCertificate
     \/ AuthorizeSession
     \/ StopRead
     \/ StopMark
     \/ StopFlag
     \/ StopJoin
  /\ UNCHANGED laneVars

ReceiveStep ==
  /\ \/ ArriveMedia
     \/ ArriveReliable
     \/ LaneExhausted
     \/ Call
     \/ Look
     \/ Park
     \/ Wake
     \/ Report
     \/ Refuse
     \/ Deliver
  /\ UNCHANGED <<granted, permit, heard>>

Next == WorkerStep \/ OwnerStep \/ ReceiveStep

Spec == Init /\ [][Next]_vars

(***************************************************************************)
(* Fairness: threads that can run do run; handshakes and the final drain   *)
(* are bounded by timeouts; a stop call that began goes on; the receiver   *)
(* keeps calling, and not always with a buffer that is too small.  The     *)
(* peer, the network, approval and authorization owe nothing.              *)
(***************************************************************************)
Worker(A) == A /\ UNCHANGED laneVars
Lane(A) == A /\ UNCHANGED <<granted, permit, heard>>

FairSpec ==
  /\ Spec
  /\ WF_vars(Worker(Connect \/ Promote \/ Drain \/ FinishWorker \/ Fail))
  /\ WF_vars(Worker(\E g \in Gates : GateLoad(g) \/ GateArm(g)))
  /\ WF_vars(Worker(StopSeen \/ \E g \in Gates : GateWoken(g)))
  /\ WF_vars(Worker(StopMark \/ StopFlag \/ StopJoin))
  /\ WF_vars(Lane(Call \/ Look \/ Park \/ Wake \/ Report))
  /\ SF_vars(Lane(Deliver))

-----------------------------------------------------------------------------
\* Every variable has its type.
TypeOK ==
  /\ config \in Configs
  /\ state \in States
  /\ stop \in BOOLEAN
  /\ phase \in Phases
  /\ owner \in {"free", "marking", "flagging", "joining", "returned"}
  /\ parked \in {"no", "parked", "woken"}
  /\ granted \in [Gates -> BOOLEAN]
  /\ permit \in [Gates -> BOOLEAN]
  /\ heard \in BOOLEAN
  /\ lane \in Lanes
  /\ queue \in Seq(1..arrived) /\ Len(queue) <= Capacity
  /\ arrived \in 0..MaxArrivals
  /\ drops \in Nat
  /\ receiver \in [at: Points, item: 0..arrived]
  /\ delivered \in Seq(1..arrived)
  /\ outcome \in Outcomes

\* No application queue is active before the owner approved the peer's
\* certificate, and READY is reached only when the session, too, is authorized
\* (plank_transport.h); also when the approval races a stop.
Gated ==
  /\ arrived > 0 /\ ApprovalRequired => granted["certificate"]
  /\ state = "Ready" => /\ ApprovalRequired => granted["certificate"]
                        /\ config.setup => granted["session"]

\* Once stop has returned the worker is gone: nothing changes the state or the
\* queue behind the owner, who may destroy the endpoint.
StopIsFinal ==
  [][owner = "returned" => UNCHANGED <<state, phase, arrived>>]_vars

\* As many items arrived as are queued, were handed out or are counted as
\* dropped, although one may be evicted while the receive call copies it.
LossesCounted == arrived = Len(delivered) + Len(queue) + drops

\* What is handed out is in the order of arrival and never twice; a reliable
\* lane leaves nothing out.
InOrder ==
  LET items == delivered \o queue IN
  /\ \A i, j \in 1..Len(items) : i < j => items[i] < items[j]
  /\ ~Replaceable => items = [i \in 1..arrived |-> i]

\* Nothing that arrived is lost unseen, doubled or put out of order between the
\* worker that queues and evicts and the receive call that copies and removes.
LaneAccounts == LossesCounted /\ InOrder

\* A receive call does not report the terminal error while the lane still holds
\* a message (macos-session-lifecycle.md, queued_control_precedes_peer_close).
QueuedBeforeError == outcome = "RUNTIME" => queue = <<>>

\* A certificate's approval and a session's authorization are not lost between
\* the worker's look at the flag and its wait.
GateOpens == \A g \in Gates : granted[g] ~> phase \notin {Load[g], Arm[g], Wait[g]}

\* A connection that the peer ended is reported to a receiver that keeps
\* calling, instead of TIMEOUT for ever, unless the owner stops the endpoint.
CloseReported == phase = "ended" /\ ~stop ~> outcome = "RUNTIME" \/ owner # "free"

\* No wake-up is missed: neither an approval nor the peer's close falls unheard
\* between a thread's look at the state and its wait.
NothingMissed == GateOpens /\ CloseReported

\* The stop call returns, whatever the worker was doing...
StopAlwaysReturns == owner = "marking" ~> owner = "returned"

\* ... and does so at least where no certificate waits for its approval: during
\* a handshake, an authorization wait, a promotion, a drain or a stream.
StopReturns ==
  owner = "marking" /\ (ApprovalRequired => granted["certificate"]) ~> owner = "returned"

\* A Client with an exact fingerprint is not held for approval (plank_transport.h).
PinnedProceeds == config.pinned => state # "PeerValidation"
==============================================================================
