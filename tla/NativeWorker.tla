----------------------------- MODULE NativeWorker -----------------------------
(***************************************************************************)
(* The life of a native endpoint (native_ffi.rs): the worker thread from   *)
(* connection to finish_worker, and the owner's calls.  A Tokio Notify is  *)
(* modelled by what its two forms promise: notify_one leaves a permit that *)
(* the next wait consumes; notify_waiters reaches only a wait that already *)
(* exists.  select! takes any branch that is ready.                        *)
(***************************************************************************)
EXTENDS NativeShared

VARIABLES
  granted,  \* peer_certificate_approved and session_authorized
  permit,   \* the stored permit of each gate's Notify
  heard     \* the worker's present wait was reached by notify_waiters

workerVars == <<config, state, stop, phase, owner, parked, granted, permit, heard>>

WorkerInit ==
  /\ config \in Configs
  /\ state = "Idle" /\ stop = FALSE
  /\ phase = "none" /\ owner = "free" /\ parked = "no"
  /\ granted = [g \in Gates |-> FALSE]
  /\ permit = [g \in Gates |-> FALSE]
  /\ heard = FALSE

-----------------------------------------------------------------------------
(***************************************************************************)
(* The worker thread.                                                      *)
(***************************************************************************)
\* hold_client, hold_setup_client, hold_server and hold_setup_server: where the
\* connection goes first, and what set_state publishes on the way.
FirstHold ==
  IF config.client /\ (config.setup \/ ApprovalRequired) THEN Load["certificate"]
  ELSE IF config.setup THEN Load["session"]
  ELSE "ready"

NextHold(g) ==
  IF g = "session" THEN "promoting"
  ELSE IF config.setup THEN Load["session"]
  ELSE "ready"

Published(p) ==
  CASE p = Load["certificate"] -> "PeerValidation"
    [] p = Load["session"]     -> "SetupReady"
    [] p = "ready"                    -> "Ready"
    [] OTHER                          -> state

Enter(p) == phase' = p /\ state' = Published(p)

\* accept_* or connect_*, bounded by the handshake timeout; or there is no
\* runtime for them, and the worker fails without a look at the stop flag.
Connect ==
  /\ phase = "connecting"
  /\ \/ Enter(FirstHold)
     \/ phase' \in {"ended", "failing"} /\ UNCHANGED state
  /\ UNCHANGED <<config, stop, owner, parked, granted, permit, heard>>

Open_bug(g) == TRUE

Open(g) == granted[g]

\* One turn of a gate's loop.  The gate's own branch of select! is woken by the
\* permit or by notify_waiters, and looks at the flag again.
GateLoad(g) ==
  /\ phase = Load[g]
  /\ \/ Open(g) /\ Enter(NextHold(g))
     \/ ~Open(g) /\ phase' = Arm[g] /\ UNCHANGED state
  /\ UNCHANGED <<config, stop, owner, parked, granted, permit, heard>>

GateArm(g) ==
  /\ phase = Arm[g]
  /\ phase' = Wait[g] /\ heard' = FALSE
  /\ UNCHANGED <<config, state, stop, owner, parked, granted, permit>>

GateWoken(g) ==
  /\ phase = Wait[g]
  /\ permit[g] \/ heard
  /\ phase' = Load[g]
  /\ permit' = [permit EXCEPT ![g] = @ /\ heard]
  /\ UNCHANGED <<config, state, stop, owner, parked, granted, heard>>

Holding == {"ready"} \cup {Wait[g] : g \in Gates}

SeesStop_bug == heard

\* stop_notify's branch, or a lane that finds `stop' set: the sender lanes look
\* when notify_all wakes them and sample_stats every second.  No lane runs while
\* the certificate is awaited.
SeesStop == heard \/ (stop /\ phase # Wait["certificate"])

StopSeen ==
  /\ phase \in Holding /\ SeesStop
  /\ phase' = AfterHold
  /\ UNCHANGED <<config, state, stop, owner, parked, granted, permit, heard>>

\* The peer closes, or a lane fails.
ConnectionLost ==
  /\ phase \in Holding
  /\ phase' = AfterHold
  /\ UNCHANGED <<config, state, stop, owner, parked, granted, permit, heard>>

\* promote_setup_*, bounded by the handshake timeout.
Promote ==
  /\ phase = "promoting"
  /\ \/ Enter("ready")
     \/ phase' = AfterHold /\ UNCHANGED state
  /\ UNCHANGED <<config, stop, owner, parked, granted, permit, heard>>

\* server.close and at most one second of wait_idle.
Drain ==
  /\ phase = "draining"
  /\ phase' = "ended"
  /\ UNCHANGED <<config, state, stop, owner, parked, granted, permit, heard>>

LocalStop_bug == TRUE

LocalStop == stop

\* finish_worker reads the flag, and then publishes.
FinishWorker ==
  /\ phase = "ended"
  /\ \/ LocalStop /\ phase' = "done" /\ state' = "Stopped"
     \/ ~LocalStop /\ phase' = "failing" /\ UNCHANGED state
  /\ UNCHANGED <<config, stop, owner, parked, granted, permit, heard>>

Fail ==
  /\ phase = "failing"
  /\ phase' = "done" /\ state' = "Failed"
  /\ NotifyAll
  /\ UNCHANGED <<config, stop, owner, granted, permit, heard>>

-----------------------------------------------------------------------------
(***************************************************************************)
(* The owner's calls.                                                      *)
(***************************************************************************)
\* endpoint_start; the thread may fail to spawn.
Start ==
  /\ owner = "free" /\ state = "Idle"
  /\ \/ state' = "Starting" /\ phase' = "connecting"
     \/ state' = "Failed" /\ UNCHANGED phase
  /\ UNCHANGED <<config, stop, owner, parked, granted, permit, heard>>

Permit_bug(g) == permit' = permit /\ heard' = (heard \/ phase = Wait[g])

\* notify_one.
Permit(g) == permit' = [permit EXCEPT ![g] = TRUE] /\ UNCHANGED heard

\* approve_peer_certificate and authorize_session: once each.
ApprovePeerCertificate ==
  /\ ApprovalRequired /\ state = "PeerValidation" /\ ~granted["certificate"]
  /\ granted' = [granted EXCEPT !["certificate"] = TRUE]
  /\ Permit("certificate")
  /\ UNCHANGED <<config, state, stop, phase, owner, parked>>

AuthorizeSession ==
  /\ config.setup /\ state = "SetupReady" /\ ~granted["session"]
  /\ granted' = [granted EXCEPT !["session"] = TRUE]
  /\ Permit("session")
  /\ UNCHANGED <<config, state, stop, phase, owner, parked>>

\* stop_endpoint reads the state, publishes Stopping, raises the flag and
\* notifies, and joins the worker: the worker runs in between.
StopRead ==
  /\ owner \in {"free", "returned"}
  /\ state' = IF state = "Idle" THEN "Stopped" ELSE state
  /\ owner' = IF state \in {"Idle", "Stopped", "Failed"} THEN "joining" ELSE "marking"
  /\ UNCHANGED <<config, stop, phase, parked, granted, permit, heard>>

StopMark ==
  /\ owner = "marking"
  /\ owner' = "flagging" /\ state' = "Stopping"
  /\ UNCHANGED <<config, stop, phase, parked, granted, permit, heard>>

StopFlag ==
  /\ owner = "flagging"
  /\ owner' = "joining" /\ stop' = TRUE
  /\ heard' = (heard \/ phase \in Holding)
  /\ NotifyAll
  /\ UNCHANGED <<config, state, phase, granted, permit>>

Joined_bug == phase # "connecting"

\* The worker thread has ended, or was never started.
Joined == phase \in {"none", "done"}

StopJoin ==
  /\ owner = "joining" /\ Joined
  /\ owner' = "returned"
  /\ state' = IF state = "Failed" THEN state ELSE "Stopped"
  /\ UNCHANGED <<config, stop, phase, parked, granted, permit, heard>>
==============================================================================
