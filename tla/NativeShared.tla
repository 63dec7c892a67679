----------------------------- MODULE NativeShared -----------------------------
(***************************************************************************)
(* NativeShared of protocol/plank-transport/src/native_ffi.rs: what the    *)
(* threads of one native QUIC endpoint share.  They are the owner, who     *)
(* calls start, approve, authorize and stop through the C ABI; the worker  *)
(* thread, which runs the connection on its Tokio runtime; and one         *)
(* receiver thread that the owner leaves in a blocking receive call.       *)
(***************************************************************************)
EXTENDS Naturals, Sequences

CONSTANT Configs   \* the endpoint configurations under consideration

\* What parse_config accepts: `pinned' is a Client with certificate_sha256.
AllConfigs ==
  {c \in [client: BOOLEAN, setup: BOOLEAN, pinned: BOOLEAN] : c.pinned => c.client}

ASSUME ConfigAssumption == Configs \subseteq AllConfigs

VARIABLES
  config,   \* EndpointConfig
  state,    \* status.state
  stop,     \* the stop flag
  phase,    \* where the worker thread is
  owner,    \* where the owner's stop call is
  parked    \* the receiver's slot on the condition variable of its lane

States == {"Idle", "Starting", "PeerValidation", "SetupReady", "Ready",
           "Failed", "Stopping", "Stopped"}

\* The two flags a worker waits for, each with a Notify of its own, and the
\* points of the waiting loop: load the flag, make the futures, wait on them.
Gates == {"certificate", "session"}
Load == [certificate |-> "certificate load", session |-> "session load"]
Arm == [certificate |-> "certificate arm", session |-> "session arm"]
Wait == [certificate |-> "certificate wait", session |-> "session wait"]

Phases ==
  {"none", "connecting", "promoting", "ready", "draining", "ended", "failing", "done"}
    \cup UNION {{Load[g], Arm[g], Wait[g]} : g \in Gates}

ApprovalRequired == config.client /\ ~config.pinned

\* hold_* returned: a server first closes and drains the connection.
AfterHold == IF config.client THEN "ended" ELSE "draining"

\* The part of notify_all that reaches the receivers' condition variables: it
\* takes no queue lock, so a receiver that is about to wait does not hear it.
NotifyAll == parked' = IF parked = "parked" THEN "woken" ELSE parked
==============================================================================
