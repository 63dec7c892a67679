----------------------------- MODULE AgentChannel -----------------------------
(***************************************************************************)
(* The private XPC protocol between the machine coordinator and the        *)
(* graphical Host processes (apps/host/macos/session/agent-registry.m and  *)
(* agent-connection.m).  An agent is one graphical process; it opens one   *)
(* connection in its life and has one request outstanding at a time.       *)
(* Replies, notifications and the loss of the connection are delivered in  *)
(* no particular order.                                                    *)
(***************************************************************************)
EXTENDS Naturals

CONSTANTS
  Agents,        \* graphical Host processes, each launched once
  NoAgent,       \* _current == nil
  Freshness,     \* 2 s: reply timeout and admission freshness
  MaxNow         \* bound on the clock

ASSUME ChannelAssumption ==
  /\ NoAgent \notin Agents
  /\ Freshness \in Nat \ {0}
  /\ MaxNow \in Nat

VARIABLES
  now,      \* CLOCK_MONOTONIC
  valid,    \* per agent: the local graphical scope is still the initial one
  visible,  \* agents whose session and phase the machine can observe
  chan      \* per agent: what is in flight on its XPC connection

(***************************************************************************)
(* request: the outstanding call (op 0: none); reply: the answer to it     *)
(* (op 0: none); notice: the generation of a Revoke notification (0: none);*)
(* cut: the connection was cancelled or its peer died.                     *)
(***************************************************************************)
Operations == 0..3       \* none, Register, Check, Retired
Statuses == 0..2         \* success, busy, revoked

Request == [op: Operations, generation: Nat, sequence: Nat]
Reply == [op: Operations, status: Statuses, generation: Nat]
Channel == [request: Request, reply: Reply, notice: Nat, cut: BOOLEAN]

NoRequest == [op |-> 0, generation |-> 0, sequence |-> 0]
NoReply == [op |-> 0, status |-> 0, generation |-> 0]
NewChannel == [request |-> NoRequest, reply |-> NoReply, notice |-> 0, cut |-> FALSE]
==============================================================================
