----------------------------- MODULE BridgeState -----------------------------
(***************************************************************************)
(* What the Wacom bridge (WacomBridge) has done at the host's kernel, and  *)
(* what it promises about that.                                            *)
(***************************************************************************)
EXTENDS Integers, Sequences

VARIABLES
  paths,             \* size of hidraw_paths
  host,              \* where the host process is
  uhid,              \* the kernel side of each created endpoint
  delivered,         \* input reports written to each endpoint
  completed          \* requests answered: the request and the answer

Interfaces == 1 .. paths

\* Every request that the host's kernel completes was answered by its own
\* ioctl on its own interface, with timeouts and late replies between.
RepliesMatch == \A c \in completed : c.answer = c.request

\* Input reaches the endpoint of its own interface, in order and once, and
\* only when every interface of the tablet has an endpoint with its own
\* descriptor.
InputInOrder ==
  \A i \in Interfaces :
    /\ \A k \in DOMAIN delivered[i] : delivered[i][k][1] = i
    /\ \A j, k \in DOMAIN delivered[i] :
         j < k => delivered[i][j][2] < delivered[i][k][2]
    /\ (delivered[i] # <<>> /\ host \in {"poll", "scan"}) =>
         [n \in DOMAIN uhid |-> uhid[n].descriptor] = [n \in Interfaces |-> n]

\* Through the Wacom bridge requests are answered by their own ioctl and input
\* reaches its own endpoint: what run_client and run_host do to the kernel.
BridgeFaithful == RepliesMatch /\ InputInOrder

=============================================================================
