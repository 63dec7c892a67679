------------------------------ MODULE HostRuntime ------------------------------
(***************************************************************************)
(* PLANKMacHostRuntime (apps/host/macos/session/host-runtime.m) around the *)
(* control server: display preparation and launch, which hold the          *)
(* runtime's lock on the authentication lane, the one stream, and the      *)
(* shutdown.  The stream (media/preview-session.m) is here its states, the *)
(* blocks on its queue and its lease, as StreamLife promises them;         *)
(* PreviewSession has the rest of it.                                      *)
(***************************************************************************)
EXTENDS ControlServer

VARIABLES
  stopping,   \* _stopping
  stopper,    \* how far stopWithCompletion is
  stream,     \* _stream
  failed      \* the listener failed

vars == <<serverVars, stopping, stopper, stream, failed>>

NoStream == [by |-> None, state |-> "none", jobs |-> <<>>, waiting |-> FALSE]

Prepared(r) == [NoStream EXCEPT !.by = r, !.state = "Prepared"]

\* `jobs': blocks on its queue ("shutdown" is a stop with the runtime's
\* completion); `waiting': that completion is among _stopCallbacks.
Stream ==
  [by: Requests \cup {None},
   state: {"none", "Prepared", "Connecting", "Streaming", "Stopping", "Stopped"},
   jobs: Seq({"start", "stop", "shutdown"}), waiting: BOOLEAN]

Init ==
  /\ ServerInit
  /\ stopping = FALSE /\ stopper = "none" /\ stream = NoStream /\ failed = FALSE

Gone == {"none", "Stopped"}

-----------------------------------------------------------------------------
(***************************************************************************)
(* On the authentication lane.  The lane holds the runtime's lock while it *)
(* is "held" or "launched".                                                *)
(***************************************************************************)
LockFree == lane.at \notin {"held", "launched"}

Launches == lane.at = "held" /\ lane.kind = "launch"

ToEnd(status) == lane' = [lane EXCEPT !.at = "end", !.status = status]

\* prepareDisplayRequest and recoverTopology take the lock; display work is put
\* off during the shutdown and refused next to a stream.  A topology query that
\* needs no recovery ends with or without a topology.
WorkBegins ==
  /\ (Running("setup") \/ Running("display")) /\ Authorized
  /\ \/ ~stopping /\ stream.state \in Gone /\ lane' = [lane EXCEPT !.at = "held"]
     \/ lane.kind = "display" /\ stopping /\ ToEnd("pending")
     \/ lane.kind = "display" /\ ~stopping /\ stream.state \notin Gone /\ ToEnd("refused")
     \/ lane.kind = "setup" /\ \E status \in {"ok", "pending", "refused"} : ToEnd(status)
  /\ UNCHANGED <<req, networkQ, authQ, authBusy, stopped, tokens, lease, delivered,
                 stopping, stopper, stream, failed>>

\* The display work is over: refused for what the request asks, or not ready.
WorkEnds ==
  /\ lane.at = "held" /\ ~Launches
  /\ \/ \E status \in {"pending", "refused"} : ToEnd(status)
     \/ /\ lane.kind = "display" => ~stopping /\ Authorized
        /\ ToEnd("ok")
  /\ UNCHANGED <<req, networkQ, authQ, authBusy, stopped, tokens, lease, delivered,
                 stopping, stopper, stream, failed>>

MayLaunch_bug == ~stopping /\ stream.state \in Gone \cup {"Stopping"}

MayLaunch == ~stopping /\ stream.state \in Gone

\* launch: refused (shutdown, a live stream, the request, the permissions), or
\* on to the construction of the endpoint.
LaunchBegins ==
  /\ Running("launch") /\ Authorized
  /\ \/ ToEnd("refused")
     \/ MayLaunch /\ lane' = [lane EXCEPT !.at = "held"]
  /\ UNCHANGED <<req, networkQ, authQ, authBusy, stopped, tokens, lease, delivered,
                 stopping, stopper, stream, failed>>

\* initWithSessions returns nil; a lease it had claimed ends with it.
ConstructionFails ==
  /\ Launches
  /\ \/ UNCHANGED tokens
     \/ lease = NoLease /\ tokens' = tokens \ {lane.token}
  /\ stream' = NoStream
  /\ ToEnd("refused")
  /\ UNCHANGED <<req, networkQ, authQ, authBusy, stopped, lease, delivered,
                 stopping, stopper, failed>>

\* initWithSessions: the setup token becomes the stream lease.
Constructs ==
  /\ Launches /\ Authorized /\ lease = NoLease
  /\ tokens' = tokens \ {lane.token}
  /\ lease' = [r |-> lane.r, token |-> lane.token]
  /\ stream' = Prepared(lane.r)
  /\ lane' = [lane EXCEPT !.at = "launched"]
  /\ UNCHANGED <<req, networkQ, authQ, authBusy, stopped, delivered,
                 stopping, stopper, failed>>

MayStart == ~stopping /\ lease.r = stream.by

\* The rest of launch: the stream is started, or stopped where the shutdown
\* began, the lease is over or the topology changed meanwhile.
LaunchEnds ==
  /\ lane.at = "launched"
  /\ \/ MayStart /\ ToEnd("ok") /\ stream' = [stream EXCEPT !.jobs = Append(@, "start")]
     \/ ToEnd("refused") /\ stream' = [stream EXCEPT !.jobs = Append(@, "stop")]
  /\ UNCHANGED <<req, networkQ, authQ, authBusy, stopped, tokens, lease, delivered,
                 stopping, stopper, failed>>

-----------------------------------------------------------------------------
(***************************************************************************)
(* The stream's queue.                                                     *)
(***************************************************************************)
LeaseAfterStop_bug(s) == lease

\* stopOnQueue ends the lease before anything drains.
LeaseAfterStop(s) == IF lease.r = s.by THEN NoLease ELSE lease

Stopping(s) == [s EXCEPT !.state = IF @ = "Stopped" THEN @ ELSE "Stopping"]

\* start's block.
StreamStarts ==
  LET s == [stream EXCEPT !.jobs = Tail(@)] IN
  /\ stream.jobs # <<>> /\ Head(stream.jobs) = "start"
  /\ \/ /\ s.state = "Prepared"
        /\ stream' = [s EXCEPT !.state = "Connecting"] /\ UNCHANGED lease
     \/ /\ s.state = "Prepared"      \* the endpoint did not start
        /\ stream' = Stopping(s) /\ lease' = LeaseAfterStop(s)
     \/ s.state # "Prepared" /\ stream' = s /\ UNCHANGED lease
  /\ UNCHANGED <<req, networkQ, authQ, lane, authBusy, stopped, tokens, delivered,
                 stopping, stopper, failed>>

CallsBack_bug(job) == FALSE

CallsBack(job) == job = "shutdown"

\* stopWithCompletion's block.
StreamStops ==
  LET job == Head(stream.jobs)
      s == [stream EXCEPT !.jobs = Tail(@)]
  IN
  /\ stream.jobs # <<>> /\ job \in {"stop", "shutdown"}
  /\ \/ /\ s.state = "Stopped" /\ stream' = s /\ UNCHANGED lease
        /\ IF CallsBack(job)
           THEN stopper' = "server" /\ networkQ' = Append(networkQ, StopBlock(TRUE))
           ELSE UNCHANGED <<stopper, networkQ>>
     \/ /\ s.state # "Stopped"
        /\ stream' = [Stopping(s) EXCEPT !.waiting = @ \/ job = "shutdown"]
        /\ lease' = LeaseAfterStop(s)
        /\ UNCHANGED <<stopper, networkQ>>
  /\ UNCHANGED <<req, authQ, lane, authBusy, stopped, tokens, delivered, stopping, failed>>

\* tick: the peer is connected and the capture runs.
StreamRuns ==
  /\ stream.state = "Connecting"
  /\ stream' = [stream EXCEPT !.state = "Streaming"]
  /\ UNCHANGED <<serverVars, stopping, stopper, failed>>

Watched_bug == stream.state = "Streaming"

Watched == stream.state \in {"Connecting", "Streaming"}

\* tick and the stream's other callbacks: it ends by itself.
StreamEnds ==
  /\ Watched
  /\ stream' = Stopping(stream)
  /\ lease' = LeaseAfterStop(stream)
  /\ UNCHANGED <<req, networkQ, authQ, lane, authBusy, stopped, tokens, delivered,
                 stopping, stopper, failed>>

\* finishStop: capture and input are drained; the callbacks run.
StreamDrained ==
  /\ stream.state = "Stopping"
  /\ stream' = [stream EXCEPT !.state = "Stopped", !.waiting = FALSE]
  /\ IF stream.waiting
     THEN stopper' = "server" /\ networkQ' = Append(networkQ, StopBlock(TRUE))
     ELSE UNCHANGED <<stopper, networkQ>>
  /\ UNCHANGED <<req, authQ, lane, authBusy, stopped, tokens, lease, delivered,
                 stopping, failed>>

-----------------------------------------------------------------------------
(***************************************************************************)
(* Shutdown.                                                               *)
(***************************************************************************)
\* The listener fails: the server stops itself, its owner hears of it.
ListenerFails ==
  /\ ~failed /\ ~stopped
  /\ failed' = TRUE
  /\ networkQ' = Append(networkQ, StopBlock(FALSE))
  /\ UNCHANGED <<req, authQ, lane, authBusy, stopped, tokens, lease, delivered,
                 stopping, stopper, stream>>

\* stopWithCompletion; its caller in host-main.m calls it once.
Stop ==
  /\ stopper = "none"
  /\ stopping' = TRUE /\ stopper' = "asked"
  /\ UNCHANGED <<serverVars, stream, failed>>

StopSnapshot_bug == TRUE

StopSnapshot == LockFree

\* Its block on a global queue: the stream first, then the server.
StopProceeds ==
  /\ stopper = "asked" /\ StopSnapshot
  /\ IF stream.state = "none"
     THEN /\ stopper' = "server" /\ networkQ' = Append(networkQ, StopBlock(TRUE))
          /\ UNCHANGED stream
     ELSE /\ stopper' = "draining"
          /\ stream' = [stream EXCEPT !.jobs = Append(@, "shutdown")]
          /\ UNCHANGED networkQ
  /\ UNCHANGED <<req, authQ, lane, authBusy, stopped, tokens, lease, delivered,
                 stopping, failed>>

\* The last block of the server's stop, and the runtime's completion.
NetworkComplete ==
  /\ Job(networkQ, "complete")
  /\ networkQ' = Tail(networkQ)
  /\ stopper' = IF Head(networkQ).calls THEN "done" ELSE stopper
  /\ UNCHANGED <<req, authQ, lane, authBusy, stopped, tokens, lease, delivered,
                 stopping, stream, failed>>

-----------------------------------------------------------------------------
runtimeVars == <<stopping, stopper, stream, failed>>

NetworkBlock == (NetworkReply \/ NetworkFree \/ NetworkStop) /\ UNCHANGED runtimeVars

Handler ==
  \/ Begin \/ Login \/ Unauthorized \/ End

AuthBlock == (AuthRevoke \/ AuthRevokeAll \/ Handler) /\ UNCHANGED runtimeVars

RuntimeBlock ==
  \/ WorkBegins \/ WorkEnds
  \/ LaunchBegins \/ ConstructionFails \/ Constructs \/ LaunchEnds

Connection(r) ==
  \/ Accept(r) \/ ReceiveRefuse(r) \/ ConnectionEnds(r) \/ DeadlinePasses(r) \/ Expire(r)
  \/ \E kind \in Kinds, token \in Requests \cup {None} : ReceiveDispatch(r, kind, token)
  \/ \E ok \in BOOLEAN : SendCompletes(r, ok)

Next ==
  \/ \E r \in Requests : Connection(r) /\ UNCHANGED runtimeVars
  \/ NetworkBlock \/ NetworkComplete
  \/ AuthBlock \/ RuntimeBlock
  \/ Lapse /\ UNCHANGED runtimeVars
  \/ StreamStarts \/ StreamStops \/ StreamRuns \/ StreamEnds \/ StreamDrained
  \/ ListenerFails \/ Stop \/ StopProceeds

Spec == Init /\ [][Next]_vars

(***************************************************************************)
(* Serial queues run what is dispatched to them; the handlers are bounded  *)
(* by timeouts of their own; a stream without a lease is stopped by its    *)
(* 20 ms tick, and a stopping one drains (StreamLife).                     *)
(***************************************************************************)
Fairness ==
  /\ WF_vars(NetworkBlock \/ NetworkComplete)
  /\ WF_vars(AuthBlock \/ RuntimeBlock)
  /\ WF_vars(StreamStarts \/ StreamStops)
  /\ WF_vars(StreamEnds /\ lease.r # stream.by)
  /\ WF_vars(StreamDrained)
  /\ WF_vars(StopProceeds)

FairSpec == Spec /\ Fairness

-----------------------------------------------------------------------------
\* Requests, lanes and stream have their shape, and a request gets one answer: no
\* second one is ever queued for one that is being sent (replyBytes).
TypeOK ==
  /\ req \in [Requests -> Request]
  /\ \A i \in DOMAIN networkQ : networkQ[i].job = "reply" => ~req[networkQ[i].r].sending
  /\ lane.at \in {"idle", "run", "held", "launched", "end"}
  /\ tokens \subseteq Requests /\ delivered \subseteq Requests
  /\ lease \in [r: Requests \cup {None}, token: Requests \cup {None}]
  /\ stream \in Stream
  /\ stopper \in {"none", "asked", "draining", "server", "done"}

In(q, job, token) == \E i \in DOMAIN q : q[i].job = job /\ q[i].token = token

\* The answer of r was delivered or is on its way with this token bound to it,
\* or the token's revocation is.
Answered(r, token) ==
  \/ r \in delivered
  \/ req[r].bound = token
  \/ \E i \in DOMAIN networkQ :
       networkQ[i].job = "reply" /\ networkQ[i].r = r /\ networkQ[i].token = token
  \/ In(authQ, "revoke", token)

\* No credential outlives an answer that nobody got: a setup token exists only
\* while the answer to its login was delivered, is on its way, or its revocation
\* is queued; so does a lease for the answer to its launch (replyBytes and the
\* completion of its send, the expiredRequest test of handlePath).
UndeliveredIsRevoked ==
  /\ \A t \in tokens : Answered(t, t)
  /\ lease # NoLease => lane.r = lease.r \/ Answered(lease.r, lease.token)

\* A lease belongs to the stream that will end it: there is never a lease next to
\* a stream that stopped, was replaced or never came to be (an active lease does
\* not expire, so such a one would refuse every later launch).
LeaseHasStream ==
  lease # NoLease => stream.by = lease.r /\ stream.state \in {"Prepared", "Connecting", "Streaming"}

Handled == {i \in DOMAIN authQ : authQ[i].job = "handle"}

\* "Normal stop releases held input before the HTTP owner revokes tokens": when
\* the runtime has the server stop, its stream is drained, also where the launch
\* of that stream was under way when the shutdown began.
\* "No token survives stop": when the shutdown has completed there is no setup
\* token, no lease and no handler, nor can one come back.
QuietAfterStop ==
  /\ stopper \in {"server", "done"} => stream.state \in Gone
  /\ stopper = "done" =>
       tokens = {} /\ lease = NoLease /\ Handled = {} /\ lane = Idle

\* A lease never lacks its stream, and nothing of either is left by a shutdown.
LeaseOwned == LeaseHasStream /\ QuietAfterStop

\* A launch never puts a stream in the place of one that is still draining.
NeverReplacedAlive == [][stream'.by # stream.by => stream.state \in Gone]_vars

\* The shutdown completes, whatever launch, login or stream was under way.
StopCompletes == stopping ~> stopper = "done"

\* The authentication lane always comes free again: no path through a handler
\* leaves _authBusy set and all later requests answered 503.
LaneComesFree == authBusy ~> ~authBusy

\* A stream whose lease was revoked or lapsed is stopped and drained.
StreamFollowsLease ==
  stream.state \notin Gone /\ lease.r # stream.by ~> stream.state \in Gone
==============================================================================
