----------------------------- MODULE ControlServer -----------------------------
(***************************************************************************)
(* PLANKMacHTTPSAuthServer (apps/host/macos/control/https-auth-server.m):  *)
(* connections are served on the network lane, authenticated work on the   *)
(* authentication lane, one piece at a time.  Each lane is a serial queue; *)
(* what one dispatches to the other waits there in order.  A request is    *)
(* one connection.  A setup token is named by the login that created it.   *)
(***************************************************************************)
EXTENDS Naturals, Sequences, FiniteSets

CONSTANTS
  Requests,         \* connections
  LoggedIn,         \* the logins that were answered before
  None,             \* no token, no lease
  MaximumRequests   \* 8

ASSUME ServerAssumption ==
  /\ None \notin Requests
  /\ LoggedIn \subseteq Requests
  /\ MaximumRequests \in Nat

VARIABLES
  req,        \* per request: its PLANKMacHTTPSRequest
  networkQ,   \* blocks dispatched to the network lane
  authQ,      \* blocks dispatched to the authentication lane
  lane,       \* the handler on the authentication lane, and how far it is
  authBusy,   \* _authBusy
  stopped,    \* _stopped
  tokens,     \* the authentication session's setup tokens
  lease,      \* its stream lease: the request that claimed it, and the token
  delivered   \* the peers' side: requests whose answer was sent with its token

\* handlePath serves login (auth/start and auth/respond), display and launch; the
\* GET block serves setup, the topology.  The desktop list and the information of
\* an authorized peer are for the lanes a setup query without a token: they leave
\* the one they present alone.
Kinds == {"login", "display", "launch", "setup"}

(***************************************************************************)
(* `late': the deadline of an unfinished request is over.  `sending': an   *)
(* answer is with the network, and `bound' is the token that is revoked if *)
(* it cannot be delivered.                                                 *)
(***************************************************************************)
Request ==
  [conn: {"absent", "reading", "dispatched", "finished"}, late: BOOLEAN,
   sending: BOOLEAN, bound: Requests \cup {None}]

NewRequest == [conn |-> "absent", late |-> FALSE, sending |-> FALSE, bound |-> None]

NoLease == [r |-> None, token |-> None]

(***************************************************************************)
(* A block with what it captured.  `calls': a stop whose completion is the *)
(* runtime's.                                                              *)
(***************************************************************************)
Block(job, kind, r, token) ==
  [job |-> job, kind |-> kind, r |-> r, token |-> token, calls |-> FALSE]
StopBlock(calls) == [Block("stop", "-", None, None) EXCEPT !.calls = calls]

Idle == [at |-> "idle", kind |-> "-", r |-> None, token |-> None, status |-> "-"]

\* finish: cancels the connection, once; its deadline no longer matters.
Finished(q) == [q EXCEPT !.conn = "finished", !.late = FALSE]

serverVars == <<req, networkQ, authQ, lane, authBusy, stopped, tokens, lease, delivered>>

ServerInit ==
  /\ req = [r \in Requests |-> IF r \in LoggedIn THEN Finished(NewRequest) ELSE NewRequest]
  /\ networkQ = <<>> /\ authQ = <<>> /\ lane = Idle
  /\ authBusy = FALSE /\ stopped = FALSE
  /\ tokens = LoggedIn /\ lease = NoLease /\ delivered = LoggedIn

-----------------------------------------------------------------------------
\* revokeToken of the authentication session.
Revoke(t) ==
  /\ tokens' = tokens \ {t}
  /\ lease' = IF lease.token = t THEN NoLease ELSE lease

\* replyBytes on a request that is not finished.
Sent(q, token) == [q EXCEPT !.sending = TRUE, !.bound = token]

Open == {r \in Requests : req[r].conn \in {"reading", "dispatched"}}

-----------------------------------------------------------------------------
(***************************************************************************)
(* The network lane.                                                       *)
(***************************************************************************)
\* accept: the ninth connection, and one after the stop, is cancelled.
Accept(r) ==
  /\ req[r].conn = "absent"
  /\ req' = [req EXCEPT ![r].conn =
               IF stopped \/ Cardinality(Open) >= MaximumRequests THEN "finished" ELSE "reading"]
  /\ UNCHANGED <<networkQ, authQ, lane, authBusy, stopped, tokens, lease, delivered>>

Readable(r) == req[r].conn = "reading" /\ ~req[r].sending

\* receive: the request is refused (malformed, unknown, busy), or answered with
\* the public information.
ReceiveRefuse(r) ==
  /\ Readable(r)
  /\ req' = [req EXCEPT ![r] = Sent(@, None)]
  /\ UNCHANGED <<networkQ, authQ, lane, authBusy, stopped, tokens, lease, delivered>>

MayDispatch == ~authBusy

\* The tokens that a peer can have been told.
Told == {t \in tokens \cup {lease.token} : t \in delivered \/ (t # None /\ req[t].bound = t)}

\* receive: a complete request goes to the authentication lane, with a token it
\* was told or with None, any other.  A display request gets a new deadline.
ReceiveDispatch(r, kind, token) ==
  /\ Readable(r) /\ MayDispatch
  /\ token \in (IF kind = "login" THEN {None} ELSE Told \cup {None})
  /\ req' = [req EXCEPT ![r].conn = "dispatched", ![r].late = @ /\ kind # "display"]
  /\ authBusy' = TRUE
  /\ authQ' = Append(authQ, Block("handle", kind, r, token))
  /\ UNCHANGED <<networkQ, lane, stopped, tokens, lease, delivered>>

\* receive with an error, the peer's end of the stream or a failed connection.
ConnectionEnds(r) ==
  /\ r \in Open
  /\ req' = [req EXCEPT ![r] = Finished(@)]
  /\ UNCHANGED <<networkQ, authQ, lane, authBusy, stopped, tokens, lease, delivered>>

\* The clock passes the deadline; the 100 ms watchdog then finishes the request.
DeadlinePasses(r) ==
  /\ r \in Open /\ ~req[r].late
  /\ req' = [req EXCEPT ![r].late = TRUE]
  /\ UNCHANGED <<networkQ, authQ, lane, authBusy, stopped, tokens, lease, delivered>>

Expire(r) ==
  /\ r \in Open /\ req[r].late
  /\ req' = [req EXCEPT ![r] = Finished(@)]
  /\ UNCHANGED <<networkQ, authQ, lane, authBusy, stopped, tokens, lease, delivered>>

\* The blocks that revoke a token which was not delivered.
Undo(token) == IF token = None THEN <<>> ELSE <<Block("revoke", "-", None, token)>>

UndoSend_bug(r, ok) == <<>>

UndoSend(r, ok) == IF ok THEN <<>> ELSE Undo(req[r].bound)

\* The completion of nw_connection_send.
SendCompletes(r, ok) ==
  /\ req[r].sending
  /\ req' = [req EXCEPT ![r] = Finished([@ EXCEPT !.sending = FALSE, !.bound = None])]
  /\ authQ' = authQ \o UndoSend(r, ok)
  /\ delivered' = IF ok /\ req[r].bound # None THEN delivered \cup {r} ELSE delivered
  /\ UNCHANGED <<networkQ, lane, authBusy, stopped, tokens, lease>>

Job(q, job) == q # <<>> /\ Head(q).job = job

\* replyBytes in a block from the authentication lane; a setup query's block also
\* releases that lane.
NetworkReply ==
  LET b == Head(networkQ) IN
  /\ Job(networkQ, "reply")
  /\ IF req[b.r].conn = "finished"
     THEN authQ' = authQ \o Undo(b.token) /\ UNCHANGED req
     ELSE req' = [req EXCEPT ![b.r] = Sent(@, b.token)] /\ UNCHANGED authQ
  /\ authBusy' = (authBusy /\ b.kind # "setup")
  /\ networkQ' = Tail(networkQ)
  /\ UNCHANGED <<lane, stopped, tokens, lease, delivered>>

NetworkFree ==
  /\ Job(networkQ, "free")
  /\ authBusy' = FALSE
  /\ networkQ' = Tail(networkQ)
  /\ UNCHANGED <<req, authQ, lane, stopped, tokens, lease, delivered>>

NetworkStop_bug ==
  /\ Job(networkQ, "stop")
  /\ stopped' = TRUE
  /\ req' = [r \in Requests |-> IF r \in Open THEN Finished(req[r]) ELSE req[r]]
  /\ tokens' = {} /\ lease' = NoLease
  /\ networkQ' = Append(Tail(networkQ), [Head(networkQ) EXCEPT !.job = "complete"])
  /\ UNCHANGED <<authQ, lane, authBusy, delivered>>

\* stopWithCompletion, its first block.
NetworkStop ==
  /\ Job(networkQ, "stop")
  /\ stopped' = TRUE
  /\ req' = [r \in Requests |-> IF r \in Open THEN Finished(req[r]) ELSE req[r]]
  /\ authQ' = Append(authQ, [Head(networkQ) EXCEPT !.job = "revokeAll"])
  /\ networkQ' = Tail(networkQ)
  /\ UNCHANGED <<lane, authBusy, tokens, lease, delivered>>

-----------------------------------------------------------------------------
(***************************************************************************)
(* The authentication lane.                                                *)
(***************************************************************************)
AuthRevoke ==
  /\ lane = Idle /\ Job(authQ, "revoke")
  /\ Revoke(Head(authQ).token)
  /\ authQ' = Tail(authQ)
  /\ UNCHANGED <<req, networkQ, lane, authBusy, stopped, delivered>>

\* stopWithCompletion, its second block, and the third it dispatches.
AuthRevokeAll ==
  /\ lane = Idle /\ Job(authQ, "revokeAll")
  /\ tokens' = {} /\ lease' = NoLease
  /\ networkQ' = Append(networkQ, [Head(authQ) EXCEPT !.job = "complete"])
  /\ authQ' = Tail(authQ)
  /\ UNCHANGED <<req, lane, authBusy, stopped, delivered>>

ReleaseLane_bug == networkQ

\* The @finally of handlePath.
ReleaseLane == Append(networkQ, Block("free", "-", None, None))

\* handlePath and the block of a query begin.  handlePath gives up at once where its
\* request is finished; the block of a query does not look.
Begin ==
  LET b == Head(authQ) IN
  /\ lane = Idle /\ Job(authQ, "handle")
  /\ authQ' = Tail(authQ)
  /\ IF req[b.r].conn = "finished" /\ b.kind # "setup"
     THEN networkQ' = ReleaseLane /\ UNCHANGED lane
     ELSE /\ lane' = [at |-> "run", kind |-> b.kind, r |-> b.r, token |-> b.token, status |-> "-"]
          /\ UNCHANGED networkQ
  /\ UNCHANGED <<req, authBusy, stopped, tokens, lease, delivered>>

Running(kind) == lane.at = "run" /\ lane.kind = kind

\* The handler ends: its answer, then the release of the lane.
Answers(token) ==
  /\ networkQ' = networkQ \o <<Block("reply", lane.kind, lane.r, token)>> \o
                   (IF lane.kind = "setup" THEN <<>>
                    ELSE <<Block("free", "-", None, None)>>)
  /\ lane' = Idle

\* startForPeer and respondForPeer: at best a token, which may supersede an older one.
Login ==
  /\ Running("login")
  /\ \/ Answers(None) /\ UNCHANGED tokens
     \/ /\ \E kept \in SUBSET tokens : tokens' = kept \cup {lane.r}
        /\ Answers(lane.r)
  /\ UNCHANGED <<req, authQ, authBusy, stopped, lease, delivered>>

Authorized == lane.token \in tokens

\* A token that does not authorize the request changes nothing.
Unauthorized ==
  /\ lane.at = "run" /\ lane.kind # "login" /\ ~Authorized
  /\ Answers(None)
  /\ UNCHANGED <<req, authQ, authBusy, stopped, tokens, lease, delivered>>

\* The token outlives the request: it was not refused, and somebody still waits
\* (neither cancelled by the network lane nor past the deadline).
Keeps(status) ==
  status \in {"ok", "pending"} /\ req[lane.r].conn # "finished" /\ ~req[lane.r].late

\* The token that goes with the answer.
Bound(status) ==
  IF \/ status = "ok" \/ lane.kind = "setup"
     \/ lane.kind = "display" /\ status = "pending"
  THEN lane.token ELSE None

\* The handler's last part: the second authorization of a query or a display
\* request, the revocation, and the answer.
End ==
  LET status == IF lane.kind # "launch" /\ ~Authorized THEN "refused" ELSE lane.status IN
  /\ lane.at = "end"
  /\ IF Keeps(status) THEN UNCHANGED <<tokens, lease>> ELSE Revoke(lane.token)
  /\ Answers(Bound(status))
  /\ UNCHANGED <<req, authQ, authBusy, stopped, delivered>>

\* prune: a token or a pending lease expires, or the desktop changed.
Lapse ==
  /\ \/ \E t \in tokens : tokens' = tokens \ {t} /\ UNCHANGED lease
     \/ lease # NoLease /\ lease' = NoLease /\ UNCHANGED tokens
  /\ UNCHANGED <<req, networkQ, authQ, lane, authBusy, stopped, delivered>>
==============================================================================
