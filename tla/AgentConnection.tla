--------------------------- MODULE AgentConnection ---------------------------
(***************************************************************************)
(* PLANKMacAgentConnection (apps/host/macos/session/agent-connection.m):   *)
(* the graphical process's side of its lease.  All handlers run on the     *)
(* process's serial main queue except bindGraphicalScope, which the        *)
(* authentication and media queues call.  A reply is handled in two steps, *)
(* because _valid() asks the window server and the directory between the   *)
(* moment the reply is timed and the moment the admission is renewed.      *)
(***************************************************************************)
EXTENDS AgentChannel

CONSTANT HealthInterval   \* 500 ms

ASSUME HealthAssumption == HealthInterval \in Nat

VARIABLES
  process,  \* per agent: "absent", "running" or "exited"
  conn      \* per agent: its PLANKMacAgentConnection

States == {"Connecting", "Ready", "Retiring", "Finished", "Disconnected"}
Terminal == {"Finished", "Disconnected"}

\* `renewing' is TRUE between the two steps of a reply.
Connection ==
  [state: States, generation: Nat, sequence: Nat, pending: Operations,
   sentAt: Nat, ackAt: Nat, retireRequested: BOOLEAN, renewing: BOOLEAN,
   admissionGeneration: Nat, admissionDeadline: Nat, admissionClosed: BOOLEAN]

NewConnection ==
  [state |-> "Connecting", generation |-> 0, sequence |-> 0, pending |-> 0,
   sentAt |-> 0, ackAt |-> 0, retireRequested |-> FALSE, renewing |-> FALSE,
   admissionGeneration |-> 0, admissionDeadline |-> 0, admissionClosed |-> FALSE]

-----------------------------------------------------------------------------
(***************************************************************************)
(* The methods as functions on the connection.                             *)
(***************************************************************************)
Transition(c, state) ==
  IF c.state = state \/ c.state \in Terminal THEN c
  ELSE IF state = "Ready" THEN [c EXCEPT !.state = state]
  ELSE [c EXCEPT !.state = state, !.admissionClosed = TRUE, !.admissionGeneration = 0]

Stop(c) == Transition(c, "Disconnected")

Revoke(c) ==
  CASE c.state = "Connecting" -> Stop(c)
    [] c.state = "Ready"      -> Transition(c, "Retiring")
    [] OTHER                  -> c

CanSend(c) == c.pending = 0 /\ c.state \notin Terminal

\* send: the new connection, and the new request on its channel.
Sent(c, op) ==
  [c EXCEPT !.pending = op, !.sentAt = now,
            !.sequence = IF op = 1 THEN @ ELSE @ + 1]

RequestOf(c, op) ==
  IF op = 1 THEN [NoRequest EXCEPT !.op = 1]
  ELSE [op |-> op, generation |-> c.generation, sequence |-> c.sequence + 1]

SendOn(ch, c, op) == IF CanSend(c) THEN [ch EXCEPT !.request = RequestOf(c, op)] ELSE ch

Send(c, op) == IF CanSend(c) THEN Sent(c, op) ELSE c

\* The main queue of agent a is serving: the process lives and no reply is
\* half handled.
Serving(a) == process[a] = "running" /\ ~conn[a].renewing

-----------------------------------------------------------------------------
\* The process starts: start validates the local scope and sends Register.
Launch(a) ==
  LET c == NewConnection IN
  /\ process[a] = "absent"
  /\ process' = [process EXCEPT ![a] = "running"]
  /\ conn' = [conn EXCEPT ![a] = IF valid[a] THEN Send(c, 1) ELSE Stop(c)]
  /\ chan' = [chan EXCEPT ![a] = IF valid[a] THEN SendOn(@, c, 1) ELSE @]
  /\ UNCHANGED <<now, valid, visible>>

ReplyTimedOut(c) == now - c.sentAt >= Freshness

\* authorized's test of the admission deadline.
Expired(c) == now >= c.admissionDeadline

\* The 250 ms watch: a reply that is overdue ends the connection; a Ready
\* connection that is still authorized sends the next health check.
AgentWatch(a) ==
  LET c == conn[a] IN
  /\ Serving(a) /\ c.state \notin Terminal
  /\ \/ /\ c.pending # 0 /\ ReplyTimedOut(c)
        /\ conn' = [conn EXCEPT ![a] = Stop(c)]
        /\ UNCHANGED chan
     \/ /\ ~(c.pending # 0 /\ ReplyTimedOut(c))
        /\ c.state = "Ready"
        /\ \/ ~valid[a] /\ conn' = [conn EXCEPT ![a] = Revoke(c)] /\ UNCHANGED chan
           \/ /\ valid[a] /\ (Expired(c) \/ c.admissionClosed)
              /\ conn' = [conn EXCEPT ![a] = Stop([c EXCEPT !.admissionClosed = TRUE])]
              /\ UNCHANGED chan
           \/ /\ valid[a] /\ ~Expired(c) /\ ~c.admissionClosed
              /\ c.pending = 0 /\ now - c.ackAt >= HealthInterval
              /\ conn' = [conn EXCEPT ![a] = Send(c, 2)]
              /\ chan' = [chan EXCEPT ![a] = SendOn(@, c, 2)]
  /\ UNCHANGED <<now, valid, visible, process>>

\* The replies that end the connection: overdue, unexpected, busy, or for
\* another generation.
BadReply(c, r) ==
  \/ c.pending # r.op
  \/ ReplyTimedOut(c)
  \/ r.op = 3 /\ (r.status # 2 \/ c.state # "Retiring")
  \/ r.op # 3 /\ r.status = 1
  \/ r.op = 2 /\ r.status = 0 /\ r.generation # c.generation

Acknowledged(c, r) ==
  [c EXCEPT !.pending = 0, !.ackAt = now,
            !.generation = IF r.op = 1 /\ r.status = 0 THEN r.generation ELSE @]

\* A retirement that waited for this reply is sent now.
WantsRetired(c) == c.retireRequested /\ c.state = "Retiring"
ThenRetired(c) == IF WantsRetired(c) THEN Send(c, 3) ELSE c
ThenRetiredOn(ch, c) == IF WantsRetired(c) THEN SendOn(ch, c, 3) ELSE ch

\* reply, up to the call of _valid(), or to its end where it does not call it.
ReceiveReply(a) ==
  LET c == conn[a]
      r == chan[a].reply
      ch == [chan[a] EXCEPT !.reply = NoReply]
      revoked == Revoke(Acknowledged(c, r))
  IN
  /\ Serving(a) /\ r.op # 0
  /\ \/ /\ c.state \in Terminal
        /\ UNCHANGED conn
        /\ chan' = [chan EXCEPT ![a] = ch]
     \/ /\ c.state \notin Terminal /\ BadReply(c, r)
        /\ conn' = [conn EXCEPT ![a] = Stop(c)]
        /\ chan' = [chan EXCEPT ![a] = ch]
     \/ /\ c.state \notin Terminal /\ ~BadReply(c, r) /\ r.op = 3
        /\ conn' = [conn EXCEPT ![a] = Transition([c EXCEPT !.pending = 0], "Finished")]
        /\ chan' = [chan EXCEPT ![a] = ch]
     \/ /\ c.state \notin Terminal /\ ~BadReply(c, r) /\ r.op # 3 /\ r.status = 2
        /\ conn' = [conn EXCEPT ![a] = ThenRetired(revoked)]
        /\ chan' = [chan EXCEPT ![a] = ThenRetiredOn(ch, revoked)]
     \/ /\ c.state \notin Terminal /\ ~BadReply(c, r) /\ r.op # 3 /\ r.status = 0
        /\ conn' = [conn EXCEPT ![a] = [Acknowledged(c, r) EXCEPT !.renewing = TRUE]]
        /\ chan' = [chan EXCEPT ![a] = ch]
  /\ UNCHANGED <<now, valid, visible, process>>

Lapsed_bug(c) == FALSE

\* The PREVIOUS admission ran out before this reply could renew it.
Lapsed(c) == c.admissionGeneration # 0 /\ Expired(c)

RenewedUntil_bug(c) == now + Freshness

\* The new deadline counts from the moment the reply was timed.
RenewedUntil(c) == c.ackAt + Freshness

\* The renewal of the admission under the self lock.
Renewed(c) ==
  IF c.admissionClosed \/ Lapsed(c) \/ now >= RenewedUntil(c)
  THEN Stop([c EXCEPT !.admissionClosed = TRUE])
  ELSE Transition([c EXCEPT !.admissionGeneration = c.generation,
                            !.admissionDeadline = RenewedUntil(c)], "Ready")

\* reply, from the result of _valid().
FinishReply(a) ==
  LET c == [conn[a] EXCEPT !.renewing = FALSE]
      d == IF ~valid[a] THEN Revoke(c)
           ELSE IF c.state \in {"Connecting", "Ready"} THEN Renewed(c)
           ELSE c
  IN
  /\ process[a] = "running" /\ conn[a].renewing
  /\ conn' = [conn EXCEPT ![a] = ThenRetired(d)]
  /\ chan' = [chan EXCEPT ![a] = ThenRetiredOn(@, d)]
  /\ UNCHANGED <<now, valid, visible, process>>

\* receive: a Revoke notification, which must name this generation.
ReceiveNotice(a) ==
  LET c == conn[a] IN
  /\ Serving(a) /\ chan[a].notice # 0
  /\ chan' = [chan EXCEPT ![a].notice = 0]
  /\ conn' = [conn EXCEPT ![a] =
                IF c.generation = chan[a].notice THEN Revoke(c) ELSE Stop(c)]
  /\ UNCHANGED <<now, valid, visible, process>>

\* receive or reply with an XPC error: interruption is terminal.
ReceiveCut(a) ==
  /\ Serving(a) /\ chan[a].cut /\ conn[a].state \notin Terminal
  /\ conn' = [conn EXCEPT ![a] = Stop(@)]
  /\ UNCHANGED <<now, valid, visible, process, chan>>

\* bindGraphicalScope, from any queue: what it would admit, and the case in
\* which it latches the admission closed.
Admitted(a) ==
  /\ process[a] = "running"
  /\ ~conn[a].admissionClosed /\ conn[a].admissionGeneration # 0
  /\ ~Expired(conn[a])
  /\ valid[a]

BindGraphicalScope(a) ==
  /\ process[a] = "running"
  /\ ~conn[a].admissionClosed /\ conn[a].admissionGeneration # 0
  /\ ~Admitted(a)
  /\ conn' = [conn EXCEPT ![a].admissionClosed = TRUE, ![a].admissionGeneration = 0]
  /\ UNCHANGED <<now, valid, visible, process, chan>>

\* retire: the owner of the connection has drained its media and input.
Retire(a) ==
  LET c == Revoke(conn[a])
      d == IF c.state = "Retiring" THEN [c EXCEPT !.retireRequested = TRUE] ELSE c
  IN
  /\ Serving(a) /\ ~conn[a].retireRequested /\ conn[a].state \notin Terminal
  /\ conn' = [conn EXCEPT ![a] = ThenRetired(d)]
  /\ chan' = [chan EXCEPT ![a] = ThenRetiredOn(@, d)]
  /\ UNCHANGED <<now, valid, visible, process>>

\* The process is gone, by exit(0) after the drain or by a crash, and with it
\* its memory and what was on its way to it.
Exit(a) ==
  /\ process[a] = "running"
  /\ process' = [process EXCEPT ![a] = "exited"]
  /\ conn' = [conn EXCEPT ![a] = NewConnection]
  /\ chan' = [chan EXCEPT ![a].reply = NoReply, ![a].notice = 0]
  /\ UNCHANGED <<now, valid, visible>>

==============================================================================
