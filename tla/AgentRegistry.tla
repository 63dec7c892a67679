----------------------------- MODULE AgentRegistry -----------------------------
(***************************************************************************)
(* PLANKMacAgentRegistry (apps/host/macos/session/agent-registry.m) and    *)
(* the machine coordinator that owns it (machine() in host-main.m): one    *)
(* exclusive slot, given to one graphical process at a time and released   *)
(* only when the kernel reports that exact process's exit.  Every handler  *)
(* runs on the coordinator's serial main queue.                            *)
(***************************************************************************)
EXTENDS AgentChannel, FiniteSets

CONSTANTS
  MaximumLinks,     \* 4
  RegisterTimeout,  \* 5 s
  MaxRestarts       \* bound on the coordinator's restarts

ASSUME RegistryAssumption ==
  /\ MaximumLinks \in Nat
  /\ RegisterTimeout \in Nat
  /\ MaxRestarts \in Nat

VARIABLES
  current,  \* _current
  link,     \* per agent: its PLANKMacAgentLink and the lease it holds
  granted,  \* generations handed out: the source of fresh random ones
  epoch     \* which incarnation of the coordinator is running

(***************************************************************************)
(* A link with generation 0 holds no lease.  `watched': the exit watch of  *)
(* machine() is armed for the lease.  History: `epoch' is the incarnation  *)
(* that granted the lease and `revokedAt' the time at which it ended.      *)
(***************************************************************************)
Link ==
  [state: {"none", "open", "closed"}, generation: Nat, active: BOOLEAN,
   retired: BOOLEAN, sequence: Nat, created: Nat, watched: BOOLEAN,
   epoch: Nat, revokedAt: Nat]

NewLink ==
  [state |-> "none", generation |-> 0, active |-> FALSE, retired |-> FALSE,
   sequence |-> 0, created |-> 0, watched |-> FALSE, epoch |-> 0, revokedAt |-> 0]

-----------------------------------------------------------------------------
(***************************************************************************)
(* The registry's own methods as functions on a link and its channel.      *)
(***************************************************************************)
\* revoke: the lease ends and an open connection is notified.
Revoked(l) == IF l.active THEN [l EXCEPT !.active = FALSE, !.revokedAt = now] ELSE l

Notified(ch, l) ==
  IF l.active /\ l.state = "open" THEN [ch EXCEPT !.notice = l.generation] ELSE ch

\* refresh: a lease whose scope the machine no longer observes is revoked.
OutOfScope(a) == link[a].active /\ a \notin visible
Refreshed(a) == IF OutOfScope(a) THEN Revoked(link[a]) ELSE link[a]
RefreshedOn(a) == IF OutOfScope(a) THEN Notified(chan[a], link[a]) ELSE chan[a]

\* close: an active lease is revoked and the connection cancelled; _current
\* stays until the controller has verified the cleanup.
Closed(l) == IF l.state = "closed" THEN l ELSE [Revoked(l) EXCEPT !.state = "closed"]

Cut(ch, l) ==
  IF l.state = "closed" THEN ch
  ELSE [Notified(ch, l) EXCEPT !.cut = TRUE, !.request = NoRequest]

CloseLink(a) ==
  /\ link' = [link EXCEPT ![a] = Closed(@)]
  /\ chan' = [chan EXCEPT ![a] = Cut(@, link[a])]

\* reply: the request is answered.
Answered(ch, op, status, generation) ==
  [ch EXCEPT !.request = NoRequest,
             !.reply = [op |-> op, status |-> status, generation |-> generation]]

OpenLinks == {a \in Agents : link[a].state = "open"}

-----------------------------------------------------------------------------
\* accept: the listener delivers a new connection.  It is cancelled when the
\* table is full, or when its signing requirement cannot be set.
Accept(a) ==
  /\ link[a].state = "none" /\ chan[a].request.op = 1 /\ ~chan[a].cut
  /\ \/ /\ Cardinality(OpenLinks) < MaximumLinks
        /\ link' = [link EXCEPT ![a].state = "open", ![a].created = now]
        /\ UNCHANGED chan
     \/ CloseLink(a)
  /\ UNCHANGED <<now, valid, visible, current, granted, epoch>>

SlotFree_bug == IF current = NoAgent THEN TRUE ELSE link[current].retired

SlotFreeRevoked_bug == IF current = NoAgent THEN TRUE ELSE ~link[current].active

SlotFree == current = NoAgent

\* receive, operation 1.  The Attached event arms the exit watch; where that
\* fails the lease is revoked at once and its slot stays taken.
Register(a) ==
  LET generation == granted + 1
      lease == [link[a] EXCEPT !.generation = generation, !.active = TRUE, !.epoch = epoch]
      answer == Answered(chan[a], 1, 0, generation)
  IN
  /\ link[a].state = "open" /\ chan[a].request.op = 1
  /\ \/ /\ a \notin visible \/ SlotFree   \* foreign scope, or no random number
        /\ CloseLink(a)
        /\ UNCHANGED <<current, granted>>
     \/ /\ a \in visible /\ ~SlotFree
        /\ chan' = [chan EXCEPT ![a] = Answered(@, 1, 1, 0)]
        /\ UNCHANGED <<link, current, granted>>
     \/ /\ a \in visible /\ SlotFree
        /\ current' = a /\ granted' = generation
        /\ \/ /\ link' = [link EXCEPT ![a] = [lease EXCEPT !.watched = TRUE]]
              /\ chan' = [chan EXCEPT ![a] = answer]
           \/ /\ link' = [link EXCEPT ![a] = Revoked(lease)]
              /\ chan' = [chan EXCEPT ![a] = Notified(answer, lease)]
  /\ UNCHANGED <<now, valid, visible, epoch>>

\* The test in front of operations 2 and 3.
Matches(a) ==
  LET r == chan[a].request IN
  /\ current = a
  /\ r.generation = link[a].generation
  /\ r.sequence = link[a].sequence + 1

\* receive, operation 2: the health check.
Check(a) ==
  LET l == [Refreshed(a) EXCEPT !.sequence = @ + 1]
      status == IF l.active THEN 0 ELSE 2
      generation == IF l.active THEN l.generation ELSE 0
  IN
  /\ link[a].state = "open" /\ chan[a].request.op = 2
  /\ IF Matches(a)
     THEN /\ link' = [link EXCEPT ![a] = l]
          /\ chan' = [chan EXCEPT ![a] = Answered(RefreshedOn(a), 2, status, generation)]
     ELSE CloseLink(a)
  /\ UNCHANGED <<now, valid, visible, current, granted, epoch>>

\* receive, operation 3: the agent reports its cleanup; the slot stays taken.
Retired(a) ==
  /\ link[a].state = "open" /\ chan[a].request.op = 3
  /\ IF Matches(a) /\ ~link[a].retired
     THEN /\ link' = [link EXCEPT ![a] =
                 [Revoked(@) EXCEPT !.retired = TRUE, !.sequence = link[a].sequence + 1]]
          /\ chan' = [chan EXCEPT ![a] = Answered(Notified(@, link[a]), 3, 2, 0)]
     ELSE CloseLink(a)
  /\ UNCHANGED <<now, valid, visible, current, granted, epoch>>

\* The 250 ms watch: refresh, and close the links that did not register.
Overdue(a) ==
  /\ link[a].state = "open" /\ link[a].generation = 0
  /\ now - link[a].created >= RegisterTimeout

RegistryWatch ==
  /\ link' = [a \in Agents |-> IF Overdue(a) THEN Closed(link[a]) ELSE Refreshed(a)]
  /\ chan' = [a \in Agents |-> IF Overdue(a) THEN Cut(chan[a], link[a]) ELSE RefreshedOn(a)]
  /\ UNCHANGED <<now, valid, visible, current, granted, epoch>>

\* revoke by the owner: authenticationScope calls it when the directory does
\* not resolve the lease's account.
RevokeCurrent ==
  /\ current # NoAgent /\ link[current].active
  /\ link' = [link EXCEPT ![current] = Revoked(@)]
  /\ chan' = [chan EXCEPT ![current] = Notified(@, link[current])]
  /\ UNCHANGED <<now, valid, visible, current, granted, epoch>>

\* receive with an XPC error: the agent cancelled its connection or is gone.
LinkLost(a, gone) ==
  /\ gone /\ link[a].state = "open"
  /\ CloseLink(a)
  /\ UNCHANGED <<now, valid, visible, current, granted, epoch>>

MayComplete_bug(a) == ~link[a].active

\* completeRetirement refuses an active lease, which revoke has ended before.
MayComplete(a) == ~Revoked(link[a]).active

\* The exit watch of machine(), which only the kernel's exit event fires: revoke,
\* completeRetirement (which closes the link), and the watch is cancelled.
ExitWatch(a, exited) ==
  LET freed == current = a /\ MayComplete(a) IN
  /\ link[a].watched /\ exited
  /\ current' = IF freed THEN NoAgent ELSE current
  /\ link' = [link EXCEPT ![a] =
                [(IF freed THEN Closed(Revoked(@)) ELSE Revoked(@)) EXCEPT !.watched = FALSE]]
  /\ chan' = [chan EXCEPT ![a] = IF freed THEN Cut(@, link[a]) ELSE Notified(@, link[a])]
  /\ UNCHANGED <<now, valid, visible, granted, epoch>>

\* The coordinator ends (cleanly, with registry stop, or by a crash) and launchd
\* starts it again with an empty registry; accepted connections are cut.
MachineRestart(clean) ==
  /\ epoch < MaxRestarts
  /\ epoch' = epoch + 1
  /\ current' = NoAgent
  /\ link' = [a \in Agents |->
               IF link[a].state = "none" THEN link[a]
               ELSE [Closed(link[a]) EXCEPT !.watched = FALSE]]
  /\ chan' = [a \in Agents |->
               IF link[a].state # "open" THEN chan[a]
               ELSE IF clean THEN Cut(chan[a], link[a])
               ELSE [chan[a] EXCEPT !.cut = TRUE, !.request = NoRequest]]
  /\ UNCHANGED <<now, valid, visible, granted>>
==============================================================================
