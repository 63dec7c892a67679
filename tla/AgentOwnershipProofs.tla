------------------------- MODULE AgentOwnershipProofs -------------------------
(***************************************************************************)
(* Exclusive ownership of the desktop for any number of graphical          *)
(* processes, links, restarts and clock steps.                             *)
(***************************************************************************)
EXTENDS AgentOwnership, TLAPS

-----------------------------------------------------------------------------
(* What the methods of a connection do to its generations.                 *)

\* The generation stays, and the admission is for it, for the old one or none.
Follows(c, d) ==
  /\ d \in Connection
  /\ d.generation = c.generation
  /\ d.admissionGeneration \in {0, c.generation, c.admissionGeneration}

\* A channel that the process has written to: no reply was invented.
Sends(ch, k) ==
  /\ k \in Channel
  /\ k.reply.generation \in {0, ch.reply.generation}

\* A state change keeps the generation and may only close the admission.
LEMMA TransitionFollows ==
  ASSUME NEW c \in Connection, NEW s \in States
  PROVE  Follows(c, Transition(c, s))
BY ZenonT(60) DEF Follows, Transition, Connection, States

\* Stopping does so too.
LEMMA StopFollows ==
  ASSUME NEW c \in Connection
  PROVE  Follows(c, Stop(c))
BY TransitionFollows, Zenon DEF Stop, States

\* And a revocation.
LEMMA RevokeFollows ==
  ASSUME NEW c \in Connection
  PROVE  Follows(c, Revoke(c))
<1>1. CASE c.state = "Connecting"
  BY <1>1, StopFollows, Zenon DEF Revoke
<1>2. CASE c.state = "Ready"
  BY <1>2, TransitionFollows, Zenon DEF Revoke, States
<1>3. CASE c.state \notin {"Connecting", "Ready"}
  BY <1>3, Zenon DEF Revoke, Follows
<1> QED BY <1>1, <1>2, <1>3, Zenon

\* Sending a request changes no generation.
LEMMA SendFollows ==
  ASSUME NEW c \in Connection, NEW op \in 1 .. 3, now \in Nat
  PROVE  Follows(c, Send(c, op))
<1>1. CASE CanSend(c)
  <2>1. Send(c, op) = Sent(c, op)
    BY <1>1, Zenon DEF Send
  <2>2. op \in Operations
    BY DEF Operations
  <2>3. c.sequence \in Nat /\ c.sequence + 1 \in Nat
    BY DEF Connection
  <2>4. CASE op = 1
    BY <2>1, <2>2, <2>3, <2>4, ZenonT(60) DEF Sent, Follows, Connection
  <2>5. CASE op # 1
    BY <2>1, <2>2, <2>3, <2>5, ZenonT(60) DEF Sent, Follows, Connection
  <2> QED BY <2>4, <2>5, Zenon
<1>2. CASE ~CanSend(c)
  BY <1>2, Zenon DEF Send, Follows
<1> QED BY <1>1, <1>2, Zenon

\* What follows a connection that follows another follows that one.
LEMMA FollowsOn ==
  ASSUME NEW c, NEW d, NEW e, Follows(c, d), Follows(d, e)
  PROVE  Follows(c, e)
BY Zenon DEF Follows

\* A retirement that is sent after a reply changes no generation.
LEMMA ThenRetiredFollows ==
  ASSUME NEW c, NEW d \in Connection, Follows(c, d), now \in Nat
  PROVE  Follows(c, ThenRetired(d))
<1>1. 3 \in 1 .. 3
  OBVIOUS
<1>2. Follows(d, Send(d, 3))
  BY <1>1, SendFollows, Zenon
<1> QED BY <1>2, FollowsOn, Zenon DEF ThenRetired

\* The renewal admits for the connection's own generation.
LEMMA RenewedFollows ==
  ASSUME NEW c \in Connection
  PROVE  Follows(c, Renewed(c))
<1>1. CASE c.admissionClosed \/ Lapsed(c) \/ now >= RenewedUntil(c)
  <2> DEFINE d == [c EXCEPT !.admissionClosed = TRUE]
  <2>1. d \in Connection /\ Follows(c, d)
    BY Zenon DEF Follows, Connection
  <2>2. Renewed(c) = Stop(d)
    BY <1>1, Zenon DEF Renewed
  <2> HIDE DEF d
  <2> QED BY <2>1, <2>2, StopFollows, FollowsOn, Zenon
<1>2. CASE ~(c.admissionClosed \/ Lapsed(c) \/ now >= RenewedUntil(c))
  <2> DEFINE d == [c EXCEPT !.admissionGeneration = c.generation,
                            !.admissionDeadline = RenewedUntil(c)]
  <2>0. RenewedUntil(c) \in Nat
    BY ChannelAssumption DEF RenewedUntil, Connection
  <2>1. d \in Connection /\ Follows(c, d)
    BY <2>0, Zenon DEF Follows, Connection
  <2>2. Renewed(c) = Transition(d, "Ready") /\ "Ready" \in States
    BY <1>2, Zenon DEF Renewed, States
  <2> HIDE DEF d
  <2> QED BY <2>1, <2>2, TransitionFollows, FollowsOn, Zenon
<1> QED BY <1>1, <1>2, Zenon

\* A request on its way invents no reply.
LEMMA SendOnSends ==
  ASSUME NEW ch \in Channel, NEW c \in Connection, NEW op \in 1 .. 3
  PROVE  Sends(ch, SendOn(ch, c, op))
<1>1. RequestOf(c, op) \in Request
  BY DEF RequestOf, Request, NoRequest, Operations, Connection
<1>2. CASE CanSend(c)
  BY <1>1, <1>2, Zenon DEF SendOn, Sends, Channel
<1>3. CASE ~CanSend(c)
  BY <1>3, Zenon DEF SendOn, Sends
<1> QED BY <1>2, <1>3, Zenon

\* Nor does one that waited for a reply.
LEMMA ThenRetiredOnSends ==
  ASSUME NEW ch \in Channel, NEW c \in Connection
  PROVE  Sends(ch, ThenRetiredOn(ch, c))
<1>1. 3 \in 1 .. 3
  OBVIOUS
<1>2. Sends(ch, SendOn(ch, c, 3))
  BY <1>1, SendOnSends, Zenon
<1> QED BY <1>2, Zenon DEF ThenRetiredOn, Sends
-----------------------------------------------------------------------------
(* The invariant and the steps of the graphical processes.                 *)

\* A process that has not started has asked for nothing and holds no lease; a
\* generation that a process knows, or is being told, is one of a lease it was
\* given; and of two living processes with leases each has its lease from
\* another incarnation of the coordinator.
OwnershipInv ==
  /\ TypeOK
  /\ \A a \in Agents :
       process[a] = "absent" => link[a].generation = 0 /\ chan[a].request.op = 0
  /\ \A a \in Agents :
       \/ conn[a].generation # 0 \/ conn[a].admissionGeneration # 0
       \/ chan[a].reply.generation # 0
       => link[a].generation # 0
  /\ \A a \in Agents : link[a].epoch <= epoch
  /\ SlotOutlivesProcess
  /\ \A a, b \in Agents :
       /\ a # b /\ process[a] = "running" /\ process[b] = "running"
       /\ link[a].generation # 0 /\ link[b].generation # 0
       => link[a].epoch # link[b].epoch

\* A step of one process that learns its generation from its own channel.
LEMMA AgentKept ==
  ASSUME OwnershipInv, NEW a \in Agents, NEW c, NEW ch, NEW p,
         conn' = [conn EXCEPT ![a] = c],
         chan' = [chan EXCEPT ![a] = ch],
         process' = [process EXCEPT ![a] = p],
         p \in {"running", "exited"}, p = "running" => process[a] # "exited",
         c \in Connection, Sends(chan[a], ch),
         c.generation \in {0, conn[a].generation, chan[a].reply.generation},
         c.admissionGeneration \in {0, conn[a].generation, conn[a].admissionGeneration},
         UNCHANGED <<now, valid, visible, current, link, granted, epoch>>
  PROVE  OwnershipInv'
<1>1. TypeOK'
  BY Zenon DEF OwnershipInv, TypeOK, Sends
<1>2. /\ conn'[a] = c /\ chan'[a] = ch /\ process'[a] = p
      /\ \A b \in Agents \ {a} :
           conn'[b] = conn[b] /\ chan'[b] = chan[b] /\ process'[b] = process[b]
  BY Zenon DEF OwnershipInv, TypeOK
<1>3. link' = link /\ epoch' = epoch /\ current' = current
  BY Zenon
<1>4. ASSUME NEW b \in Agents, process'[b] = "absent"
      PROVE  link'[b].generation = 0 /\ chan'[b].request.op = 0
  BY <1>2, <1>3, <1>4 DEF OwnershipInv
<1>5. ASSUME NEW b \in Agents,
             \/ conn'[b].generation # 0 \/ conn'[b].admissionGeneration # 0
             \/ chan'[b].reply.generation # 0
      PROVE  link'[b].generation # 0
  <2>1. CASE b = a
    BY <1>2, <1>3, <1>5, <2>1 DEF OwnershipInv, Sends
  <2>2. CASE b # a
    BY <1>2, <1>3, <1>5, <2>2 DEF OwnershipInv
  <2> QED BY <2>1, <2>2, Zenon
<1>6. \A b \in Agents :
        process'[b] = "running" /\ link[b].generation # 0 => process[b] = "running"
  <2> SUFFICES ASSUME NEW b \in Agents, process'[b] = "running", link[b].generation # 0
               PROVE  process[b] = "running"
    BY Zenon
  <2>1. process[b] \in {"absent", "running", "exited"} /\ process[b] # "absent"
    BY Zenon DEF OwnershipInv, TypeOK
  <2> QED BY <1>2, <2>1, Zenon
<1>7. SlotOutlivesProcess'
  BY <1>3, <1>6, ZenonT(60) DEF OwnershipInv, SlotOutlivesProcess
<1>8. ASSUME NEW b \in Agents, NEW d \in Agents, b # d,
             process'[b] = "running", process'[d] = "running",
             link'[b].generation # 0, link'[d].generation # 0
      PROVE  link'[b].epoch # link'[d].epoch
  BY <1>3, <1>6, <1>8, ZenonT(60) DEF OwnershipInv
<1>9. \A b \in Agents : link'[b].epoch <= epoch'
  BY <1>3, Zenon DEF OwnershipInv
<1> QED BY <1>1, <1>4, <1>5, <1>7, <1>8, <1>9, Zenon DEF OwnershipInv
\* The same for a step that moves the connection and the channel of a process
\* that runs and goes on running.
LEMMA ServedKept ==
  ASSUME OwnershipInv, NEW a \in Agents, NEW c, NEW ch,
         process[a] = "running", UNCHANGED process,
         conn' = [conn EXCEPT ![a] = c], chan' = [chan EXCEPT ![a] = ch],
         Follows(conn[a], c), Sends(chan[a], ch),
         UNCHANGED <<now, valid, visible, current, link, granted, epoch>>
  PROVE  OwnershipInv'
<1>1. process' = [process EXCEPT ![a] = "running"]
  BY Zenon DEF OwnershipInv, TypeOK
<1>2. /\ c \in Connection
      /\ c.generation \in {0, conn[a].generation, chan[a].reply.generation}
      /\ c.admissionGeneration \in {0, conn[a].generation, conn[a].admissionGeneration}
  BY Zenon DEF Follows
<1> QED BY <1>1, <1>2, AgentKept, Zenon

\* A channel or a connection that is left alone.
LEMMA LeftAlone ==
  ASSUME OwnershipInv, NEW a \in Agents
  PROVE  /\ chan = [chan EXCEPT ![a] = chan[a]] /\ Sends(chan[a], chan[a])
         /\ conn = [conn EXCEPT ![a] = conn[a]] /\ Follows(conn[a], conn[a])
         /\ conn[a] \in Connection /\ chan[a] \in Channel /\ now \in Nat
BY Zenon DEF OwnershipInv, TypeOK, Sends, Follows

\* Every step of a graphical process keeps the invariant of ownership.
LEMMA AgentStepKept ==
  ASSUME OwnershipInv, NEW a \in Agents, AgentStep(a)
  PROVE  OwnershipInv'
<1>0. UNCHANGED <<current, link, granted, epoch>>
  BY Zenon DEF AgentStep, registryVars
<1>a. /\ conn[a] \in Connection /\ chan[a] \in Channel /\ now \in Nat
      /\ chan = [chan EXCEPT ![a] = chan[a]] /\ Sends(chan[a], chan[a])
      /\ conn = [conn EXCEPT ![a] = conn[a]] /\ Follows(conn[a], conn[a])
  BY LeftAlone, Zenon
<1>b. 1 \in 1 .. 3 /\ 2 \in 1 .. 3 /\ 3 \in 1 .. 3
  OBVIOUS
<1>1. CASE Launch(a)
  <2> DEFINE c == IF valid[a] THEN Send(NewConnection, 1) ELSE Stop(NewConnection)
             ch == IF valid[a] THEN SendOn(chan[a], NewConnection, 1) ELSE chan[a]
  <2>1. /\ process[a] = "absent" /\ process' = [process EXCEPT ![a] = "running"]
        /\ conn' = [conn EXCEPT ![a] = c] /\ chan' = [chan EXCEPT ![a] = ch]
        /\ UNCHANGED <<now, valid, visible>>
    BY <1>1, Zenon DEF Launch
  <2>2. NewConnection \in Connection /\ NewConnection.generation = 0
        /\ NewConnection.admissionGeneration = 0
    BY DEF NewConnection, Connection, States, Operations
  <2>3. Follows(NewConnection, c)
    BY <1>a, <1>b, <2>2, SendFollows, StopFollows, Zenon
  <2>4. Sends(chan[a], ch)
    BY <1>a, <1>b, <2>2, SendOnSends, Zenon
  <2> HIDE DEF c, ch
  <2>5. c \in Connection /\ c.generation = 0 /\ c.admissionGeneration = 0
    BY <2>2, <2>3, Zenon DEF Follows
  <2> QED BY <1>0, <2>1, <2>4, <2>5, AgentKept, Zenon
<1>2. CASE AgentWatch(a)
  <2>1. process[a] = "running" /\ UNCHANGED <<process, now, valid, visible>>
    BY <1>2, Zenon DEF AgentWatch, Serving
  <2>2. CASE conn' = [conn EXCEPT ![a] = Stop(conn[a])] /\ UNCHANGED chan
    BY <1>0, <1>a, <2>1, <2>2, StopFollows, ServedKept, Zenon
  <2>3. CASE conn' = [conn EXCEPT ![a] = Revoke(conn[a])] /\ UNCHANGED chan
    BY <1>0, <1>a, <2>1, <2>3, RevokeFollows, ServedKept, Zenon
  <2>4. CASE /\ conn' = [conn EXCEPT ![a] = Stop([conn[a] EXCEPT !.admissionClosed = TRUE])]
             /\ UNCHANGED chan
    <3> DEFINE c == [conn[a] EXCEPT !.admissionClosed = TRUE]
    <3>1. c \in Connection /\ Follows(conn[a], c)
      BY <1>a, Zenon DEF Connection, Follows
    <3>2. conn' = [conn EXCEPT ![a] = Stop(c)]
      BY <2>4, Zenon
    <3> HIDE DEF c
    <3>3. Follows(conn[a], Stop(c))
      BY <3>1, StopFollows, FollowsOn, Zenon
    <3> QED BY <1>0, <1>a, <2>1, <2>4, <3>2, <3>3, ServedKept, Zenon
  <2>5. CASE /\ conn' = [conn EXCEPT ![a] = Send(conn[a], 2)]
             /\ chan' = [chan EXCEPT ![a] = SendOn(chan[a], conn[a], 2)]
    BY <1>0, <1>a, <1>b, <2>1, <2>5, SendFollows, SendOnSends, ServedKept, Zenon
  <2> QED BY <1>2, <2>2, <2>3, <2>4, <2>5, Zenon DEF AgentWatch
<1>3. CASE ReceiveReply(a)
  <2> DEFINE c == conn[a]
             r == chan[a].reply
             ch == [chan[a] EXCEPT !.reply = NoReply]
             known == Acknowledged(c, r)
             revoked == Revoke(known)
  <2>1. process[a] = "running" /\ UNCHANGED <<process, now, valid, visible>>
    BY <1>3, Zenon DEF ReceiveReply, Serving
  <2>2. Sends(chan[a], ch) /\ ch \in Channel /\ ch.reply.generation = 0
    BY <1>a DEF Sends, Channel, NoReply, Reply, Operations, Statuses
  <2>3. r \in Reply
    BY <1>a, Zenon DEF Channel
  <2>4. /\ known \in Connection
        /\ known.generation = (IF r.op = 1 /\ r.status = 0 THEN r.generation ELSE c.generation)
        /\ known.admissionGeneration = c.admissionGeneration
    <3>1. r.generation \in Nat /\ 0 \in Operations
      BY <2>3 DEF Reply, Operations
    <3> HIDE DEF r
    <3> QED BY <1>a, <3>1, Zenon DEF Acknowledged, Connection
  <2>5. CASE UNCHANGED conn /\ chan' = [chan EXCEPT ![a] = ch]
    <3> HIDE DEF ch
    <3> QED BY <1>0, <1>a, <2>1, <2>2, <2>5, ServedKept, Zenon
  <2>6. CASE conn' = [conn EXCEPT ![a] = Stop(c)] /\ chan' = [chan EXCEPT ![a] = ch]
    <3> HIDE DEF ch
    <3> QED BY <1>0, <1>a, <2>1, <2>2, <2>6, StopFollows, ServedKept, Zenon
  <2>7. CASE /\ conn' = [conn EXCEPT ![a] = Transition([c EXCEPT !.pending = 0], "Finished")]
             /\ chan' = [chan EXCEPT ![a] = ch]
    <3> DEFINE d == [c EXCEPT !.pending = 0]
    <3>1. d \in Connection /\ Follows(c, d) /\ "Finished" \in States
      BY <1>a DEF Connection, Follows, Operations, States
    <3>2. conn' = [conn EXCEPT ![a] = Transition(d, "Finished")]
      BY <2>7, Zenon
    <3> HIDE DEF ch, d
    <3>3. Follows(c, Transition(d, "Finished"))
      BY <3>1, TransitionFollows, FollowsOn, Zenon
    <3> QED BY <1>0, <2>1, <2>2, <2>7, <3>2, <3>3, ServedKept, Zenon
  <2>8. CASE /\ r.status = 2
             /\ conn' = [conn EXCEPT ![a] = ThenRetired(revoked)]
             /\ chan' = [chan EXCEPT ![a] = ThenRetiredOn(ch, revoked)]
    <3>1. Follows(c, known)
      BY <2>4, <2>8 DEF Follows
    <3> HIDE DEF ch, known
    <3>2. Follows(c, revoked) /\ revoked \in Connection
      BY <2>4, <3>1, RevokeFollows, FollowsOn, Zenon DEF Follows
    <3> HIDE DEF revoked
    <3>3. Follows(c, ThenRetired(revoked)) /\ Sends(ch, ThenRetiredOn(ch, revoked))
      BY <1>a, <2>2, <3>2, ThenRetiredFollows, ThenRetiredOnSends, Zenon
    <3>4. Sends(chan[a], ThenRetiredOn(ch, revoked))
      BY <2>2, <3>3, Zenon DEF Sends
    <3> QED BY <1>0, <2>1, <2>8, <3>3, <3>4, ServedKept, Zenon
  <2>9. CASE /\ conn' = [conn EXCEPT ![a] = [known EXCEPT !.renewing = TRUE]]
             /\ chan' = [chan EXCEPT ![a] = ch]
    <3> DEFINE d == [known EXCEPT !.renewing = TRUE]
    <3> HIDE DEF known, ch
    <3>1. /\ d \in Connection /\ d.generation = known.generation
          /\ d.admissionGeneration = known.admissionGeneration
      BY <2>4, Zenon DEF Connection
    <3>2. conn' = [conn EXCEPT ![a] = d]
      BY <2>9, Zenon
    <3> HIDE DEF d
    <3>3. /\ d.generation \in {0, conn[a].generation, chan[a].reply.generation}
          /\ d.admissionGeneration \in {0, conn[a].generation, conn[a].admissionGeneration}
      BY <2>4, <3>1, Zenon
    <3>4. process' = [process EXCEPT ![a] = "running"]
      BY <2>1, Zenon DEF OwnershipInv, TypeOK
    <3> QED BY <1>0, <2>1, <2>2, <2>9, <3>1, <3>2, <3>3, <3>4, AgentKept, Zenon
  <2> QED BY <1>3, <2>5, <2>6, <2>7, <2>8, <2>9, Zenon DEF ReceiveReply
<1>4. CASE FinishReply(a)
  <2> DEFINE c == [conn[a] EXCEPT !.renewing = FALSE]
             d == IF ~valid[a] THEN Revoke(c)
                  ELSE IF c.state \in {"Connecting", "Ready"} THEN Renewed(c)
                  ELSE c
  <2>1. /\ process[a] = "running" /\ UNCHANGED <<process, now, valid, visible>>
        /\ conn' = [conn EXCEPT ![a] = ThenRetired(d)]
        /\ chan' = [chan EXCEPT ![a] = ThenRetiredOn(chan[a], d)]
    BY <1>4, Zenon DEF FinishReply
  <2>2. c \in Connection /\ Follows(conn[a], c) /\ Follows(c, c)
    BY <1>a, Zenon DEF Connection, Follows
  <2> HIDE DEF c
  <2>3. Follows(c, d)
    BY <2>2, RevokeFollows, RenewedFollows, Zenon
  <2> HIDE DEF d
  <2>4. Follows(conn[a], d) /\ d \in Connection
    BY <2>2, <2>3, FollowsOn, Zenon DEF Follows
  <2>5. Follows(conn[a], ThenRetired(d)) /\ Sends(chan[a], ThenRetiredOn(chan[a], d))
    BY <1>a, <2>4, ThenRetiredFollows, ThenRetiredOnSends, Zenon
  <2> QED BY <1>0, <2>1, <2>5, ServedKept, Zenon
<1>5. CASE ReceiveNotice(a)
  <2> DEFINE c == IF conn[a].generation = chan[a].notice THEN Revoke(conn[a]) ELSE Stop(conn[a])
             ch == [chan[a] EXCEPT !.notice = 0]
  <2>1. /\ process[a] = "running" /\ UNCHANGED <<process, now, valid, visible>>
        /\ conn' = [conn EXCEPT ![a] = c]
    BY <1>5, Zenon DEF ReceiveNotice, Serving
  <2>2. chan' = [chan EXCEPT ![a] = ch]
    BY <1>5, Zenon DEF ReceiveNotice
  <2>3. Sends(chan[a], ch)
    BY <1>a, Zenon DEF Sends, Channel
  <2>4. Follows(conn[a], c)
    BY <1>a, RevokeFollows, StopFollows, Zenon
  <2> HIDE DEF c, ch
  <2> QED BY <1>0, <2>1, <2>2, <2>3, <2>4, ServedKept, Zenon
<1>6. CASE ReceiveCut(a)
  <2>1. /\ process[a] = "running" /\ UNCHANGED <<process, now, valid, visible, chan>>
        /\ conn' = [conn EXCEPT ![a] = Stop(conn[a])]
    BY <1>6, Zenon DEF ReceiveCut, Serving
  <2> QED BY <1>0, <1>a, <2>1, StopFollows, ServedKept, Zenon
<1>7. CASE BindGraphicalScope(a)
  <2> DEFINE c == [conn[a] EXCEPT !.admissionClosed = TRUE, !.admissionGeneration = 0]
  <2>1. /\ process[a] = "running" /\ UNCHANGED <<process, now, valid, visible, chan>>
    BY <1>7, Zenon DEF BindGraphicalScope
  <2>2. conn' = [conn EXCEPT ![a] = c]
    BY <1>7, <1>a, Zenon DEF BindGraphicalScope, OwnershipInv, TypeOK
  <2>3. Follows(conn[a], c)
    BY <1>a, Zenon DEF Connection, Follows
  <2> HIDE DEF c
  <2> QED BY <1>0, <1>a, <2>1, <2>2, <2>3, ServedKept, Zenon
<1>8. CASE Retire(a)
  <2> DEFINE c == Revoke(conn[a])
             d == IF c.state = "Retiring" THEN [c EXCEPT !.retireRequested = TRUE] ELSE c
  <2>1. /\ process[a] = "running" /\ UNCHANGED <<process, now, valid, visible>>
        /\ conn' = [conn EXCEPT ![a] = ThenRetired(d)]
        /\ chan' = [chan EXCEPT ![a] = ThenRetiredOn(chan[a], d)]
    BY <1>8, Zenon DEF Retire, Serving
  <2>2. Follows(conn[a], c) /\ c \in Connection
    BY <1>a, RevokeFollows, Zenon DEF Follows
  <2> HIDE DEF c
  <2>3. Follows(c, d) /\ d \in Connection
    BY <2>2, Zenon DEF Follows, Connection
  <2> HIDE DEF d
  <2>4. Follows(conn[a], d)
    BY <2>2, <2>3, FollowsOn, Zenon
  <2>5. Follows(conn[a], ThenRetired(d)) /\ Sends(chan[a], ThenRetiredOn(chan[a], d))
    BY <1>a, <2>3, <2>4, ThenRetiredFollows, ThenRetiredOnSends, Zenon
  <2> QED BY <1>0, <2>1, <2>5, ServedKept, Zenon
<1>9. CASE Exit(a)
  <2> DEFINE ch == [chan[a] EXCEPT !.reply = NoReply, !.notice = 0]
  <2>1. /\ process' = [process EXCEPT ![a] = "exited"] /\ UNCHANGED <<now, valid, visible>>
        /\ conn' = [conn EXCEPT ![a] = NewConnection]
    BY <1>9, Zenon DEF Exit
  <2>2. chan' = [chan EXCEPT ![a] = ch]
    BY <1>9, Zenon DEF Exit, OwnershipInv, TypeOK
  <2>3. NewConnection \in Connection /\ NewConnection.generation = 0
        /\ NewConnection.admissionGeneration = 0
    BY DEF NewConnection, Connection, States, Operations
  <2>4. Sends(chan[a], ch)
    <3>1. NoReply \in Reply /\ NoReply.generation = 0
      BY DEF NoReply, Reply, Operations, Statuses
    <3> QED BY <1>a, <3>1, Zenon DEF Sends, Channel
  <2> HIDE DEF ch
  <2> QED BY <1>0, <2>1, <2>2, <2>3, <2>4, AgentKept, Zenon
<1> QED BY <1>1, <1>2, <1>3, <1>4, <1>5, <1>6, <1>7, <1>8, <1>9, Zenon DEF AgentStep
-----------------------------------------------------------------------------
(* The steps of the coordinator.                                           *)

\* The lease of a link stays the same lease.
SameLease(l, m) == m \in Link /\ m.generation = l.generation /\ m.epoch = l.epoch

\* A request is answered or dropped at most, and a reply tells of a generation
\* only if there is one.
Serves(ch, k, l) ==
  /\ k \in Channel
  /\ k.request \in {ch.request, NoRequest}
  /\ k.reply.generation # 0 => ch.reply.generation # 0 \/ l.generation # 0

\* A revocation ends the lease and leaves its generation.
LEMMA RevokedSame ==
  ASSUME NEW l \in Link, now \in Nat
  PROVE  SameLease(l, Revoked(l))
BY Zenon DEF SameLease, Revoked, Link

\* So does closing the link.
LEMMA ClosedSame ==
  ASSUME NEW l \in Link, now \in Nat
  PROVE  SameLease(l, Closed(l))
<1>1. SameLease(l, Revoked(l))
  BY RevokedSame, Zenon
<1> QED BY <1>1, Zenon DEF SameLease, Closed, Link

\* A notification and a cut answer nothing.
LEMMA NotifiedServes ==
  ASSUME NEW ch \in Channel, NEW l \in Link
  PROVE  /\ Serves(ch, Notified(ch, l), l) /\ Notified(ch, l).request = ch.request
         /\ Notified(ch, l).reply = ch.reply
         /\ Serves(ch, Cut(ch, l), l)
<1>1. /\ Notified(ch, l) \in Channel /\ Notified(ch, l).request = ch.request
      /\ Notified(ch, l).reply = ch.reply
  BY Zenon DEF Notified, Channel, Link
<1>2. NoRequest \in Request
  BY DEF NoRequest, Request, Operations
<1>3. Cut(ch, l) \in Channel /\ Cut(ch, l).request \in {ch.request, NoRequest}
      /\ Cut(ch, l).reply = ch.reply
  BY <1>1, <1>2, Zenon DEF Cut, Channel
<1> QED BY <1>1, <1>3, Zenon DEF Serves

\* An answer takes the request away and tells the generation it is given.
LEMMA AnsweredServes ==
  ASSUME NEW ch \in Channel, NEW op \in Operations, NEW status \in Statuses, NEW g \in Nat
  PROVE  /\ Answered(ch, op, status, g) \in Channel
         /\ Answered(ch, op, status, g).request = NoRequest
         /\ Answered(ch, op, status, g).reply.generation = g
<1> DEFINE r == [op |-> op, status |-> status, generation |-> g]
<1>1. r \in Reply /\ r.generation = g
  BY Zenon DEF Reply
<1>2. NoRequest \in Request
  BY DEF NoRequest, Request, Operations
<1>3. Answered(ch, op, status, g) = [ch EXCEPT !.request = NoRequest, !.reply = r]
  BY Zenon DEF Answered
<1> HIDE DEF r
<1> QED BY <1>1, <1>2, <1>3, Zenon DEF Channel

\* A step of the coordinator that grants nothing: leases stay, and the slot is
\* kept or given up for a process that has exited.
LEMMA RegistryKept ==
  ASSUME OwnershipInv,
         link' \in [Agents -> Link], chan' \in [Agents -> Channel],
         \A a \in Agents : SameLease(link[a], link'[a]),
         \A a \in Agents : Serves(chan[a], chan'[a], link[a]),
         \/ current' = current
         \/ current' = NoAgent /\ \A a \in Agents : current = a => process[a] = "exited",
         UNCHANGED <<now, valid, visible, process, conn, granted, epoch>>
  PROVE  OwnershipInv'
<1>1. TypeOK'
  BY Zenon DEF OwnershipInv, TypeOK
<1>2. \A a \in Agents : /\ link'[a].generation = link[a].generation
                        /\ link'[a].epoch = link[a].epoch
  BY Zenon DEF SameLease
<1>3. ASSUME NEW a \in Agents, process'[a] = "absent"
      PROVE  link'[a].generation = 0 /\ chan'[a].request.op = 0
  <2>1. link[a].generation = 0 /\ chan[a].request.op = 0
    BY <1>3, Zenon DEF OwnershipInv
  <2>2. NoRequest.op = 0
    BY Zenon DEF NoRequest
  <2> QED BY <1>2, <2>1, <2>2, Zenon DEF Serves
<1>4. ASSUME NEW a \in Agents,
             \/ conn'[a].generation # 0 \/ conn'[a].admissionGeneration # 0
             \/ chan'[a].reply.generation # 0
      PROVE  link'[a].generation # 0
  BY <1>2, <1>4, Zenon DEF OwnershipInv, Serves
<1>5. \A a \in Agents : link'[a].epoch <= epoch'
  BY <1>2, Zenon DEF OwnershipInv
<1>6. SlotOutlivesProcess'
  BY <1>2, Zenon DEF OwnershipInv, SlotOutlivesProcess
<1>7. ASSUME NEW a \in Agents, NEW b \in Agents, a # b,
             process'[a] = "running", process'[b] = "running",
             link'[a].generation # 0, link'[b].generation # 0
      PROVE  link'[a].epoch # link'[b].epoch
  BY <1>2, <1>7 DEF OwnershipInv
<1> QED BY <1>1, <1>3, <1>4, <1>5, <1>6, <1>7, Zenon DEF OwnershipInv

\* The same for a step that touches one link and its channel.
LEMMA LinkKept ==
  ASSUME OwnershipInv, NEW a \in Agents, NEW l, NEW ch,
         link' = [link EXCEPT ![a] = l], chan' = [chan EXCEPT ![a] = ch],
         SameLease(link[a], l), Serves(chan[a], ch, link[a]),
         \/ current' = current
         \/ current' = NoAgent /\ \A b \in Agents : current = b => process[b] = "exited",
         UNCHANGED <<now, valid, visible, process, conn, granted, epoch>>
  PROVE  OwnershipInv'
<1>1. link' \in [Agents -> Link] /\ chan' \in [Agents -> Channel]
  BY Zenon DEF OwnershipInv, TypeOK, SameLease, Serves
<1>2. ASSUME NEW b \in Agents
      PROVE  SameLease(link[b], link'[b]) /\ Serves(chan[b], chan'[b], link[b])
  <2>1. CASE b = a
    BY <2>1, Zenon DEF OwnershipInv, TypeOK
  <2>2. CASE b # a
    BY <2>2, Zenon DEF OwnershipInv, TypeOK, SameLease, Serves
  <2> QED BY <2>1, <2>2, Zenon
<1> QED BY <1>1, <1>2, RegistryKept, Zenon
\* Closing a link keeps the invariant.
LEMMA CloseLinkKept ==
  ASSUME OwnershipInv, NEW a \in Agents, CloseLink(a),
         UNCHANGED <<now, valid, visible, process, conn, current, granted, epoch>>
  PROVE  OwnershipInv'
<1>1. link[a] \in Link /\ chan[a] \in Channel /\ now \in Nat
  BY Zenon DEF OwnershipInv, TypeOK
<1>2. /\ link' = [link EXCEPT ![a] = Closed(link[a])]
      /\ chan' = [chan EXCEPT ![a] = Cut(chan[a], link[a])]
  BY Zenon DEF CloseLink
<1> QED BY <1>1, <1>2, ClosedSame, NotifiedServes, LinkKept, Zenon

\* A registration is granted only while the slot is free, and the slot is free
\* only when no living process has a lease of this incarnation.
LEMMA GrantKept ==
  ASSUME OwnershipInv, NEW a \in Agents, NEW l \in Link, NEW ch \in Channel,
         chan[a].request.op = 1, SlotFree,
         link' = [link EXCEPT ![a] = l], chan' = [chan EXCEPT ![a] = ch],
         l.generation = granted + 1, l.epoch = epoch, current' = a, granted' = granted + 1,
         UNCHANGED <<now, valid, visible, process, conn, epoch>>
  PROVE  OwnershipInv'
<1>1. granted \in Nat /\ epoch \in Nat /\ current = NoAgent /\ NoAgent \notin Agents
  BY ChannelAssumption, Zenon DEF OwnershipInv, TypeOK, SlotFree
<1>2. granted + 1 \in Nat /\ granted + 1 # 0 /\ epoch <= epoch
  BY <1>1
<1>3. TypeOK'
  BY <1>2, Zenon DEF OwnershipInv, TypeOK
<1>4. /\ link'[a] = l /\ chan'[a] = ch
      /\ \A b \in Agents \ {a} : link'[b] = link[b] /\ chan'[b] = chan[b]
  BY Zenon DEF OwnershipInv, TypeOK
<1>5. process[a] # "absent"
  BY DEF OwnershipInv
<1>6. \A b \in Agents \ {a} :
        process[b] = "running" /\ link[b].generation # 0 => link[b].epoch # epoch
  BY <1>1, Zenon DEF OwnershipInv, SlotOutlivesProcess
<1>7. ASSUME NEW b \in Agents, process'[b] = "absent"
      PROVE  link'[b].generation = 0 /\ chan'[b].request.op = 0
  BY <1>4, <1>5, <1>7 DEF OwnershipInv
<1>8. ASSUME NEW b \in Agents,
             \/ conn'[b].generation # 0 \/ conn'[b].admissionGeneration # 0
             \/ chan'[b].reply.generation # 0
      PROVE  link'[b].generation # 0
  BY <1>2, <1>4, <1>8, ZenonT(60) DEF OwnershipInv
<1>9. \A b \in Agents : link'[b].epoch <= epoch'
  BY <1>2, <1>4 DEF OwnershipInv
<1>10. SlotOutlivesProcess'
  BY <1>4, <1>6, Zenon DEF SlotOutlivesProcess
<1>11. ASSUME NEW b \in Agents, NEW d \in Agents, b # d,
              process'[b] = "running", process'[d] = "running",
              link'[b].generation # 0, link'[d].generation # 0
       PROVE  link'[b].epoch # link'[d].epoch
  <2>1. CASE b = a \/ d = a
    BY <1>4, <1>6, <1>11, <2>1, ZenonT(60)
  <2>2. CASE b # a /\ d # a
    BY <1>4, <1>11, <2>2 DEF OwnershipInv
  <2> QED BY <2>1, <2>2, Zenon
<1> QED BY <1>3, <1>7, <1>8, <1>9, <1>10, <1>11, Zenon DEF OwnershipInv

\* receive with a Register request keeps the invariant.
LEMMA RegisterKept ==
  ASSUME OwnershipInv, NEW a \in Agents, Register(a), UNCHANGED <<process, conn>>
  PROVE  OwnershipInv'
<1> DEFINE lease == [link[a] EXCEPT !.generation = granted + 1, !.active = TRUE, !.epoch = epoch]
           answer == Answered(chan[a], 1, 0, granted + 1)
<1>0. chan[a].request.op = 1 /\ UNCHANGED <<now, valid, visible, epoch>>
  BY Zenon DEF Register
<1>1. /\ link \in [Agents -> Link] /\ chan \in [Agents -> Channel]
      /\ link[a] \in Link /\ chan[a] \in Channel /\ now \in Nat /\ granted \in Nat
      /\ epoch \in Nat /\ granted + 1 \in Nat
  BY DEF OwnershipInv, TypeOK
<1>2. /\ 1 \in Operations /\ 0 \in Statuses /\ 1 \in Statuses /\ 0 \in Nat
  BY DEF Operations, Statuses
<1>3. CASE CloseLink(a) /\ UNCHANGED <<current, granted>>
  BY <1>0, <1>3, CloseLinkKept, Zenon
<1>4. CASE /\ chan' = [chan EXCEPT ![a] = Answered(chan[a], 1, 1, 0)]
           /\ UNCHANGED <<link, current, granted>>
  <2>1. Serves(chan[a], Answered(chan[a], 1, 1, 0), link[a])
    BY <1>1, <1>2, AnsweredServes, ZenonT(60) DEF Serves
  <2>2. link' = [link EXCEPT ![a] = link[a]] /\ SameLease(link[a], link[a])
    BY <1>1, <1>4, Zenon DEF SameLease
  <2> QED BY <1>0, <1>4, <2>1, <2>2, LinkKept, Zenon
<1>5. CASE SlotFree /\ current' = a /\ granted' = granted + 1
           /\ \/ /\ link' = [link EXCEPT ![a] = [lease EXCEPT !.watched = TRUE]]
                 /\ chan' = [chan EXCEPT ![a] = answer]
              \/ /\ link' = [link EXCEPT ![a] = Revoked(lease)]
                 /\ chan' = [chan EXCEPT ![a] = Notified(answer, lease)]
  <2>1. lease \in Link /\ lease.generation = granted + 1 /\ lease.epoch = epoch
    BY <1>1, Zenon DEF Link
  <2>2. answer \in Channel
    BY <1>1, <1>2, AnsweredServes, Zenon
  <2> HIDE DEF lease, answer
  <2>3. CASE /\ link' = [link EXCEPT ![a] = [lease EXCEPT !.watched = TRUE]]
             /\ chan' = [chan EXCEPT ![a] = answer]
    <3> DEFINE l == [lease EXCEPT !.watched = TRUE]
    <3>1. l \in Link /\ l.generation = granted + 1 /\ l.epoch = epoch
      BY <2>1, Zenon DEF Link
    <3>2. link' = [link EXCEPT ![a] = l]
      BY <2>3, Zenon
    <3> HIDE DEF l
    <3> QED BY <1>0, <1>5, <2>2, <2>3, <3>1, <3>2, GrantKept, Zenon
  <2>4. CASE /\ link' = [link EXCEPT ![a] = Revoked(lease)]
             /\ chan' = [chan EXCEPT ![a] = Notified(answer, lease)]
    <3>1. /\ Revoked(lease) \in Link /\ Revoked(lease).generation = granted + 1
          /\ Revoked(lease).epoch = epoch
      BY <1>1, <2>1, RevokedSame, Zenon DEF SameLease
    <3>2. Notified(answer, lease) \in Channel
      BY <2>1, <2>2, NotifiedServes, Zenon DEF Serves
    <3> QED BY <1>0, <1>5, <2>4, <3>1, <3>2, GrantKept, Zenon
  <2> QED BY <1>5, <2>3, <2>4, Zenon
<1> QED BY <1>3, <1>4, <1>5, Zenon DEF Register
\* Every step of the coordinator keeps the invariant of ownership.
LEMMA RegistryStepKept ==
  ASSUME OwnershipInv, RegistryStep
  PROVE  OwnershipInv'
<1>0. UNCHANGED <<process, conn>>
  BY Zenon DEF RegistryStep, connVars
<1>a. /\ link \in [Agents -> Link] /\ chan \in [Agents -> Channel] /\ now \in Nat
      /\ \A b \in Agents : link[b] \in Link /\ chan[b] \in Channel
  BY Zenon DEF OwnershipInv, TypeOK
<1>b. \A b \in Agents : /\ SameLease(link[b], link[b]) /\ Serves(chan[b], chan[b], link[b])
                        /\ SameLease(link[b], Refreshed(b))
                        /\ Serves(chan[b], RefreshedOn(b), link[b])
                        /\ RefreshedOn(b) \in Channel
                        /\ RefreshedOn(b).reply.generation = chan[b].reply.generation
  <2> TAKE b \in Agents
  <2>1. SameLease(link[b], link[b]) /\ Serves(chan[b], chan[b], link[b])
    BY <1>a, Zenon DEF SameLease, Serves
  <2> QED BY <1>a, <2>1, RevokedSame, NotifiedServes, Zenon
            DEF Refreshed, RefreshedOn, Serves
<1>1. ASSUME NEW a \in Agents, Accept(a) PROVE OwnershipInv'
  <2>1. UNCHANGED <<now, valid, visible, current, granted, epoch>>
    BY <1>1, Zenon DEF Accept
  <2>2. CASE CloseLink(a)
    BY <1>0, <2>1, <2>2, CloseLinkKept, Zenon
  <2>3. CASE link' = [link EXCEPT ![a].state = "open", ![a].created = now] /\ UNCHANGED chan
    <3> DEFINE l == [link[a] EXCEPT !.state = "open", !.created = now]
    <3>1. SameLease(link[a], l)
      BY <1>a, Zenon DEF SameLease, Link
    <3>2. link' = [link EXCEPT ![a] = l] /\ chan' = [chan EXCEPT ![a] = chan[a]]
      BY <1>a, <2>3, Zenon
    <3> HIDE DEF l
    <3> QED BY <1>0, <1>b, <2>1, <3>1, <3>2, LinkKept, Zenon
  <2> QED BY <1>1, <2>2, <2>3, Zenon DEF Accept
<1>2. ASSUME NEW a \in Agents, Register(a) PROVE OwnershipInv'
  BY <1>0, <1>2, RegisterKept, Zenon
<1>3. ASSUME NEW a \in Agents, Check(a) PROVE OwnershipInv'
  <2> DEFINE l == [Refreshed(a) EXCEPT !.sequence = @ + 1]
             status == IF l.active THEN 0 ELSE 2
             generation == IF l.active THEN l.generation ELSE 0
  <2>1. UNCHANGED <<now, valid, visible, current, granted, epoch>>
    BY <1>3, Zenon DEF Check
  <2>2. CASE CloseLink(a)
    BY <1>0, <2>1, <2>2, CloseLinkKept, Zenon
  <2>3. CASE /\ link' = [link EXCEPT ![a] = l]
             /\ chan' = [chan EXCEPT ![a] = Answered(RefreshedOn(a), 2, status, generation)]
    <3>1. Refreshed(a) \in Link /\ SameLease(link[a], Refreshed(a))
      BY <1>b, Zenon DEF SameLease
    <3>2. l \in Link /\ l.generation = link[a].generation /\ l.epoch = link[a].epoch
      BY <3>1 DEF SameLease, Link
    <3>3. /\ status \in Statuses /\ 2 \in Operations
          /\ generation \in Nat /\ (generation # 0 => link[a].generation # 0)
      BY <3>2 DEF Statuses, Operations, Link
    <3> HIDE DEF l, status, generation
    <3>4. Serves(chan[a], Answered(RefreshedOn(a), 2, status, generation), link[a])
      BY <1>b, <3>3, AnsweredServes, ZenonT(60) DEF Serves
    <3> QED BY <1>0, <2>1, <2>3, <3>2, <3>4, LinkKept, Zenon DEF SameLease
  <2> QED BY <1>3, <2>2, <2>3, Zenon DEF Check
<1>4. ASSUME NEW a \in Agents, Retired(a) PROVE OwnershipInv'
  <2> DEFINE l == [Revoked(link[a]) EXCEPT !.retired = TRUE,
                                           !.sequence = link[a].sequence + 1]
             ch == Answered(Notified(chan[a], link[a]), 3, 2, 0)
  <2>1. UNCHANGED <<now, valid, visible, current, granted, epoch>>
    BY <1>4, Zenon DEF Retired
  <2>2. CASE CloseLink(a)
    BY <1>0, <2>1, <2>2, CloseLinkKept, Zenon
  <2>3. CASE link' = [link EXCEPT ![a] = l] /\ chan' = [chan EXCEPT ![a] = ch]
    <3>1. Revoked(link[a]) \in Link /\ SameLease(link[a], Revoked(link[a]))
      BY <1>a, RevokedSame, Zenon DEF SameLease
    <3>2. SameLease(link[a], l)
      <4> DEFINE r == Revoked(link[a])
                 q == [r EXCEPT !.retired = TRUE]
                 n == link[a].sequence + 1
      <4>1. r \in Link /\ r.generation = link[a].generation /\ r.epoch = link[a].epoch
        BY <3>1, Zenon DEF SameLease
      <4>2. n \in Nat
        BY <1>a DEF Link
      <4>3. l = [q EXCEPT !.sequence = n]
        BY <4>1, Zenon DEF Link
      <4> HIDE DEF r, l, n
      <4>4. q \in Link /\ q.generation = link[a].generation /\ q.epoch = link[a].epoch
        BY <4>1, Zenon DEF Link
      <4> HIDE DEF q
      <4> QED BY <4>2, <4>3, <4>4, Zenon DEF SameLease, Link
    <3>3. 3 \in Operations /\ 2 \in Statuses /\ 0 \in Nat
      BY DEF Operations, Statuses
    <3>4. Notified(chan[a], link[a]) \in Channel
      BY <1>a, NotifiedServes, Zenon DEF Serves
    <3>5. Serves(chan[a], ch, link[a])
      BY <3>3, <3>4, AnsweredServes, Zenon DEF Serves
    <3> HIDE DEF l, ch
    <3> QED BY <1>0, <2>1, <2>3, <3>2, <3>5, LinkKept, Zenon
  <2>4. \/ CloseLink(a)
        \/ link' = [link EXCEPT ![a] = l] /\ chan' = [chan EXCEPT ![a] = ch]
    BY <1>4, Zenon DEF Retired
  <2> QED BY <2>2, <2>3, <2>4, Zenon
<1>5. ASSUME NEW a \in Agents, LinkLost(a, PeerGone(a)) PROVE OwnershipInv'
  BY <1>0, <1>5, CloseLinkKept, Zenon DEF LinkLost
<1>6. ASSUME NEW a \in Agents, ExitWatch(a, process[a] = "exited") PROVE OwnershipInv'
  <2> DEFINE freed == current = a /\ MayComplete(a)
             m == IF freed THEN Closed(Revoked(link[a])) ELSE Revoked(link[a])
             l == [m EXCEPT !.watched = FALSE]
             ch == IF freed THEN Cut(chan[a], link[a]) ELSE Notified(chan[a], link[a])
  <2>1. process[a] = "exited" /\ UNCHANGED <<now, valid, visible, granted, epoch>>
    BY <1>6, Zenon DEF ExitWatch
  <2>2. link' = [link EXCEPT ![a] = l] /\ chan' = [chan EXCEPT ![a] = ch]
    BY <1>6, Zenon DEF ExitWatch
  <2>3. \/ current' = current
        \/ current' = NoAgent /\ \A b \in Agents : current = b => process[b] = "exited"
    BY <1>6, <2>1, Zenon DEF ExitWatch
  <2>4. Revoked(link[a]) \in Link /\ SameLease(link[a], Revoked(link[a]))
    BY <1>a, RevokedSame, Zenon DEF SameLease
  <2>5. m \in Link /\ SameLease(link[a], m)
    BY <1>a, <2>4, ClosedSame, Zenon DEF SameLease
  <2>6. Serves(chan[a], ch, link[a])
    BY <1>a, NotifiedServes, Zenon
  <2> HIDE DEF m, ch
  <2>7. SameLease(link[a], l)
    BY <2>5, Zenon DEF SameLease, Link
  <2> HIDE DEF l
  <2> QED BY <1>0, <2>1, <2>2, <2>3, <2>6, <2>7, LinkKept, Zenon
<1>7. CASE RegistryWatch
  <2>1. UNCHANGED <<now, valid, visible, current, granted, epoch>>
    BY <1>7, Zenon DEF RegistryWatch
  <2>2. ASSUME NEW b \in Agents
        PROVE  SameLease(link[b], link'[b]) /\ Serves(chan[b], chan'[b], link[b])
    <3>1. /\ link'[b] = IF Overdue(b) THEN Closed(link[b]) ELSE Refreshed(b)
          /\ chan'[b] = IF Overdue(b) THEN Cut(chan[b], link[b]) ELSE RefreshedOn(b)
      BY <1>7, Zenon DEF RegistryWatch
    <3>2. SameLease(link[b], Closed(link[b])) /\ Serves(chan[b], Cut(chan[b], link[b]), link[b])
      BY <1>a, ClosedSame, NotifiedServes, Zenon
    <3> QED BY <1>b, <3>1, <3>2, Zenon
  <2>3. link' \in [Agents -> Link] /\ chan' \in [Agents -> Channel]
    <3>1. \A b \in Agents : link'[b] \in Link /\ chan'[b] \in Channel
      BY <2>2, Zenon DEF SameLease, Serves
    <3>2. link' = [b \in Agents |-> link'[b]] /\ chan' = [b \in Agents |-> chan'[b]]
      BY <1>7, Zenon DEF RegistryWatch
    <3> QED BY <3>1, <3>2, Zenon
  <2> QED BY <1>0, <2>1, <2>2, <2>3, RegistryKept, Zenon
<1>8. CASE RevokeCurrent
  <2>1. /\ UNCHANGED <<now, valid, visible, current, granted, epoch>> /\ current # NoAgent
        /\ link' = [link EXCEPT ![current] = Revoked(link[current])]
        /\ chan' = [chan EXCEPT ![current] = Notified(chan[current], link[current])]
    BY <1>8, Zenon DEF RevokeCurrent
  <2>2. current \in Agents
    BY <2>1, Zenon DEF OwnershipInv, TypeOK
  <2>3. /\ SameLease(link[current], Revoked(link[current]))
        /\ Serves(chan[current], Notified(chan[current], link[current]), link[current])
    BY <1>a, <2>2, RevokedSame, NotifiedServes, Zenon
  <2> QED BY <1>0, <2>1, <2>2, <2>3, LinkKept, Zenon
<1>9. ASSUME NEW clean \in BOOLEAN, MachineRestart(clean) PROVE OwnershipInv'
  <2>1. UNCHANGED <<now, valid, visible, granted>> /\ epoch' = epoch + 1 /\ current' = NoAgent
    BY <1>9, Zenon DEF MachineRestart
  <2>2. ASSUME NEW b \in Agents
        PROVE  SameLease(link[b], link'[b]) /\ Serves(chan[b], chan'[b], link[b])
    <3> DEFINE m == Closed(link[b])
               l == [m EXCEPT !.watched = FALSE]
               ch == [chan[b] EXCEPT !.cut = TRUE, !.request = NoRequest]
    <3>1. /\ link'[b] = IF link[b].state = "none" THEN link[b] ELSE l
          /\ chan'[b] = IF link[b].state # "open" THEN chan[b]
                        ELSE IF clean THEN Cut(chan[b], link[b]) ELSE ch
      BY <1>9, Zenon DEF MachineRestart
    <3>2. m \in Link /\ m.generation = link[b].generation /\ m.epoch = link[b].epoch
      BY <1>a, ClosedSame, Zenon DEF SameLease
    <3> HIDE DEF m
    <3>3. SameLease(link[b], l)
      BY <3>2, Zenon DEF SameLease, Link
    <3>4. NoRequest \in Request
      BY DEF NoRequest, Request, Operations
    <3>5. Serves(chan[b], ch, link[b])
      BY <1>a, <3>4, Zenon DEF Serves, Channel
    <3>6. Serves(chan[b], Cut(chan[b], link[b]), link[b])
      BY <1>a, NotifiedServes, Zenon
    <3> HIDE DEF l, ch
    <3> QED BY <1>b, <3>1, <3>3, <3>5, <3>6, Zenon
  <2>3. link' \in [Agents -> Link] /\ chan' \in [Agents -> Channel]
    <3>1. \A b \in Agents : link'[b] \in Link /\ chan'[b] \in Channel
      BY <2>2, Zenon DEF SameLease, Serves
    <3>2. link' = [b \in Agents |-> link'[b]] /\ chan' = [b \in Agents |-> chan'[b]]
      BY <1>9, Zenon DEF MachineRestart
    <3> QED BY <3>1, <3>2, Zenon
  <2>4. TypeOK'
    BY <1>0, <2>1, <2>3 DEF OwnershipInv, TypeOK
  <2>5. epoch \in Nat /\ \A b \in Agents : link'[b].epoch = link[b].epoch /\ link[b].epoch <= epoch
    BY <2>2, Zenon DEF SameLease, OwnershipInv, TypeOK
  <2>6. \A b \in Agents : link'[b].epoch <= epoch' /\ link'[b].epoch # epoch'
    BY <1>a, <2>1, <2>5 DEF Link
  <2>7. \A b \in Agents :
          /\ process[b] = "absent" => link'[b].generation = 0 /\ chan'[b].request.op = 0
          /\ \/ conn[b].generation # 0 \/ conn[b].admissionGeneration # 0
             \/ chan'[b].reply.generation # 0
             => link'[b].generation # 0
    BY <2>2 DEF SameLease, Serves, OwnershipInv, NoRequest
  <2>8. SlotOutlivesProcess'
    BY <2>6, Zenon DEF SlotOutlivesProcess
  <2>9. \A b, c \in Agents :
          /\ b # c /\ process[b] = "running" /\ process[c] = "running"
          /\ link'[b].generation # 0 /\ link'[c].generation # 0
          => link'[b].epoch # link'[c].epoch
    BY <2>2 DEF SameLease, OwnershipInv
  <2> QED BY <1>0, <2>4, <2>6, <2>7, <2>8, <2>9, Zenon DEF OwnershipInv
<1> QED BY <1>1, <1>2, <1>3, <1>4, <1>5, <1>6, <1>7, <1>8, <1>9, Zenon DEF RegistryStep
\* The invariant of ownership holds initially and every step keeps it.
LEMMA OwnershipStart == Init => OwnershipInv
<1> SUFFICES ASSUME Init PROVE OwnershipInv
  BY Zenon
<1>1. NewLink \in Link /\ NewLink.generation = 0 /\ NewLink.epoch = 0
  BY Zenon DEF NewLink, Link
<1>2. NoRequest \in Request /\ NoReply \in Reply
  BY DEF NoRequest, NoReply, Request, Reply, Operations, Statuses
<1>3. /\ NewChannel \in Channel /\ NewChannel.request.op = 0
      /\ NewChannel.reply.generation = 0
  BY <1>2, Zenon DEF NewChannel, NoRequest, NoReply, Channel
<1>4. /\ NewConnection \in Connection /\ NewConnection.generation = 0
      /\ NewConnection.admissionGeneration = 0
  BY DEF NewConnection, Connection, States, Operations
<1>5. TypeOK
  BY <1>1, <1>3, <1>4, Zenon DEF Init, TypeOK
<1> QED BY <1>1, <1>3, <1>4, <1>5 DEF Init, OwnershipInv, SlotOutlivesProcess

\* Every step of a process, the coordinator, the console or time keeps it.
LEMMA OwnershipStep == OwnershipInv /\ [Next]_vars => OwnershipInv'
<1> SUFFICES ASSUME OwnershipInv, [Next]_vars PROVE OwnershipInv'
  BY Zenon
<1>1. ASSUME NEW a \in Agents, AgentStep(a) PROVE OwnershipInv'
  BY <1>1, AgentStepKept, Zenon
<1>2. CASE RegistryStep
  BY <1>2, RegistryStepKept, Zenon
<1>3. ASSUME UNCHANGED <<chan, connVars, registryVars>>, TypeOK' PROVE OwnershipInv'
  BY <1>3, Zenon DEF OwnershipInv, SlotOutlivesProcess, connVars, registryVars
<1>4. ASSUME NEW a \in Agents, ConsoleSwitch(a) PROVE OwnershipInv'
  <2>1. TypeOK'
    BY <1>4, Zenon DEF ConsoleSwitch, OwnershipInv, TypeOK, connVars, registryVars
  <2> QED BY <1>3, <1>4, <2>1, Zenon DEF ConsoleSwitch
<1>5. ASSUME NEW a \in Agents, ScopeRevoked(a) PROVE OwnershipInv'
  <2>1. TypeOK'
    BY <1>5, Zenon DEF ScopeRevoked, OwnershipInv, TypeOK, connVars, registryVars
  <2> QED BY <1>3, <1>5, <2>1, Zenon DEF ScopeRevoked
<1>6. CASE Tick
  <2>1. TypeOK'
    BY <1>6 DEF Tick, OwnershipInv, TypeOK, connVars, registryVars
  <2> QED BY <1>3, <1>6, <2>1, Zenon DEF Tick
<1>7. CASE UNCHANGED vars
  <2>1. TypeOK'
    BY <1>7, Zenon DEF vars, OwnershipInv, TypeOK, connVars, registryVars
  <2> QED BY <1>3, <1>7, <2>1, Zenon DEF vars, connVars, registryVars
<1> QED BY <1>1, <1>2, <1>4, <1>5, <1>6, <1>7, Zenon DEF Next

\* A process that still runs keeps its desktop slot: within one incarnation of
\* the coordinator the slot of a granted lease is free only after the kernel
\* reported the exit of the process (completeRetirement).
THEOREM SlotKept == Spec => []SlotOutlivesProcess
<1>1. OwnershipInv => SlotOutlivesProcess
  BY Zenon DEF OwnershipInv
<1> QED BY <1>1, OwnershipStart, OwnershipStep, PTL DEF Spec

\* No two processes have capture and input admission at once, for any number of
\* agents, any freshness period and any number of restarts, except with leases
\* of two incarnations of the coordinator.
THEOREM AdmissionExclusive == Spec => []ExclusiveAdmission
<1>1. OwnershipInv => ExclusiveAdmission
  BY Zenon DEF OwnershipInv, ExclusiveAdmission, Admitted
<1> QED BY <1>1, OwnershipStart, OwnershipStep, PTL DEF Spec

-----------------------------------------------------------------------------
(* The invariant, for one process with its channel and its link.           *)

\* bindGraphicalScope would admit, as far as the connection is concerned.
Holds(c) == ~c.admissionClosed /\ c.admissionGeneration # 0 /\ ~Expired(c)

\* The connection got past Connecting, or never will, and admits nothing.
Shut(c) == c.state # "Connecting" /\ ~Holds(c)

\* A reply that would renew the admission.
Success(r) == r.op \in {1, 2} /\ r.status = 0

\* One call at a time: with none pending nothing is in flight.  A success that is
\* being handled, and a Ready connection that is not closed, know a generation.
Orderly(c, ch) ==
  /\ c.pending = 0 /\ c.state \notin Terminal => ch.reply.op = 0 /\ ch.request.op = 0
  /\ c.renewing => c.generation # 0
  /\ c.state = "Ready" /\ ~c.admissionClosed => c.admissionGeneration # 0

\* No time lies in the future, and the admission ends a freshness period from now.
InTime(c) ==
  /\ c.sentAt <= now /\ c.ackAt <= now
  /\ c.admissionGeneration # 0 => c.admissionDeadline <= now + Freshness

\* What a lease that ended at time t may still leave behind: a success whose
\* request is older, one being handled that came within a freshness period, and
\* an admission for one more.
Bounded(c, ch, t) ==
  /\ Success(ch.reply) /\ c.pending = ch.reply.op => c.sentAt <= t
  /\ c.renewing => c.ackAt < t + Freshness
  /\ c.admissionGeneration # 0 => c.admissionDeadline <= t + 2 * Freshness

\* A running process with its connection, its channel and its link.
Fresh(c, ch, l) ==
  Orderly(c, ch) /\ InTime(c) /\ (~l.active => Bounded(c, ch, l.revokedAt))

\* A channel holds a request or a reply, and a success names a generation.
Sound(ch) ==
  /\ ch.reply.op # 0 => ch.request.op = 0
  /\ Success(ch.reply) => ch.reply.generation # 0

\* The inductive invariant.
FreshInv ==
  /\ OwnershipInv
  /\ \A a \in Agents :
       /\ process[a] = "absent" => conn[a] = NewConnection /\ chan[a].reply.op = 0
       /\ process[a] = "exited" => conn[a] = NewConnection
       /\ link[a].active => link[a].generation # 0
       /\ Sound(chan[a])
       /\ process[a] = "running" => Fresh(conn[a], chan[a], link[a])

-----------------------------------------------------------------------------
(* What the methods of a connection do to it.                              *)

\* A change of state: the times stay, and unless the state does as well the
\* admission is closed.
Calms(c, d) ==
  /\ d \in Connection
  /\ d.pending = c.pending /\ d.sentAt = c.sentAt /\ d.ackAt = c.ackAt
  /\ d.generation = c.generation /\ d.renewing = c.renewing
  /\ d.admissionDeadline = c.admissionDeadline
  /\ \/ /\ d.state = c.state /\ d.admissionGeneration = c.admissionGeneration
        /\ c.admissionClosed => d.admissionClosed
     \/ /\ d.state \in Terminal \cup {"Retiring"} /\ c.state \notin Terminal
        /\ d.admissionClosed /\ d.admissionGeneration = 0

\* A process, its channel and its link after a step of the process.
Moved(c, d, k, l) == Fresh(d, k, l) /\ Sound(k) /\ (Shut(c) => Shut(d))

\* transition, to any state but Ready, only calms.
LEMMA TransitionCalms ==
  ASSUME NEW c \in Connection, NEW s \in Terminal \cup {"Retiring"}
  PROVE  Calms(c, Transition(c, s))
<1>1. CASE c.state = s \/ c.state \in Terminal
  BY <1>1, Zenon DEF Transition, Calms
<1>2. CASE ~(c.state = s \/ c.state \in Terminal)
  <2>1. Transition(c, s) = [c EXCEPT !.state = s, !.admissionClosed = TRUE, !.admissionGeneration = 0]
    BY <1>2, Zenon DEF Transition, Terminal
  <2>2. s \in States
    BY Zenon DEF States, Terminal
  <2> DEFINE d == [c EXCEPT !.state = s, !.admissionClosed = TRUE, !.admissionGeneration = 0]
  <2>3. /\ d \in Connection
        /\ d.pending = c.pending /\ d.sentAt = c.sentAt /\ d.ackAt = c.ackAt
        /\ d.generation = c.generation /\ d.renewing = c.renewing
        /\ d.admissionDeadline = c.admissionDeadline
        /\ d.state = s /\ d.admissionClosed /\ d.admissionGeneration = 0
    BY <2>2, Zenon DEF Connection
  <2> HIDE DEF d
  <2>4. Calms(c, d)
    BY <1>2, <2>3, Zenon DEF Calms
  <2> QED BY <2>1, <2>4, Zenon DEF d
<1> QED BY <1>1, <1>2, Zenon

\* stop and the handling of a revocation only calm.
LEMMA StopCalms ==
  ASSUME NEW c \in Connection
  PROVE  Calms(c, Stop(c)) /\ Calms(c, Revoke(c)) /\ Stop(c).state \in Terminal
<1>1. "Disconnected" \in Terminal \cup {"Retiring"} /\ "Retiring" \in Terminal \cup {"Retiring"}
  BY Zenon DEF Terminal
<1>2. Calms(c, Stop(c))
  BY <1>1, TransitionCalms, Zenon DEF Stop
<1>3. Stop(c).state \in Terminal
  BY Zenon DEF Stop, Transition, Terminal, Connection
<1>4. CASE c.state = "Connecting"
  BY <1>2, <1>3, <1>4, Zenon DEF Revoke
<1>5. CASE c.state = "Ready"
  BY <1>1, <1>2, <1>3, <1>5, TransitionCalms, Zenon DEF Revoke
<1>6. CASE c.state \notin {"Connecting", "Ready"}
  <2>1. Revoke(c) = c
    BY <1>6, Zenon DEF Revoke
  <2> QED BY <1>2, <1>3, <2>1, Zenon DEF Calms
<1> QED BY <1>4, <1>5, <1>6, Zenon

\* Two calming steps calm.
LEMMA CalmsOn ==
  ASSUME NEW c, NEW d, NEW e, Calms(c, d), Calms(d, e)
  PROVE  Calms(c, e)
BY Zenon DEF Calms, Terminal

\* What calms keeps the invariant, and a shut connection shut.
LEMMA CalmsMoves ==
  ASSUME NEW c, NEW d, NEW ch, NEW l, Calms(c, d), Fresh(c, ch, l), Sound(ch)
  PROVE  Moved(c, d, ch, l)
<1>1. Orderly(d, ch)
  BY Zenon DEF Calms, Fresh, Orderly, Terminal
<1>2. InTime(d)
  BY Zenon DEF Calms, Fresh, InTime
<1>3. ~l.active => Bounded(d, ch, l.revokedAt)
  BY Zenon DEF Calms, Fresh, Bounded
<1>4. Shut(c) => Shut(d)
  BY Zenon DEF Calms, Shut, Holds, Expired, Terminal
<1> QED BY <1>1, <1>2, <1>3, <1>4, Zenon DEF Moved, Fresh

\* send: it finds the channel empty, so that no reply is taken for the answer to
\* a younger request.
LEMMA SendMoves ==
  ASSUME NEW c \in Connection, NEW ch \in Channel, NEW l, NEW op \in 1 .. 3, now \in Nat,
         Fresh(c, ch, l), Sound(ch)
  PROVE  Moved(c, Send(c, op), SendOn(ch, c, op), l)
<1>1. CASE ~CanSend(c)
  BY <1>1, Zenon DEF Send, SendOn, Moved
<1>2. CASE CanSend(c)
  <2> DEFINE d == Send(c, op)
             k == SendOn(ch, c, op)
  <2>1. /\ d.pending = op /\ d.sentAt = now /\ d.ackAt = c.ackAt /\ d.generation = c.generation
        /\ d.state = c.state /\ d.renewing = c.renewing /\ d.admissionClosed = c.admissionClosed
        /\ d.admissionGeneration = c.admissionGeneration
        /\ d.admissionDeadline = c.admissionDeadline
    BY <1>2, Zenon DEF Send, Sent, Connection
  <2>2. k.reply = ch.reply
    BY <1>2, Zenon DEF SendOn, Channel
  <2>3. ch.reply.op = 0 /\ op # 0
    BY <1>2 DEF Fresh, Orderly, CanSend
  <2> HIDE DEF d, k
  <2>4. Orderly(d, k)
    BY <2>1, <2>3, Zenon DEF Fresh, Orderly
  <2>5. InTime(d)
    BY <2>1 DEF Fresh, InTime
  <2>6. ~l.active => Bounded(d, k, l.revokedAt)
    BY <2>1, <2>2, <2>3 DEF Fresh, Bounded, Success
  <2>7. Sound(k)
    BY <2>2, <2>3, Zenon DEF Sound, Success
  <2>8. Shut(c) => Shut(d)
    BY <2>1, Zenon DEF Shut, Holds, Expired
  <2>9. Moved(c, d, k, l)
    BY <2>4, <2>5, <2>6, <2>7, <2>8, Zenon DEF Moved, Fresh
  <2> QED BY <2>9, Zenon DEF d, k
<1> QED BY <1>1, <1>2, Zenon

\* A retirement that waited for a reply.
LEMMA ThenRetiredMoves ==
  ASSUME NEW c, NEW d \in Connection, NEW ch \in Channel, NEW l, now \in Nat, Moved(c, d, ch, l)
  PROVE  Moved(c, ThenRetired(d), ThenRetiredOn(ch, d), l)
<1>1. 3 \in 1 .. 3
  OBVIOUS
<1>2. Moved(d, Send(d, 3), SendOn(ch, d, 3), l)
  BY <1>1, SendMoves, Zenon DEF Moved
<1> QED BY <1>2, Zenon DEF ThenRetired, ThenRetiredOn, Moved

\* The renewal under the lock: it counts from the time of the reply, and a lapsed
\* admission is closed for good.
LEMMA RenewedMoves ==
  ASSUME NEW c \in Connection, NEW ch, NEW l \in Link, now \in Nat,
         Fresh(c, ch, l), Sound(ch), c.generation # 0, c.state \in {"Connecting", "Ready"},
         ~l.active => c.ackAt < l.revokedAt + Freshness
  PROVE  Moved(c, Renewed(c), ch, l)
<1>1. CASE c.admissionClosed \/ Lapsed(c) \/ now >= RenewedUntil(c)
  <2> DEFINE d == [c EXCEPT !.admissionClosed = TRUE]
  <2>1. d \in Connection /\ Calms(c, d)
    BY Zenon DEF Calms, Connection
  <2>2. Renewed(c) = Stop(d)
    BY <1>1, Zenon DEF Renewed
  <2> HIDE DEF d
  <2> QED BY <2>1, <2>2, StopCalms, CalmsOn, CalmsMoves, Zenon
<1>2. CASE ~(c.admissionClosed \/ Lapsed(c) \/ now >= RenewedUntil(c))
  <2> DEFINE t == RenewedUntil(c)
             e == [c EXCEPT !.admissionGeneration = c.generation, !.admissionDeadline = t]
             d == Renewed(c)
  <2>0. t = c.ackAt + Freshness /\ t \in Nat /\ Freshness \in Nat /\ c.ackAt \in Nat
    BY ChannelAssumption DEF RenewedUntil, Connection
  <2> HIDE DEF t
  <2>1. /\ e.pending = c.pending /\ e.sentAt = c.sentAt /\ e.ackAt = c.ackAt
        /\ e.generation = c.generation /\ e.renewing = c.renewing /\ e.state = c.state
        /\ e.admissionClosed = c.admissionClosed /\ e.admissionGeneration = c.generation
        /\ e.admissionDeadline = t /\ e \in Connection
    BY <2>0, Zenon DEF Connection
  <2>2. d = Transition(e, "Ready")
    BY <1>2, Zenon DEF Renewed, t
  <2> HIDE DEF e, d
  <2>3. d = IF e.state = "Ready" THEN e ELSE [e EXCEPT !.state = "Ready"]
    BY <2>1, <2>2, Zenon DEF Transition, Terminal
  <2>4. /\ d.pending = c.pending /\ d.sentAt = c.sentAt /\ d.ackAt = c.ackAt
        /\ d.generation = c.generation /\ d.renewing = c.renewing /\ d.state = "Ready"
        /\ d.admissionClosed = c.admissionClosed /\ d.admissionGeneration = c.generation
        /\ d.admissionDeadline = t
    <3>1. CASE e.state = "Ready"
      BY <2>1, <2>3, <3>1, Zenon
    <3>2. CASE e.state # "Ready"
      BY <2>1, <2>3, <3>2, Zenon DEF Connection
    <3> QED BY <3>1, <3>2, Zenon
  <2>5. Orderly(d, ch)
    BY <2>4, Zenon DEF Fresh, Orderly, Terminal
  <2>6. InTime(d)
    BY <2>0, <2>4 DEF Fresh, InTime
  <2>7. ASSUME ~l.active PROVE Bounded(d, ch, l.revokedAt)
    <3>1. l.revokedAt \in Nat /\ c.ackAt < l.revokedAt + Freshness
      BY <2>7, Zenon DEF Link
    <3>2. t <= l.revokedAt + 2 * Freshness
      BY <2>0, <3>1
    <3> QED BY <2>4, <2>7, <3>2, Zenon DEF Fresh, Bounded
  <2>8. ~Shut(c)
    BY <1>2, Zenon DEF Shut, Holds, Lapsed, Fresh, Orderly
  <2>9. Moved(c, d, ch, l)
    BY <2>5, <2>6, <2>7, <2>8, Zenon DEF Moved, Fresh
  <2> QED BY <2>9, Zenon DEF d
<1> QED BY <1>1, <1>2, Zenon

-----------------------------------------------------------------------------
(* The steps of the graphical processes.                                   *)

\* What AdmissionNeverReturns asks of a step.
NoReturn ==
  \A a \in Agents : conn[a].state # "Connecting" /\ ~Admitted(a) => ~Admitted(a)'

\* A step of a running process that moves its connection so.
LEMMA AgentFresh ==
  ASSUME FreshInv, OwnershipInv', NEW a \in Agents, NEW c, NEW ch,
         process[a] = "running", UNCHANGED process,
         conn' = [conn EXCEPT ![a] = c], chan' = [chan EXCEPT ![a] = ch],
         Moved(conn[a], c, ch, link[a]),
         UNCHANGED <<now, valid, visible, current, link, granted, epoch>>
  PROVE  FreshInv' /\ NoReturn
<1>1. /\ conn'[a] = c /\ chan'[a] = ch
      /\ \A b \in Agents \ {a} : conn'[b] = conn[b] /\ chan'[b] = chan[b]
  BY ZenonT(60) DEF FreshInv, OwnershipInv, TypeOK
<1>2. process' = process /\ link' = link /\ now' = now /\ valid' = valid
  BY Zenon
<1>3. Fresh(c, ch, link[a]) /\ Sound(ch) /\ (Shut(conn[a]) => Shut(c))
  BY Zenon DEF Moved
<1>4. ASSUME NEW b \in Agents
      PROVE  /\ process'[b] = "absent" => conn'[b] = NewConnection /\ chan'[b].reply.op = 0
             /\ process'[b] = "exited" => conn'[b] = NewConnection
             /\ link'[b].active => link'[b].generation # 0
             /\ Sound(chan'[b])
             /\ process'[b] = "running" => Fresh(conn'[b], chan'[b], link'[b])
  <2>1. CASE b = a
    BY <1>1, <1>2, <1>3, <2>1, ZenonT(60) DEF FreshInv
  <2>2. CASE b # a
    BY <1>1, <1>2, <2>2, Zenon DEF FreshInv
  <2> QED BY <2>1, <2>2, Zenon
<1>5. FreshInv'
  BY <1>2, <1>4, Zenon DEF FreshInv, Fresh, InTime
<1>6. ASSUME NEW b \in Agents, conn[b].state # "Connecting", ~Admitted(b)
      PROVE  ~Admitted(b)'
  <2>1. CASE b = a
    <3>1. Shut(conn[a]) \/ ~valid[a]
      BY <1>6, <2>1, Zenon DEF Admitted, Shut, Holds
    <3> QED BY <1>1, <1>2, <1>3, <2>1, <3>1, Zenon DEF Admitted, Shut, Holds, Expired
  <2>2. CASE b # a
    BY <1>1, <1>2, <1>6, <2>2, Zenon DEF Admitted, Expired
  <2> QED BY <2>1, <2>2, Zenon
<1> QED BY <1>5, <1>6, Zenon DEF NoReturn

\* What the invariant says of one process.
LEMMA FreshParts ==
  ASSUME FreshInv, NEW a \in Agents
  PROVE  /\ conn[a] \in Connection /\ chan[a] \in Channel /\ link[a] \in Link /\ now \in Nat
         /\ Sound(chan[a])
         /\ process[a] = "running" => Fresh(conn[a], chan[a], link[a])
         /\ chan = [chan EXCEPT ![a] = chan[a]] /\ conn = [conn EXCEPT ![a] = conn[a]]
BY Zenon DEF FreshInv, OwnershipInv, TypeOK

\* A reply taken from the channel leaves it empty.
LEMMA TakenMoves ==
  ASSUME NEW c, NEW ch \in Channel, NEW l, Fresh(c, ch, l), Sound(ch), ch.reply.op # 0
  PROVE  LET k == [ch EXCEPT !.reply = NoReply] IN
         /\ k \in Channel /\ k.reply.op = 0 /\ k.request.op = 0
         /\ Fresh(c, k, l) /\ Sound(k)
<1> DEFINE k == [ch EXCEPT !.reply = NoReply]
<1>1. NoReply \in Reply /\ NoReply.op = 0
  BY DEF NoReply, Reply, Operations, Statuses
<1>2. k \in Channel /\ k.reply = NoReply /\ k.request = ch.request
  BY <1>1, Zenon DEF Channel
<1>3. ch.request.op = 0
  BY Zenon DEF Sound
<1> HIDE DEF k
<1>4. Fresh(c, k, l) /\ Sound(k)
  BY <1>1, <1>2, <1>3 DEF Fresh, Orderly, Bounded, Sound, Success
<1> QED BY <1>1, <1>2, <1>3, <1>4, Zenon DEF k

\* reply, when it is not bad: the call is over, and a success came within a
\* freshness period of its request, thus of the end of its lease at most.
LEMMA AcknowledgedMoves ==
  ASSUME NEW c \in Connection, NEW ch \in Channel, NEW l \in Link, now \in Nat,
         Fresh(c, ch, l), Sound(ch), ch.reply.op # 0, c.state \notin Terminal,
         ~BadReply(c, ch.reply), ch.reply.op # 3, ~c.renewing
  PROVE  LET d == Acknowledged(c, ch.reply)
             e == [d EXCEPT !.renewing = TRUE]
             k == [ch EXCEPT !.reply = NoReply]
         IN  /\ d \in Connection /\ Moved(c, d, k, l)
             /\ ch.reply.status = 0 => Moved(c, e, k, l)
<1> DEFINE r == ch.reply
           d == Acknowledged(c, r)
           e == [d EXCEPT !.renewing = TRUE]
           k == [ch EXCEPT !.reply = NoReply]
<1>1. k \in Channel /\ k.reply.op = 0 /\ k.request.op = 0 /\ Fresh(c, k, l) /\ Sound(k)
  BY TakenMoves, Zenon
<1>2. r \in Reply /\ r.op \in {1, 2} /\ c.pending = r.op /\ now - c.sentAt < Freshness
  <2>1. r \in Reply /\ r.op \in 0 .. 3
    BY Zenon DEF Channel, Reply, Operations
  <2>2. c.sentAt \in Nat /\ Freshness \in Nat
    BY ChannelAssumption, Zenon DEF Connection
  <2>3. c.pending = r.op /\ ~(now - c.sentAt >= Freshness)
    BY Zenon DEF BadReply, ReplyTimedOut
  <2> QED BY <2>1, <2>2, <2>3
<1>3. r.op = 2 /\ r.status = 0 => r.generation = c.generation
  BY Zenon DEF BadReply
<1>4. r.generation \in Nat
  BY <1>2, Zenon DEF Reply
<1> HIDE DEF r, k
<1> DEFINE g == IF r.op = 1 /\ r.status = 0 THEN r.generation ELSE c.generation
<1>5. g \in Nat /\ (r.status = 0 => g # 0)
  <2>1. r.status = 0 => r.generation # 0
    BY <1>2, Zenon DEF Sound, Success, r
  <2>2. c.generation \in Nat
    BY Zenon DEF Connection
  <2> QED BY <1>2, <1>3, <1>4, <2>1, <2>2, Zenon
<1>6. d = [c EXCEPT !.pending = 0, !.ackAt = now, !.generation = g]
  BY Zenon DEF Acknowledged
<1> HIDE DEF g, d
<1>7. /\ d.pending = 0 /\ d.ackAt = now /\ d.generation = g /\ d.sentAt = c.sentAt
      /\ d.state = c.state /\ d.renewing = c.renewing /\ d.admissionClosed = c.admissionClosed
      /\ d.admissionGeneration = c.admissionGeneration
      /\ d.admissionDeadline = c.admissionDeadline /\ d \in Connection
  <2>1. 0 \in Operations
    BY DEF Operations
  <2> QED BY <1>5, <1>6, <2>1, Zenon DEF Connection
<1>8. /\ e.pending = 0 /\ e.ackAt = now /\ e.generation = g /\ e.sentAt = c.sentAt
      /\ e.state = c.state /\ e.renewing /\ e.admissionClosed = c.admissionClosed
      /\ e.admissionGeneration = c.admissionGeneration
      /\ e.admissionDeadline = c.admissionDeadline
  BY <1>7, Zenon DEF Connection
<1> HIDE DEF e
<1>9. Moved(c, d, k, l)
  <2>1. Orderly(d, k)
    BY <1>1, <1>7, Zenon DEF Fresh, Orderly
  <2>2. InTime(d)
    BY <1>7 DEF Fresh, InTime
  <2>3. ~l.active => Bounded(d, k, l.revokedAt)
    BY <1>1, <1>7 DEF Fresh, Bounded, Success
  <2>4. Shut(c) => Shut(d)
    BY <1>7, Zenon DEF Shut, Holds, Expired
  <2> QED BY <1>1, <2>1, <2>2, <2>3, <2>4, Zenon DEF Moved, Fresh
<1>10. ASSUME r.status = 0 PROVE Moved(c, e, k, l)
  <2>1. Orderly(e, k)
    BY <1>1, <1>5, <1>8, <1>10, Zenon DEF Fresh, Orderly
  <2>2. InTime(e)
    BY <1>8 DEF Fresh, InTime
  <2>3. ASSUME ~l.active PROVE Bounded(e, k, l.revokedAt)
    <3>1. c.sentAt <= l.revokedAt
      BY <1>2, <1>10, <2>3, Zenon DEF Fresh, Bounded, Success, r
    <3>2. now < l.revokedAt + Freshness
      BY <1>2, <3>1, ChannelAssumption DEF Connection, Link
    <3> QED BY <1>1, <1>8, <2>3, <3>2 DEF Fresh, Bounded, Success
  <2>4. Shut(c) => Shut(e)
    BY <1>8, Zenon DEF Shut, Holds, Expired
  <2> QED BY <1>1, <2>1, <2>2, <2>3, <2>4, Zenon DEF Moved, Fresh
<1> QED BY <1>7, <1>9, <1>10, Zenon DEF d, e, k, r

\* The process starts with nothing and ends with nothing.
LEMMA ProcessFresh ==
  ASSUME FreshInv, OwnershipInv', NEW a \in Agents, NEW c, NEW ch, NEW p,
         process' = [process EXCEPT ![a] = p],
         conn' = [conn EXCEPT ![a] = c], chan' = [chan EXCEPT ![a] = ch],
         \/ p = "exited" /\ c = NewConnection
         \/ p = "running" /\ Fresh(c, ch, link[a]) /\ conn[a].state = "Connecting",
         Sound(ch),
         UNCHANGED <<now, valid, visible, current, link, granted, epoch>>
  PROVE  FreshInv' /\ NoReturn
<1>1. /\ conn'[a] = c /\ chan'[a] = ch /\ process'[a] = p
      /\ \A b \in Agents \ {a} :
           conn'[b] = conn[b] /\ chan'[b] = chan[b] /\ process'[b] = process[b]
  BY ZenonT(60) DEF FreshInv, OwnershipInv, TypeOK
<1>2. link' = link /\ now' = now /\ valid' = valid
  BY Zenon
<1>4. ASSUME NEW b \in Agents
      PROVE  /\ process'[b] = "absent" => conn'[b] = NewConnection /\ chan'[b].reply.op = 0
             /\ process'[b] = "exited" => conn'[b] = NewConnection
             /\ link'[b].active => link'[b].generation # 0
             /\ Sound(chan'[b])
             /\ process'[b] = "running" => Fresh(conn'[b], chan'[b], link'[b])
  <2>1. CASE b = a
    BY <1>1, <1>2, <2>1, ZenonT(60) DEF FreshInv
  <2>2. CASE b # a
    BY <1>1, <1>2, <2>2, ZenonT(60) DEF FreshInv
  <2> QED BY <2>1, <2>2, Zenon
<1>5. FreshInv'
  BY <1>2, <1>4, Zenon DEF FreshInv, Fresh, InTime
<1>6. ASSUME NEW b \in Agents, conn[b].state # "Connecting", ~Admitted(b)
      PROVE  ~Admitted(b)'
  <2>1. CASE b = a
    BY <1>1, <1>6, <2>1, Zenon DEF Admitted
  <2>2. CASE b # a
    BY <1>1, <1>2, <1>6, <2>2, Zenon DEF Admitted, Expired
  <2> QED BY <2>1, <2>2, Zenon
<1> QED BY <1>5, <1>6, Zenon DEF NoReturn

\* Every step of a graphical process keeps the invariant and readmits nobody.
LEMMA AgentStepFresh ==
  ASSUME FreshInv, OwnershipInv', NEW a \in Agents, AgentStep(a)
  PROVE  FreshInv' /\ NoReturn
<1>0. UNCHANGED <<current, link, granted, epoch>>
  BY Zenon DEF AgentStep, registryVars
<1>a. /\ conn[a] \in Connection /\ chan[a] \in Channel /\ link[a] \in Link /\ now \in Nat
      /\ Sound(chan[a])
      /\ process[a] = "running" => Fresh(conn[a], chan[a], link[a])
      /\ chan = [chan EXCEPT ![a] = chan[a]] /\ conn = [conn EXCEPT ![a] = conn[a]]
  BY FreshParts, Zenon
<1>b. 1 \in 1 .. 3 /\ 2 \in 1 .. 3 /\ 3 \in 1 .. 3
  OBVIOUS
<1>c. ASSUME NEW c, Calms(conn[a], c), process[a] = "running", conn' = [conn EXCEPT ![a] = c],
             UNCHANGED <<process, chan, now, valid, visible>>
      PROVE  FreshInv' /\ NoReturn
  <2>1. Moved(conn[a], c, chan[a], link[a])
    BY <1>a, <1>c, CalmsMoves, Zenon
  <2> QED BY <1>0, <1>a, <1>c, <2>1, AgentFresh, Zenon
<1>1. CASE Launch(a)
  <2> DEFINE c == IF valid[a] THEN Send(NewConnection, 1) ELSE Stop(NewConnection)
             ch == IF valid[a] THEN SendOn(chan[a], NewConnection, 1) ELSE chan[a]
  <2>1. /\ process[a] = "absent" /\ process' = [process EXCEPT ![a] = "running"]
        /\ conn' = [conn EXCEPT ![a] = c] /\ chan' = [chan EXCEPT ![a] = ch]
        /\ UNCHANGED <<now, valid, visible>>
    BY <1>1, Zenon DEF Launch
  <2>2. conn[a] = NewConnection /\ chan[a].reply.op = 0 /\ chan[a].request.op = 0
    BY <2>1, Zenon DEF FreshInv, OwnershipInv
  <2>3. /\ NewConnection \in Connection /\ NewConnection.state = "Connecting"
        /\ ~NewConnection.renewing /\ NewConnection.admissionGeneration = 0
        /\ NewConnection.sentAt = 0 /\ NewConnection.ackAt = 0
    BY DEF NewConnection, Connection, States, Operations
  <2>4. Fresh(NewConnection, chan[a], link[a])
    BY <1>a, <2>2, <2>3 DEF Fresh, Orderly, InTime, Bounded, Success
  <2>5. Moved(NewConnection, Send(NewConnection, 1), SendOn(chan[a], NewConnection, 1), link[a])
    BY <1>a, <1>b, <2>3, <2>4, SendMoves, Zenon
  <2>6. Moved(NewConnection, Stop(NewConnection), chan[a], link[a])
    BY <1>a, <2>3, <2>4, StopCalms, CalmsMoves, Zenon
  <2>7. Fresh(c, ch, link[a]) /\ Sound(ch)
    BY <2>5, <2>6, Zenon DEF Moved
  <2> HIDE DEF c, ch
  <2> QED BY <1>0, <2>1, <2>2, <2>3, <2>7, ProcessFresh, Zenon
<1>2. CASE AgentWatch(a)
  <2>1. process[a] = "running" /\ UNCHANGED <<process, now, valid, visible>>
    BY <1>2, Zenon DEF AgentWatch, Serving
  <2>2. CASE conn' = [conn EXCEPT ![a] = Stop(conn[a])] /\ UNCHANGED chan
    BY <1>a, <1>c, <2>1, <2>2, StopCalms, Zenon
  <2>3. CASE conn' = [conn EXCEPT ![a] = Revoke(conn[a])] /\ UNCHANGED chan
    BY <1>a, <1>c, <2>1, <2>3, StopCalms, Zenon
  <2>4. CASE /\ conn' = [conn EXCEPT ![a] = Stop([conn[a] EXCEPT !.admissionClosed = TRUE])]
             /\ UNCHANGED chan
    <3> DEFINE c == [conn[a] EXCEPT !.admissionClosed = TRUE]
    <3>1. c \in Connection /\ Calms(conn[a], c)
      BY <1>a, Zenon DEF Connection, Calms
    <3>2. conn' = [conn EXCEPT ![a] = Stop(c)]
      BY <2>4, Zenon
    <3> HIDE DEF c
    <3>3. Calms(conn[a], Stop(c))
      BY <3>1, StopCalms, CalmsOn, Zenon
    <3> QED BY <1>c, <2>1, <2>4, <3>2, <3>3, Zenon
  <2>5. CASE /\ conn' = [conn EXCEPT ![a] = Send(conn[a], 2)]
             /\ chan' = [chan EXCEPT ![a] = SendOn(chan[a], conn[a], 2)]
    <3>1. Moved(conn[a], Send(conn[a], 2), SendOn(chan[a], conn[a], 2), link[a])
      BY <1>a, <1>b, <2>1, SendMoves, Zenon
    <3> QED BY <1>0, <2>1, <2>5, <3>1, AgentFresh, Zenon
  <2> QED BY <1>2, <2>2, <2>3, <2>4, <2>5, Zenon DEF AgentWatch
<1>3. CASE ReceiveReply(a)
  <2> DEFINE c == conn[a]
             r == chan[a].reply
             ch == [chan[a] EXCEPT !.reply = NoReply]
             known == Acknowledged(c, r)
             revoked == Revoke(known)
  <2>1. /\ process[a] = "running" /\ UNCHANGED <<process, now, valid, visible>>
        /\ ~c.renewing /\ r.op # 0 /\ Fresh(c, chan[a], link[a])
    BY <1>3, <1>a, Zenon DEF ReceiveReply, Serving
  <2>2. ch \in Channel /\ Fresh(c, ch, link[a]) /\ Sound(ch)
    BY <1>a, <2>1, TakenMoves, Zenon
  <2>3. ASSUME NEW d, Calms(c, d), conn' = [conn EXCEPT ![a] = d],
               chan' = [chan EXCEPT ![a] = ch]
        PROVE  FreshInv' /\ NoReturn
    <3> HIDE DEF ch
    <3>1. Moved(c, d, ch, link[a])
      BY <2>2, <2>3, CalmsMoves, Zenon
    <3> QED BY <1>0, <2>1, <2>3, <3>1, AgentFresh, Zenon
  <2>4. CASE UNCHANGED conn /\ chan' = [chan EXCEPT ![a] = ch]
    <3>1. Calms(c, c)
      BY <1>a, Zenon DEF Calms
    <3> QED BY <1>a, <2>3, <2>4, <3>1, Zenon
  <2>5. CASE conn' = [conn EXCEPT ![a] = Stop(c)] /\ chan' = [chan EXCEPT ![a] = ch]
    BY <1>a, <2>3, <2>5, StopCalms, Zenon
  <2>6. CASE /\ c.state \notin Terminal /\ r.op = 3
             /\ conn' = [conn EXCEPT ![a] = Transition([c EXCEPT !.pending = 0], "Finished")]
             /\ chan' = [chan EXCEPT ![a] = ch]
    <3> DEFINE e == [c EXCEPT !.pending = 0]
               d == Transition(e, "Finished")
    <3>1. /\ e \in Connection /\ e.pending = 0 /\ e.sentAt = c.sentAt /\ e.ackAt = c.ackAt
          /\ e.generation = c.generation /\ e.renewing = c.renewing /\ e.state = c.state
          /\ e.admissionClosed = c.admissionClosed
          /\ e.admissionGeneration = c.admissionGeneration
          /\ e.admissionDeadline = c.admissionDeadline
      BY <1>a DEF Connection, Operations
    <3>2. ch.reply.op = 0 /\ ch.request.op = 0
      BY <1>a, <2>1, TakenMoves, Zenon
    <3>3. conn' = [conn EXCEPT ![a] = d]
      BY <2>6, Zenon
    <3> HIDE DEF ch, e
    <3>4. Fresh(e, ch, link[a])
      BY <2>2, <3>1, <3>2 DEF Fresh, Orderly, InTime, Bounded, Success
    <3>5. "Finished" \in Terminal \cup {"Retiring"}
      BY Zenon DEF Terminal
    <3>6. Moved(e, d, ch, link[a])
      BY <2>2, <3>1, <3>4, <3>5, TransitionCalms, CalmsMoves, Zenon
    <3>7. Shut(c) => Shut(e)
      BY <3>1, Zenon DEF Shut, Holds, Expired
    <3>8. Moved(c, d, ch, link[a])
      BY <3>6, <3>7, Zenon DEF Moved
    <3> HIDE DEF d
    <3> QED BY <1>0, <2>1, <2>6, <3>3, <3>8, AgentFresh, Zenon
  <2>7. CASE /\ c.state \notin Terminal /\ ~BadReply(c, r) /\ r.op # 3 /\ r.status = 2
             /\ conn' = [conn EXCEPT ![a] = ThenRetired(revoked)]
             /\ chan' = [chan EXCEPT ![a] = ThenRetiredOn(ch, revoked)]
    <3>1. known \in Connection /\ Moved(c, known, ch, link[a])
      BY <1>a, <2>1, <2>7, AcknowledgedMoves, Zenon
    <3> HIDE DEF ch, known
    <3>2. Moved(known, revoked, ch, link[a]) /\ revoked \in Connection
      BY <3>1, StopCalms, CalmsMoves, Zenon DEF Moved, Calms
    <3> HIDE DEF revoked
    <3>3. Moved(c, revoked, ch, link[a])
      BY <3>1, <3>2, Zenon DEF Moved
    <3>4. Moved(c, ThenRetired(revoked), ThenRetiredOn(ch, revoked), link[a])
      BY <1>a, <2>2, <3>2, <3>3, ThenRetiredMoves, Zenon
    <3> QED BY <1>0, <2>1, <2>7, <3>4, AgentFresh, Zenon
  <2>8. CASE /\ c.state \notin Terminal /\ ~BadReply(c, r) /\ r.op # 3 /\ r.status = 0
             /\ conn' = [conn EXCEPT ![a] = [known EXCEPT !.renewing = TRUE]]
             /\ chan' = [chan EXCEPT ![a] = ch]
    <3> DEFINE d == [known EXCEPT !.renewing = TRUE]
    <3>1. Moved(c, d, ch, link[a])
      BY <1>a, <2>1, <2>8, AcknowledgedMoves, Zenon
    <3>2. conn' = [conn EXCEPT ![a] = d]
      BY <2>8, Zenon
    <3> HIDE DEF ch, known, d
    <3> QED BY <1>0, <2>1, <2>8, <3>1, <3>2, AgentFresh, Zenon
  <2> QED BY <1>3, <2>4, <2>5, <2>6, <2>7, <2>8, Zenon DEF ReceiveReply
<1>4. CASE FinishReply(a)
  <2> DEFINE c == [conn[a] EXCEPT !.renewing = FALSE]
             d == IF ~valid[a] THEN Revoke(c)
                  ELSE IF c.state \in {"Connecting", "Ready"} THEN Renewed(c)
                  ELSE c
  <2>1. /\ process[a] = "running" /\ UNCHANGED <<process, now, valid, visible>>
        /\ conn[a].renewing
        /\ conn' = [conn EXCEPT ![a] = ThenRetired(d)]
        /\ chan' = [chan EXCEPT ![a] = ThenRetiredOn(chan[a], d)]
    BY <1>4, Zenon DEF FinishReply
  <2>2. /\ c \in Connection /\ c.pending = conn[a].pending /\ c.sentAt = conn[a].sentAt
        /\ c.ackAt = conn[a].ackAt /\ c.generation = conn[a].generation /\ ~c.renewing
        /\ c.state = conn[a].state /\ c.admissionClosed = conn[a].admissionClosed
        /\ c.admissionGeneration = conn[a].admissionGeneration
        /\ c.admissionDeadline = conn[a].admissionDeadline
    BY <1>a, Zenon DEF Connection
  <2> HIDE DEF c
  <2>3. Moved(conn[a], c, chan[a], link[a])
    BY <1>a, <2>1, <2>2, Zenon
       DEF Moved, Fresh, Orderly, InTime, Bounded, Shut, Holds, Expired
  <2>4. /\ c.generation # 0
        /\ ~link[a].active => c.ackAt < link[a].revokedAt + Freshness
    BY <1>a, <2>1, <2>2, Zenon DEF Fresh, Orderly, Bounded
  <2>5. Moved(c, Revoke(c), chan[a], link[a])
    BY <2>2, <2>3, StopCalms, CalmsMoves, Zenon DEF Moved
  <2>6. c.state \in {"Connecting", "Ready"} => Moved(c, Renewed(c), chan[a], link[a])
    BY <1>a, <2>2, <2>3, <2>4, RenewedMoves, Zenon DEF Moved
  <2>7. Moved(conn[a], d, chan[a], link[a])
    BY <2>3, <2>5, <2>6, Zenon DEF Moved
  <2>8. d \in Connection
    BY <2>2, RevokeFollows, RenewedFollows, Zenon DEF Follows
  <2> HIDE DEF d
  <2>9. Moved(conn[a], ThenRetired(d), ThenRetiredOn(chan[a], d), link[a])
    BY <1>a, <2>7, <2>8, ThenRetiredMoves, Zenon
  <2> QED BY <1>0, <2>1, <2>9, AgentFresh, Zenon
<1>5. CASE ReceiveNotice(a)
  <2> DEFINE c == IF conn[a].generation = chan[a].notice THEN Revoke(conn[a]) ELSE Stop(conn[a])
             ch == [chan[a] EXCEPT !.notice = 0]
  <2>1. /\ process[a] = "running" /\ UNCHANGED <<process, now, valid, visible>>
        /\ conn' = [conn EXCEPT ![a] = c]
    BY <1>5, Zenon DEF ReceiveNotice, Serving
  <2>2. chan' = [chan EXCEPT ![a] = ch]
    BY <1>5, Zenon DEF ReceiveNotice
  <2>3. ch.reply = chan[a].reply /\ ch.request = chan[a].request
    BY <1>a, Zenon DEF Channel
  <2>4. Calms(conn[a], c)
    BY <1>a, StopCalms, Zenon
  <2> HIDE DEF c, ch
  <2>5. Fresh(conn[a], ch, link[a]) /\ Sound(ch)
    BY <1>a, <2>1, <2>3, Zenon DEF Fresh, Orderly, Bounded, Sound
  <2>6. Moved(conn[a], c, ch, link[a])
    BY <2>4, <2>5, CalmsMoves, Zenon
  <2> QED BY <1>0, <2>1, <2>2, <2>6, AgentFresh, Zenon
<1>6. CASE ReceiveCut(a)
  <2>1. /\ process[a] = "running" /\ UNCHANGED <<process, now, valid, visible, chan>>
        /\ conn' = [conn EXCEPT ![a] = Stop(conn[a])]
    BY <1>6, Zenon DEF ReceiveCut, Serving
  <2> QED BY <1>a, <1>c, <2>1, StopCalms, Zenon
<1>7. CASE BindGraphicalScope(a)
  <2> DEFINE c == [conn[a] EXCEPT !.admissionClosed = TRUE, !.admissionGeneration = 0]
  <2>1. /\ process[a] = "running" /\ UNCHANGED <<process, now, valid, visible, chan>>
    BY <1>7, Zenon DEF BindGraphicalScope
  <2>2. conn' = [conn EXCEPT ![a] = c]
    BY <1>7, <1>a, ZenonT(60)
       DEF BindGraphicalScope, FreshInv, OwnershipInv, TypeOK
  <2>3. /\ c.pending = conn[a].pending /\ c.sentAt = conn[a].sentAt
        /\ c.ackAt = conn[a].ackAt /\ c.generation = conn[a].generation
        /\ c.renewing = conn[a].renewing /\ c.state = conn[a].state
        /\ c.admissionClosed /\ c.admissionGeneration = 0
    BY <1>a, Zenon DEF Connection
  <2> HIDE DEF c
  <2>4. Moved(conn[a], c, chan[a], link[a])
    BY <1>a, <2>1, <2>3, Zenon DEF Moved, Fresh, Orderly, InTime, Bounded, Shut, Holds
  <2> QED BY <1>0, <1>a, <2>1, <2>2, <2>4, AgentFresh, Zenon
<1>8. CASE Retire(a)
  <2> DEFINE c == Revoke(conn[a])
             d == IF c.state = "Retiring" THEN [c EXCEPT !.retireRequested = TRUE] ELSE c
  <2>1. /\ process[a] = "running" /\ UNCHANGED <<process, now, valid, visible>>
        /\ conn' = [conn EXCEPT ![a] = ThenRetired(d)]
        /\ chan' = [chan EXCEPT ![a] = ThenRetiredOn(chan[a], d)]
    BY <1>8, Zenon DEF Retire, Serving
  <2>2. Calms(conn[a], c) /\ c \in Connection
    BY <1>a, StopCalms, Zenon DEF Calms
  <2> HIDE DEF c
  <2>3. Calms(c, d) /\ d \in Connection
    BY <2>2, Zenon DEF Calms, Connection
  <2> HIDE DEF d
  <2>4. Moved(conn[a], d, chan[a], link[a])
    BY <1>a, <2>1, <2>2, <2>3, CalmsOn, CalmsMoves, Zenon
  <2>5. Moved(conn[a], ThenRetired(d), ThenRetiredOn(chan[a], d), link[a])
    BY <1>a, <2>3, <2>4, ThenRetiredMoves, Zenon
  <2> QED BY <1>0, <2>1, <2>5, AgentFresh, Zenon
<1>9. CASE Exit(a)
  <2> DEFINE ch == [chan[a] EXCEPT !.reply = NoReply, !.notice = 0]
  <2>1. /\ process' = [process EXCEPT ![a] = "exited"] /\ UNCHANGED <<now, valid, visible>>
        /\ conn' = [conn EXCEPT ![a] = NewConnection]
    BY <1>9, Zenon DEF Exit
  <2>2. chan' = [chan EXCEPT ![a] = ch]
    BY <1>9, Zenon DEF Exit, FreshInv, OwnershipInv, TypeOK
  <2>3. Sound(ch)
    <3>1. ch.reply = NoReply /\ NoReply.op = 0
      BY <1>a, Zenon DEF Channel, NoReply
    <3> QED BY <3>1 DEF Sound, Success
  <2> HIDE DEF ch
  <2> QED BY <1>0, <2>1, <2>2, <2>3, ProcessFresh, Zenon
<1> QED BY <1>1, <1>2, <1>3, <1>4, <1>5, <1>6, <1>7, <1>8, <1>9, Zenon DEF AgentStep

-----------------------------------------------------------------------------
(* The steps of the coordinator.                                           *)

\* A step of the registry on a link and its channel: the lease is active, ends
\* now, or had ended before; and a request is answered or dropped at most, with
\* success only for a lease that is active or ends now.
Tells(ch, l, k, m) ==
  /\ (l.active => l.generation # 0) => (m.active => m.generation # 0)
  /\ m.active \/ m.revokedAt = now \/ (~l.active /\ m.revokedAt = l.revokedAt)
  /\ \/ k.reply = ch.reply /\ k.request \in {ch.request, NoRequest}
     \/ /\ ch.request.op # 0 /\ k.request.op = 0 /\ k.reply.op # 0
        /\ Success(k.reply) => k.reply.generation # 0 /\ (m.active \/ m.revokedAt = now)

\* Such a step keeps a running process fresh: what it was told before the end of
\* the lease is bounded by that moment.
LEMMA TellsKeeps ==
  ASSUME NEW c \in Connection, NEW ch \in Channel, NEW k \in Channel, NEW l \in Link,
         NEW m \in Link, now \in Nat, Fresh(c, ch, l), Tells(ch, l, k, m)
  PROVE  Fresh(c, k, m)
<1>1. NoRequest.op = 0
  BY Zenon DEF NoRequest
<1>2. Orderly(c, k)
  BY <1>1, Zenon DEF Fresh, Orderly, Tells
<1>3. ASSUME ~m.active, m.revokedAt = now PROVE Bounded(c, k, m.revokedAt)
  <2>1. /\ c.sentAt \in Nat /\ c.ackAt \in Nat /\ c.admissionDeadline \in Nat
        /\ Freshness \in Nat \ {0}
    BY ChannelAssumption, Zenon DEF Connection
  <2>2. /\ c.sentAt <= now /\ c.ackAt < now + Freshness
        /\ c.admissionGeneration # 0 => c.admissionDeadline <= now + 2 * Freshness
    BY <2>1 DEF Fresh, InTime
  <2> QED BY <1>3, <2>2, Zenon DEF Bounded
<1>4. ASSUME ~m.active, m.revokedAt # now PROVE Bounded(c, k, m.revokedAt)
  <2>1. ~l.active /\ m.revokedAt = l.revokedAt
    BY <1>4, Zenon DEF Tells
  <2>2. Success(k.reply) => k.reply = ch.reply
    BY <1>4, Zenon DEF Tells
  <2> QED BY <2>1, <2>2, Zenon DEF Fresh, Bounded
<1> QED BY <1>2, <1>3, <1>4, Zenon DEF Fresh

\* And the channel.
LEMMA TellsSound ==
  ASSUME NEW ch, NEW k, NEW l, NEW m, Sound(ch), Tells(ch, l, k, m)
  PROVE  Sound(k)
BY DEF Sound, Tells, NoRequest

\* A step of the coordinator that treats every link so.
LEMMA RegistryFresh ==
  ASSUME FreshInv, OwnershipInv', UNCHANGED <<now, valid, process, conn>>,
         \A a \in Agents : Tells(chan[a], link[a], chan'[a], link'[a])
  PROVE  FreshInv' /\ NoReturn
<1>1. ASSUME NEW a \in Agents
      PROVE  /\ process'[a] = "absent" => conn'[a] = NewConnection /\ chan'[a].reply.op = 0
             /\ process'[a] = "exited" => conn'[a] = NewConnection
             /\ link'[a].active => link'[a].generation # 0
             /\ Sound(chan'[a])
             /\ process'[a] = "running" => Fresh(conn'[a], chan'[a], link'[a])
  <2>1. /\ conn[a] \in Connection /\ chan[a] \in Channel /\ link[a] \in Link /\ now \in Nat
        /\ Sound(chan[a]) /\ (process[a] = "running" => Fresh(conn[a], chan[a], link[a]))
    BY FreshParts, Zenon
  <2>2. chan'[a] \in Channel /\ link'[a] \in Link
    BY Zenon DEF OwnershipInv, TypeOK
  <2>3. Tells(chan[a], link[a], chan'[a], link'[a])
    BY Zenon
  <2>4. Sound(chan'[a]) /\ (process[a] = "running" => Fresh(conn[a], chan'[a], link'[a]))
    BY <2>1, <2>2, <2>3, TellsKeeps, TellsSound, Zenon
  <2>5. /\ process[a] = "absent" => conn[a] = NewConnection /\ chan[a].reply.op = 0
        /\ process[a] = "absent" => chan[a].request.op = 0
        /\ process[a] = "exited" => conn[a] = NewConnection
        /\ link[a].active => link[a].generation # 0
    BY Zenon DEF FreshInv, OwnershipInv
  <2>6. process[a] = "absent" => chan'[a].reply.op = 0
    BY <2>3, <2>5, Zenon DEF Tells
  <2>7. link'[a].active => link'[a].generation # 0
    BY <2>3, <2>5, Zenon DEF Tells
  <2> QED BY <2>4, <2>5, <2>6, <2>7, Zenon
<1>2. FreshInv'
  BY <1>1, Zenon DEF FreshInv, Fresh, InTime
<1>3. NoReturn
  BY Zenon DEF NoReturn, Admitted, Expired
<1> QED BY <1>2, <1>3, Zenon

\* The same for a step that touches one link and its channel.
LEMMA LinkFresh ==
  ASSUME FreshInv, OwnershipInv', NEW a \in Agents, NEW l, NEW ch,
         link' = [link EXCEPT ![a] = l], chan' = [chan EXCEPT ![a] = ch],
         Tells(chan[a], link[a], ch, l), UNCHANGED <<now, valid, process, conn>>
  PROVE  FreshInv' /\ NoReturn
<1>1. ASSUME NEW b \in Agents PROVE Tells(chan[b], link[b], chan'[b], link'[b])
  <2>1. CASE b = a
    BY <2>1, Zenon DEF FreshInv, OwnershipInv, TypeOK
  <2>2. CASE b # a
    <3>1. chan'[b] = chan[b] /\ link'[b] = link[b]
      BY <2>2, Zenon DEF FreshInv, OwnershipInv, TypeOK
    <3> QED BY <3>1, Zenon DEF Tells
  <2> QED BY <2>1, <2>2, Zenon
<1> QED BY <1>1, RegistryFresh, Zenon

\* A link whose lease is left alone or ends now, with its reply left where it is.
Leaves(l, m) ==
  /\ m.generation = l.generation
  /\ \/ m.active = l.active /\ m.revokedAt = l.revokedAt
     \/ ~m.active /\ m.revokedAt = now

\* A revocation, and closing the link, do no more.
LEMMA RevokedLeaves ==
  ASSUME NEW l \in Link, now \in Nat
  PROVE  Leaves(l, Revoked(l)) /\ Leaves(l, Closed(l)) /\ ~Revoked(l).active
<1>1. Revoked(l) \in Link /\ Leaves(l, Revoked(l)) /\ ~Revoked(l).active
  BY Zenon DEF Revoked, Leaves, Link
<1>2. CASE l.state = "closed"
  BY <1>1, <1>2, Zenon DEF Closed, Leaves
<1>3. CASE l.state # "closed"
  <2> DEFINE m == Revoked(l)
  <2>1. Closed(l) = [m EXCEPT !.state = "closed"]
    BY <1>3, Zenon DEF Closed
  <2> HIDE DEF m
  <2>2. m \in Link /\ Leaves(l, m)
    BY <1>1, Zenon DEF m
  <2>3. Leaves(l, Closed(l))
    BY <2>1, <2>2, Zenon DEF Leaves, Link
  <2> QED BY <1>1, <2>3, Zenon
<1> QED BY <1>2, <1>3, Zenon

\* A notification and a cut leave the reply.
LEMMA CutLeaves ==
  ASSUME NEW ch \in Channel, NEW l
  PROVE  /\ Notified(ch, l).reply = ch.reply /\ Notified(ch, l).request = ch.request
         /\ Cut(ch, l).reply = ch.reply /\ Cut(ch, l).request \in {ch.request, NoRequest}
<1> DEFINE n == Notified(ch, l)
<1>1. n.reply = ch.reply /\ n.request = ch.request
  BY Zenon DEF Notified, Channel
<1>2. n = IF l.active /\ l.state = "open" THEN [ch EXCEPT !.notice = l.generation] ELSE ch
  BY Zenon DEF Notified
<1>3. Cut(ch, l) = IF l.state = "closed" THEN ch
                   ELSE [n EXCEPT !.cut = TRUE, !.request = NoRequest]
  BY Zenon DEF Cut
<1>4. DOMAIN n = {"request", "reply", "notice", "cut"}
  BY <1>2, Zenon DEF Channel
<1> HIDE DEF n
<1>5. Cut(ch, l).reply = ch.reply /\ Cut(ch, l).request \in {ch.request, NoRequest}
  <2>1. CASE l.state = "closed"
    BY <1>3, <2>1, Zenon
  <2>2. CASE l.state # "closed"
    BY <1>1, <1>3, <1>4, <2>2, Zenon
  <2> QED BY <2>1, <2>2, Zenon
<1> QED BY <1>1, <1>5, Zenon DEF n

\* With no answer such a link is told nothing wrong.
LEMMA LeavesTells ==
  ASSUME NEW ch, NEW k, NEW l \in Link, NEW m, Leaves(l, m),
         k.reply = ch.reply, k.request \in {ch.request, NoRequest}
  PROVE  Tells(ch, l, k, m)
BY Zenon DEF Tells, Leaves, Link

\* A link that is closed is told nothing wrong.
LEMMA CloseLinkFresh ==
  ASSUME FreshInv, OwnershipInv', NEW a \in Agents, CloseLink(a),
         UNCHANGED <<now, valid, process, conn>>
  PROVE  FreshInv' /\ NoReturn
<1>1. link[a] \in Link /\ chan[a] \in Channel /\ now \in Nat
  BY FreshParts, Zenon
<1>2. /\ link' = [link EXCEPT ![a] = Closed(link[a])]
      /\ chan' = [chan EXCEPT ![a] = Cut(chan[a], link[a])]
  BY Zenon DEF CloseLink
<1>3. Tells(chan[a], link[a], Cut(chan[a], link[a]), Closed(link[a]))
  BY <1>1, RevokedLeaves, CutLeaves, LeavesTells, Zenon
<1> QED BY <1>2, <1>3, LinkFresh, Zenon

\* receive with a Register request: a success names the new generation, and if the
\* exit watch could not be armed the lease ends in the same step.
LEMMA RegisterFresh ==
  ASSUME FreshInv, OwnershipInv', NEW a \in Agents, Register(a), UNCHANGED <<process, conn>>
  PROVE  FreshInv' /\ NoReturn
<1> DEFINE lease == [link[a] EXCEPT !.generation = granted + 1, !.active = TRUE, !.epoch = epoch]
           answer == Answered(chan[a], 1, 0, granted + 1)
<1>0. chan[a].request.op = 1 /\ UNCHANGED <<now, valid>>
  BY Zenon DEF Register
<1>1. /\ link \in [Agents -> Link] /\ chan \in [Agents -> Channel] /\ granted \in Nat
      /\ link[a] \in Link /\ chan[a] \in Channel /\ now \in Nat /\ granted + 1 # 0
      /\ granted + 1 \in Nat /\ epoch \in Nat
  <2>1. /\ link \in [Agents -> Link] /\ chan \in [Agents -> Channel] /\ granted \in Nat
        /\ now \in Nat /\ epoch \in Nat
    BY Zenon DEF FreshInv, OwnershipInv, TypeOK
  <2> QED BY <2>1
<1>2. NoRequest.op = 0
  BY Zenon DEF NoRequest
<1>3. CASE CloseLink(a)
  BY <1>0, <1>3, CloseLinkFresh, Zenon
<1>4. CASE chan' = [chan EXCEPT ![a] = Answered(chan[a], 1, 1, 0)] /\ UNCHANGED link
  <2> DEFINE k == Answered(chan[a], 1, 1, 0)
  <2>1. k.request = NoRequest /\ k.reply.op = 1 /\ k.reply.status = 1
    BY <1>1, Zenon DEF Answered, Channel
  <2>2. link' = [link EXCEPT ![a] = link[a]] /\ chan' = [chan EXCEPT ![a] = k]
    BY <1>1, <1>4, Zenon
  <2> HIDE DEF k
  <2>3. Tells(chan[a], link[a], k, link[a])
    BY <1>0, <1>2, <2>1 DEF Tells, Success
  <2> QED BY <1>0, <2>2, <2>3, LinkFresh, Zenon
<1>5. CASE \/ /\ link' = [link EXCEPT ![a] = [lease EXCEPT !.watched = TRUE]]
              /\ chan' = [chan EXCEPT ![a] = answer]
           \/ /\ link' = [link EXCEPT ![a] = Revoked(lease)]
              /\ chan' = [chan EXCEPT ![a] = Notified(answer, lease)]
  <2>1. lease \in Link /\ lease.generation = granted + 1 /\ lease.active
    BY <1>1, Zenon DEF Link
  <2>2. /\ answer.request = NoRequest /\ answer.reply.op = 1
        /\ answer.reply.generation = granted + 1
    BY <1>1, Zenon DEF Answered, Channel
  <2>3. answer \in Channel
    BY <1>1, AnsweredServes DEF Operations, Statuses
  <2> HIDE DEF lease, answer
  <2>4. CASE /\ link' = [link EXCEPT ![a] = [lease EXCEPT !.watched = TRUE]]
             /\ chan' = [chan EXCEPT ![a] = answer]
    <3> DEFINE l == [lease EXCEPT !.watched = TRUE]
    <3>1. l.generation = granted + 1 /\ l.active
      BY <2>1, Zenon DEF Link
    <3>2. link' = [link EXCEPT ![a] = l]
      BY <2>4, Zenon
    <3> HIDE DEF l
    <3>3. Tells(chan[a], link[a], answer, l)
      BY <1>0, <1>1, <1>2, <2>2, <3>1 DEF Tells
    <3> QED BY <1>0, <2>4, <3>2, <3>3, LinkFresh, Zenon
  <2>5. CASE /\ link' = [link EXCEPT ![a] = Revoked(lease)]
             /\ chan' = [chan EXCEPT ![a] = Notified(answer, lease)]
    <3>1. ~Revoked(lease).active /\ Revoked(lease).revokedAt = now
      BY <2>1, Zenon DEF Revoked, Link
    <3>2. /\ Notified(answer, lease).reply = answer.reply
          /\ Notified(answer, lease).request = answer.request
      BY <2>3, CutLeaves, Zenon
    <3>3. Tells(chan[a], link[a], Notified(answer, lease), Revoked(lease))
      BY <1>0, <1>1, <1>2, <2>2, <3>1, <3>2 DEF Tells
    <3> QED BY <1>0, <2>5, <3>3, LinkFresh, Zenon
  <2> QED BY <1>5, <2>4, <2>5, Zenon
<1> QED BY <1>3, <1>4, <1>5, Zenon DEF Register

\* receive with a health check: success only for a lease that is still active.
LEMMA CheckFresh ==
  ASSUME FreshInv, OwnershipInv', NEW a \in Agents, Check(a), UNCHANGED <<process, conn>>
  PROVE  FreshInv' /\ NoReturn
<1> DEFINE m == Refreshed(a)
           l == [m EXCEPT !.sequence = @ + 1]
           status == IF l.active THEN 0 ELSE 2
           generation == IF l.active THEN l.generation ELSE 0
           k == Answered(RefreshedOn(a), 2, status, generation)
<1>0. chan[a].request.op = 2 /\ UNCHANGED <<now, valid>>
  BY Zenon DEF Check
<1>1. /\ link[a] \in Link /\ chan[a] \in Channel /\ now \in Nat
      /\ link[a].active => link[a].generation # 0
  BY FreshParts, Zenon DEF FreshInv
<1>2. CASE CloseLink(a)
  BY <1>0, <1>2, CloseLinkFresh, Zenon
<1>3. CASE link' = [link EXCEPT ![a] = l] /\ chan' = [chan EXCEPT ![a] = k]
  <2>1. Leaves(link[a], m)
    BY <1>1, RevokedLeaves, Zenon DEF Refreshed, Leaves
  <2>2. m \in Link
    BY <1>1, RevokedSame, Zenon DEF Refreshed, SameLease
  <2> HIDE DEF m
  <2>3. l.active = m.active /\ l.revokedAt = m.revokedAt /\ l.generation = m.generation
    BY <2>2, Zenon DEF Link
  <2> HIDE DEF l
  <2>4. RefreshedOn(a) \in Channel
    BY <1>1, NotifiedServes, Zenon DEF RefreshedOn, Serves
  <2>5. /\ k.request = NoRequest /\ k.reply.op = 2 /\ k.reply.status = status
        /\ k.reply.generation = generation
    BY <2>4, Zenon DEF Answered, Channel
  <2> HIDE DEF k
  <2>6. Success(k.reply) => l.active /\ k.reply.generation # 0
    <3>1. Success(k.reply) => l.active /\ k.reply.generation = l.generation
      BY <2>5 DEF Success
    <3>2. l.active => l.generation # 0
      BY <1>1, <2>1, <2>3, Zenon DEF Leaves
    <3> QED BY <3>1, <3>2, Zenon
  <2>7. NoRequest.op = 0
    BY Zenon DEF NoRequest
  <2>8. Tells(chan[a], link[a], k, l)
    <3>1. (link[a].active => link[a].generation # 0) => (l.active => l.generation # 0)
      BY <2>1, <2>3, Zenon DEF Leaves
    <3>2. l.active \/ l.revokedAt = now \/ (~link[a].active /\ l.revokedAt = link[a].revokedAt)
      BY <2>1, <2>3, Zenon DEF Leaves
    <3>3. chan[a].request.op # 0 /\ k.request.op = 0 /\ k.reply.op # 0
      BY <1>0, <2>5, <2>7
    <3>4. Success(k.reply) => k.reply.generation # 0 /\ (l.active \/ l.revokedAt = now)
      BY <2>6, Zenon
    <3> QED BY <3>1, <3>2, <3>3, <3>4, Zenon DEF Tells
  <2> QED BY <1>0, <1>3, <2>8, LinkFresh, Zenon
<1> QED BY <1>2, <1>3, Zenon DEF Check

\* receive with a retirement: the lease ends and the answer is no success.
LEMMA RetiredFresh ==
  ASSUME FreshInv, OwnershipInv', NEW a \in Agents, Retired(a), UNCHANGED <<process, conn>>
  PROVE  FreshInv' /\ NoReturn
<1> DEFINE m == Revoked(link[a])
           n == link[a].sequence + 1
           l == [m EXCEPT !.retired = TRUE, !.sequence = n]
           k == Answered(Notified(chan[a], link[a]), 3, 2, 0)
<1>0. chan[a].request.op = 3 /\ UNCHANGED <<now, valid>>
  BY Zenon DEF Retired
<1>1. link[a] \in Link /\ chan[a] \in Channel /\ now \in Nat
  BY FreshParts, Zenon
<1>2. CASE CloseLink(a)
  BY <1>0, <1>2, CloseLinkFresh, Zenon
<1>3. CASE link' = [link EXCEPT ![a] = l] /\ chan' = [chan EXCEPT ![a] = k]
  <2>1. Leaves(link[a], m) /\ m \in Link
    BY <1>1, RevokedLeaves, RevokedSame, Zenon DEF SameLease
  <2> HIDE DEF m, n
  <2>2. l.active = m.active /\ l.revokedAt = m.revokedAt /\ l.generation = m.generation
    BY <2>1, Zenon DEF Link
  <2> HIDE DEF l
  <2>3. Notified(chan[a], link[a]) \in Channel
    BY <1>1, NotifiedServes, Zenon DEF Serves
  <2>4. k.request = NoRequest /\ k.reply.op = 3
    BY <2>3, Zenon DEF Answered, Channel
  <2>5. NoRequest.op = 0
    BY Zenon DEF NoRequest
  <2> HIDE DEF k
  <2>6. Tells(chan[a], link[a], k, l)
    BY <1>0, <1>1, <2>1, <2>2, <2>4, <2>5 DEF Tells, Leaves, Link, Success
  <2> QED BY <1>0, <1>3, <2>6, LinkFresh, Zenon
<1>4. \/ CloseLink(a)
      \/ link' = [link EXCEPT ![a] = l] /\ chan' = [chan EXCEPT ![a] = k]
  BY Zenon DEF Retired
<1> QED BY <1>2, <1>3, <1>4, Zenon

\* Every step of the coordinator keeps the invariant and readmits nobody.
LEMMA RegistryStepFresh ==
  ASSUME FreshInv, OwnershipInv', RegistryStep
  PROVE  FreshInv' /\ NoReturn
<1>0. UNCHANGED <<process, conn>>
  BY Zenon DEF RegistryStep, connVars
<1>a. \A b \in Agents : link[b] \in Link /\ chan[b] \in Channel /\ now \in Nat
  BY FreshParts, Zenon
<1>b. \A b \in Agents : /\ Tells(chan[b], link[b], chan[b], link[b])
                        /\ Tells(chan[b], link[b], Cut(chan[b], link[b]), Closed(link[b]))
                        /\ Tells(chan[b], link[b], Notified(chan[b], link[b]), Revoked(link[b]))
                        /\ Tells(chan[b], link[b], RefreshedOn(b), Refreshed(b))
  <2> TAKE b \in Agents
  <2>1. Leaves(link[b], link[b])
    BY Zenon DEF Leaves
  <2>2. Tells(chan[b], link[b], chan[b], link[b])
    BY <1>a, <2>1, LeavesTells, Zenon
  <2>3. /\ Tells(chan[b], link[b], Cut(chan[b], link[b]), Closed(link[b]))
        /\ Tells(chan[b], link[b], Notified(chan[b], link[b]), Revoked(link[b]))
    BY <1>a, RevokedLeaves, CutLeaves, LeavesTells, Zenon
  <2> QED BY <2>2, <2>3, Zenon DEF RefreshedOn, Refreshed
<1>1. ASSUME NEW a \in Agents, Accept(a) PROVE FreshInv' /\ NoReturn
  <2>1. UNCHANGED <<now, valid>>
    BY <1>1, Zenon DEF Accept
  <2>2. CASE CloseLink(a)
    BY <1>0, <2>1, <2>2, CloseLinkFresh, Zenon
  <2>3. CASE link' = [link EXCEPT ![a].state = "open", ![a].created = now] /\ UNCHANGED chan
    <3> DEFINE l == [link[a] EXCEPT !.state = "open", !.created = now]
    <3>1. Leaves(link[a], l)
      BY <1>a, Zenon DEF Leaves, Link
    <3>2. link' = [link EXCEPT ![a] = l] /\ chan' = [chan EXCEPT ![a] = chan[a]]
      BY <1>a, <2>3, Zenon DEF FreshInv, OwnershipInv, TypeOK
    <3> HIDE DEF l
    <3>3. Tells(chan[a], link[a], chan[a], l)
      BY <1>a, <3>1, LeavesTells, Zenon
    <3> QED BY <1>0, <2>1, <3>2, <3>3, LinkFresh, Zenon
  <2> QED BY <1>1, <2>2, <2>3, Zenon DEF Accept
<1>2. ASSUME NEW a \in Agents, LinkLost(a, PeerGone(a)) PROVE FreshInv' /\ NoReturn
  BY <1>0, <1>2, CloseLinkFresh, Zenon DEF LinkLost
<1>3. ASSUME NEW a \in Agents, ExitWatch(a, process[a] = "exited") PROVE FreshInv' /\ NoReturn
  <2> DEFINE freed == current = a /\ MayComplete(a)
             r == Revoked(link[a])
             m == IF freed THEN Closed(r) ELSE r
             l == [m EXCEPT !.watched = FALSE]
             ch == IF freed THEN Cut(chan[a], link[a]) ELSE Notified(chan[a], link[a])
  <2>1. UNCHANGED <<now, valid>>
    BY <1>3, Zenon DEF ExitWatch
  <2>2. link' = [link EXCEPT ![a] = l] /\ chan' = [chan EXCEPT ![a] = ch]
    BY <1>3, Zenon DEF ExitWatch
  <2>3. r \in Link /\ Leaves(link[a], r) /\ ~r.active
    BY <1>a, RevokedLeaves, RevokedSame, Zenon DEF SameLease
  <2> HIDE DEF r
  <2>4. Closed(r) \in Link /\ Closed(r).generation = r.generation
        /\ Closed(r).active = r.active /\ Closed(r).revokedAt = r.revokedAt
    <3>1. Revoked(r) = r
      BY <2>3, Zenon DEF Revoked
    <3> QED BY <2>3, <3>1, Zenon DEF Closed, Link
  <2>5. m \in Link /\ Leaves(link[a], m)
    BY <2>3, <2>4, Zenon DEF Leaves
  <2>6. ch.reply = chan[a].reply /\ ch.request \in {chan[a].request, NoRequest}
    BY <1>a, CutLeaves, Zenon
  <2> HIDE DEF m, ch
  <2>7. Leaves(link[a], l)
    BY <2>5, Zenon DEF Leaves, Link
  <2> HIDE DEF l
  <2>8. Tells(chan[a], link[a], ch, l)
    BY <1>a, <2>6, <2>7, LeavesTells, Zenon
  <2> QED BY <1>0, <2>1, <2>2, <2>8, LinkFresh, Zenon
<1>4. CASE RegistryWatch
  <2>1. UNCHANGED <<now, valid>>
    BY <1>4, Zenon DEF RegistryWatch
  <2>2. ASSUME NEW b \in Agents PROVE Tells(chan[b], link[b], chan'[b], link'[b])
    <3>1. /\ link'[b] = IF Overdue(b) THEN Closed(link[b]) ELSE Refreshed(b)
          /\ chan'[b] = IF Overdue(b) THEN Cut(chan[b], link[b]) ELSE RefreshedOn(b)
      BY <1>4, Zenon DEF RegistryWatch
    <3> QED BY <1>b, <3>1, Zenon
  <2> QED BY <1>0, <2>1, <2>2, RegistryFresh, Zenon
<1>5. CASE RevokeCurrent
  <2>1. /\ UNCHANGED <<now, valid>> /\ current # NoAgent
        /\ link' = [link EXCEPT ![current] = Revoked(link[current])]
        /\ chan' = [chan EXCEPT ![current] = Notified(chan[current], link[current])]
    BY <1>5, Zenon DEF RevokeCurrent
  <2>2. current \in Agents
    BY <2>1, Zenon DEF FreshInv, OwnershipInv, TypeOK
  <2> QED BY <1>0, <1>b, <2>1, <2>2, LinkFresh, Zenon
<1>6. ASSUME NEW clean \in BOOLEAN, MachineRestart(clean) PROVE FreshInv' /\ NoReturn
  <2>1. UNCHANGED <<now, valid>>
    BY <1>6, Zenon DEF MachineRestart
  <2>2. ASSUME NEW b \in Agents PROVE Tells(chan[b], link[b], chan'[b], link'[b])
    <3> DEFINE m == Closed(link[b])
               l == IF link[b].state = "none" THEN link[b] ELSE [m EXCEPT !.watched = FALSE]
               ch == IF link[b].state # "open" THEN chan[b]
                     ELSE IF clean THEN Cut(chan[b], link[b])
                     ELSE [chan[b] EXCEPT !.cut = TRUE, !.request = NoRequest]
    <3>1. link'[b] = l /\ chan'[b] = ch
      BY <1>6, Zenon DEF MachineRestart
    <3>2. Leaves(link[b], m) /\ m \in Link /\ link[b] \in Link /\ chan[b] \in Channel
      BY <1>a, RevokedLeaves, ClosedSame, Zenon DEF SameLease
    <3> HIDE DEF m
    <3>3. Leaves(link[b], l)
      BY <3>2, Zenon DEF Leaves, Link
    <3>4. ch.reply = chan[b].reply /\ ch.request \in {chan[b].request, NoRequest}
      BY <3>2, CutLeaves, Zenon DEF Channel
    <3> HIDE DEF l, ch
    <3> QED BY <3>1, <3>2, <3>3, <3>4, LeavesTells, Zenon
  <2> QED BY <1>0, <2>1, <2>2, RegistryFresh, Zenon
<1> QED BY <1>0, <1>1, <1>2, <1>3, <1>4, <1>5, <1>6, RegisterFresh, CheckFresh,
           RetiredFresh, ZenonT(60) DEF RegistryStep

-----------------------------------------------------------------------------
\* Initially no process has started and nothing is in flight.
LEMMA FreshStart == Init => FreshInv
<1> SUFFICES ASSUME Init PROVE FreshInv
  BY Zenon
<1>1. OwnershipInv
  BY OwnershipStart, Zenon
<1>2. NewChannel.reply.op = 0 /\ ~NewLink.active
  BY Zenon DEF NewChannel, NoReply, NewLink
<1>3. \A a \in Agents : /\ process[a] = "absent" /\ conn[a] = NewConnection
                        /\ chan[a] = NewChannel /\ link[a] = NewLink
  BY Zenon DEF Init
<1> QED BY <1>1, <1>2, <1>3 DEF FreshInv, Sound, Success

\* Every step keeps the invariant, and none readmits.
LEMMA FreshStep == FreshInv /\ [Next]_vars => FreshInv' /\ NoReturn
<1> SUFFICES ASSUME FreshInv, [Next]_vars PROVE FreshInv' /\ NoReturn
  BY Zenon
<1>0. OwnershipInv'
  BY OwnershipStep, Zenon DEF FreshInv
<1>1. ASSUME NEW a \in Agents, AgentStep(a) PROVE FreshInv' /\ NoReturn
  BY <1>0, <1>1, AgentStepFresh, Zenon
<1>2. CASE RegistryStep
  BY <1>0, <1>2, RegistryStepFresh, Zenon
<1>3. ASSUME UNCHANGED <<chan, conn, process, link>>, now' \in Nat, now <= now',
             \A a \in Agents : valid'[a] => valid[a]
      PROVE  FreshInv' /\ NoReturn
  <2>1. ASSUME NEW a \in Agents, process[a] = "running" PROVE Fresh(conn[a], chan[a], link[a])'
    <3>1. Fresh(conn[a], chan[a], link[a]) /\ conn[a] \in Connection /\ now \in Nat
      BY <2>1, FreshParts, Zenon
    <3>2. /\ conn[a].sentAt \in Nat /\ conn[a].ackAt \in Nat
          /\ conn[a].admissionDeadline \in Nat /\ Freshness \in Nat
      BY <3>1, ChannelAssumption, Zenon DEF Connection
    <3>3. InTime(conn[a])'
      BY <1>3, <3>1, <3>2 DEF Fresh, InTime
    <3> QED BY <1>3, <3>1, <3>3, Zenon DEF Fresh
  <2>2. FreshInv'
    BY <1>0, <1>3, <2>1, Zenon DEF FreshInv
  <2>3. ASSUME NEW a \in Agents, conn[a].state # "Connecting", ~Admitted(a)
        PROVE  ~Admitted(a)'
    <3>1. conn[a] \in Connection /\ now \in Nat
      BY FreshParts, Zenon
    <3>2. conn[a].admissionDeadline \in Nat
      BY <3>1, Zenon DEF Connection
    <3>3. Expired(conn[a]) => Expired(conn[a])'
      BY <1>3, <3>1, <3>2 DEF Expired
    <3> QED BY <1>3, <2>3, <3>3, Zenon DEF Admitted
  <2> QED BY <2>2, <2>3, Zenon DEF NoReturn
<1>4. now \in Nat /\ now <= now /\ valid \in [Agents -> BOOLEAN]
  BY DEF FreshInv, OwnershipInv, TypeOK
<1>5. ASSUME NEW a \in Agents, ConsoleSwitch(a) PROVE FreshInv' /\ NoReturn
  BY <1>3, <1>4, <1>5, Zenon DEF ConsoleSwitch, connVars, registryVars
<1>6. ASSUME NEW a \in Agents, ScopeRevoked(a) PROVE FreshInv' /\ NoReturn
  BY <1>3, <1>4, <1>6, Zenon DEF ScopeRevoked, connVars, registryVars
<1>7. CASE Tick
  BY <1>3, <1>4, <1>7 DEF Tick, connVars, registryVars
<1>8. CASE UNCHANGED vars
  BY <1>3, <1>4, <1>8, Zenon DEF vars
<1> QED BY <1>1, <1>2, <1>5, <1>6, <1>7, <1>8, Zenon DEF Next

\* The invariant holds in every run.
THEOREM FreshAlways == Spec => []FreshInv
BY FreshStart, FreshStep, PTL DEF Spec

\* A process whose lease was revoked has no capture or input admission two
\* freshness periods later, however late its notification, its replies and
\* _valid() are, and whether or not the coordinator still runs.
THEOREM StaleAdmissionBounded == Spec => []StaleAdmissionEnds
<1>1. FreshInv => StaleAdmissionEnds
  <2> SUFFICES ASSUME FreshInv, NEW a \in Agents, Admitted(a), ~link[a].active
               PROVE  now < link[a].revokedAt + 2 * Freshness
    BY Zenon DEF StaleAdmissionEnds
  <2>1. /\ conn[a] \in Connection /\ link[a] \in Link /\ now \in Nat
        /\ Fresh(conn[a], chan[a], link[a])
    BY FreshParts, Zenon DEF Admitted
  <2>2. /\ conn[a].admissionDeadline \in Nat /\ link[a].revokedAt \in Nat /\ Freshness \in Nat
    BY <2>1, ChannelAssumption, Zenon DEF Connection, Link
  <2>3. conn[a].admissionDeadline <= link[a].revokedAt + 2 * Freshness
    BY <2>1, Zenon DEF Fresh, Bounded, Admitted
  <2>4. now < conn[a].admissionDeadline
    BY <2>1, <2>2 DEF Admitted, Expired
  <2> QED BY <2>1, <2>2, <2>3, <2>4
<1> QED BY FreshAlways, <1>1, PTL

\* No late reply and no restored scope readmits a process that got past
\* Connecting and is not admitted.
THEOREM AdmissionGoneForGood == Spec => AdmissionNeverReturns
<1>1. FreshInv /\ [Next]_vars
        => [\A a \in Agents : conn[a].state # "Connecting" /\ ~Admitted(a) => ~Admitted(a)']_vars
  BY FreshStep, Zenon DEF NoReturn
<1> QED BY FreshAlways, <1>1, PTL DEF Spec, AdmissionNeverReturns
==============================================================================
