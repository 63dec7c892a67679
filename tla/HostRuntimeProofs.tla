-------------------------- MODULE HostRuntimeProofs ---------------------------
(***************************************************************************)
(* The host's runtime and its control server: an inductive invariant, that *)
(* every step keeps it, and the theorems, for every set of requests.       *)
(*                                                                         *)
(* The two lanes only touch each other through the blocks in their queues, *)
(* so the proof speaks of a queue as the set of its blocks (Items); the    *)
(* order matters twice, in Distinct and InOrder.  The invariant Inv has    *)
(* one part for each argument: the lock (LockInv), the shutdown (ShutInv   *)
(* and EndInv), the one ticket of a request (TicketInv), and the token     *)
(* that is owed to a peer (LeaseInv and Owed).  Lemmas ending in Kept say  *)
(* which changes a part survives; one ending in Keeps is about an action.  *)
(***************************************************************************)
EXTENDS HostRuntime, TLAPS

\* What a block dispatched to one of the lanes does.
Jobs == {"handle", "reply", "free", "revoke", "revokeAll", "stop", "complete"}

\* The blocks; one that handles or answers a request has its request.
BlockType ==
  {b \in [job: Jobs, kind: Kinds \cup {"-"}, r: Requests \cup {None},
          token: Requests \cup {None}, calls: BOOLEAN] :
     b.job \in {"handle", "reply"} => b.r \in Requests}

\* The blocks in a queue, whatever their order.
Items(q) == {q[i] : i \in DOMAIN q}

\* A request has at most one block that handles it, and at most one that answers
\* it, in a queue.
Distinct(q) ==
  \A i, j \in DOMAIN q :
    q[i].job \in {"handle", "reply"} /\ q[j].job = q[i].job /\ q[j].r = q[i].r => i = j

\* Behind the revocation of all tokens nothing handles a request any more.
InOrder(q) ==
  \A i, j \in DOMAIN q : q[i].job = "revokeAll" /\ i < j => q[j].job # "handle"

\* The handler on the authentication lane.
LaneType ==
  [at: {"idle", "run", "held", "launched", "end"}, kind: Kinds \cup {"-"},
   r: Requests \cup {None}, token: Requests \cup {None},
   status: {"-", "ok", "pending", "refused"}]

\* The stream lease.
LeaseType == [r: Requests \cup {None}, token: Requests \cup {None}]

\* Every variable has its type.
Types ==
  /\ req \in [Requests -> Request]
  /\ networkQ \in Seq(BlockType) /\ authQ \in Seq(BlockType)
  /\ lane \in LaneType
  /\ tokens \subseteq Requests /\ delivered \subseteq Requests
  /\ lease \in LeaseType
  /\ stream \in Stream
  /\ stopper \in {"none", "asked", "draining", "server", "done"}
  /\ stopping \in BOOLEAN /\ stopped \in BOOLEAN

\* An idle lane carries nothing, a busy one has its request; only a launch
\* constructs a stream, and it ends accepted or refused.
LaneInv ==
  /\ lane.at = "idle" => lane = Idle
  /\ lane.at # "idle" => lane.r \in Requests
  /\ lane.at = "launched" => lane.kind = "launch"
  /\ lane.at = "end" /\ lane.kind = "launch" => lane.status \in {"ok", "refused"}

\* What the runtime's lock protects: a launch that holds it has no living stream
\* beside it, a stream just constructed is untouched until the lock is released,
\* and a lease has its stream.
LockInv ==
  /\ stream.state = "none" => stream = NoStream
  /\ Launches => stream.state \in Gone
  /\ lane.at = "launched" => stream = Prepared(lane.r)
  /\ LeaseHasStream

\* The runtime's stop has passed the lock.
Draining ==
  \/ "shutdown" \in Items(stream.jobs) \/ stream.waiting
  \/ stopper \in {"draining", "server", "done"}

\* The runtime has asked the server to stop: it says so itself, or the block
\* with its completion is somewhere.
Quiesced ==
  \/ stopper \in {"server", "done"}
  \/ \E b \in Items(networkQ) \cup Items(authQ) : b.calls

\* Once the stop is past the lock nobody holds or takes the lock again, and once
\* the server is asked to stop the stream is gone too.
ShutInv ==
  /\ stopper # "none" => stopping
  /\ Draining => stopping /\ LockFree
  /\ Quiesced => stopping /\ LockFree /\ stream.state \in Gone

\* Nothing of a server is left: no token, no lease, no handler, none to come.
Over ==
  /\ stopped /\ tokens = {} /\ lease = NoLease /\ lane = Idle
  /\ \A b \in Items(authQ) : b.job # "handle"

\* A stopped server has no open request; its tokens are revoked only after it
\* stopped, behind every handler; and when the last block of the stop is
\* dispatched the server is over.
EndInv ==
  /\ stopped => \A r \in Requests : req[r].conn \notin {"reading", "dispatched"}
  /\ (\E b \in Items(authQ) : b.job = "revokeAll") => stopped
  /\ InOrder(authQ)
  /\ stopper = "done" \/ (\E b \in Items(networkQ) : b.job = "complete") => Over

\* A request that waits for the authentication lane.
Waits(r) == \E b \in Items(authQ) : b.job = "handle" /\ b.r = r

\* A request whose answer is on its way to the network lane.
Replied(r) == \E b \in Items(networkQ) : b.job = "reply" /\ b.r = r

\* A request that was dispatched and whose answer was not given to the network.
Dispatched(r) == req[r].conn \notin {"absent", "reading"} /\ ~req[r].sending

\* A request is in one place only: waiting, on the lane, answered, or being
\* sent; so no answer is overwritten by another (replyBytes), and only what is
\* being sent has a token bound to it.
TicketInv ==
  /\ Distinct(authQ) /\ Distinct(networkQ)
  /\ \A r \in Requests :
       /\ req[r].bound # None => req[r].sending
       /\ Waits(r) => Dispatched(r) /\ lane.r # r /\ ~Replied(r)
       /\ lane.r = r => Dispatched(r) /\ ~Replied(r)
       /\ Replied(r) => Dispatched(r)

\* A lease names a request that was dispatched and will not be handled again;
\* while that request is on the lane it is a launch with the token of the lease.
LeaseInv ==
  lease # NoLease =>
    /\ lease.r \in Requests /\ lease.token \in Requests
    /\ req[lease.r].conn \notin {"absent", "reading"} /\ ~Waits(lease.r)
    /\ lane.r = lease.r =>
         lane.kind = "launch" /\ lane.at \in {"launched", "end"} /\ lane.token = lease.token

\* Answered of HostRuntime, in terms of Items.
AnsweredIn(r, t) ==
  \/ r \in delivered
  \/ req[r].bound = t
  \/ \E b \in Items(networkQ) : b.job = "reply" /\ b.r = r /\ b.token = t
  \/ \E b \in Items(authQ) : b.job = "revoke" /\ b.token = t

\* UndeliveredIsRevoked of HostRuntime, in terms of Items.
Owed ==
  /\ \A t \in tokens : AnsweredIn(t, t)
  /\ lease # NoLease => lane.r = lease.r \/ AnsweredIn(lease.r, lease.token)

\* The inductive invariant.
Inv ==
  /\ Types /\ LaneInv /\ LockInv /\ ShutInv /\ EndInv /\ TicketInv /\ LeaseInv /\ Owed

\* No block with the runtime's completion is new.
NoNewCalls ==
  \A b \in Items(networkQ') \cup Items(authQ') :
    b.calls => \E c \in Items(networkQ) \cup Items(authQ) : c.calls

\* No last block of a stop is new.
NoNewComplete == \A b \in Items(networkQ') : b.job = "complete" => b \in Items(networkQ)

\* No answer is new.
NoNewReply == \A b \in Items(networkQ') : b.job = "reply" => b \in Items(networkQ)

\* No revocation of all tokens is new.
NoNewRevokeAll == \A b \in Items(authQ') : b.job = "revokeAll" => b \in Items(authQ)

\* No handler is new.
NoNewHandle == \A b \in Items(authQ') : b.job = "handle" => b \in Items(authQ)

\* What dispatching a block does to a queue: it is one more block, and it keeps
\* Distinct if its request had none of the kind, InOrder if it is no handler or
\* no revocation of all is there.
LEMMA AppendFacts ==
  ASSUME NEW q \in Seq(BlockType), NEW x \in BlockType
  PROVE  LET p == Append(q, x) IN
         /\ p \in Seq(BlockType) /\ Items(p) = Items(q) \cup {x} /\ p # <<>>
         /\ \/ x.job \notin {"handle", "reply"}
            \/ \A y \in Items(q) : y.job # x.job \/ y.r # x.r
            => (Distinct(q) => Distinct(p))
         /\ x.job # "handle" \/ (\A y \in Items(q) : y.job # "revokeAll")
            => (InOrder(q) => InOrder(p))
<1> DEFINE p == Append(q, x)
<1>1. p \in Seq(BlockType) /\ Len(p) = Len(q) + 1 /\ Len(q) \in Nat /\ p # <<>>
  OBVIOUS
<1>2. DOMAIN q = 1 .. Len(q) /\ DOMAIN p = 1 .. Len(q) + 1
  OBVIOUS
<1>3. (\A i \in 1 .. Len(q) : p[i] = q[i]) /\ p[Len(q) + 1] = x
  OBVIOUS
<1> HIDE DEF p
<1>4. Items(p) = Items(q) \cup {x}
  <2>1. Items(p) \subseteq Items(q) \cup {x}
    BY <1>1, <1>2, <1>3 DEF Items
  <2>2. Items(q) \cup {x} \subseteq Items(p)
    BY <1>1, <1>2, <1>3 DEF Items
  <2> QED BY <2>1, <2>2, Zenon
<1>5. ASSUME Distinct(q),
             x.job \notin {"handle", "reply"} \/ \A y \in Items(q) : y.job # x.job \/ y.r # x.r
      PROVE  Distinct(p)
  <2> SUFFICES ASSUME NEW i \in 1 .. Len(q) + 1, NEW j \in 1 .. Len(q) + 1,
                      p[i].job \in {"handle", "reply"}, p[j].job = p[i].job, p[j].r = p[i].r
               PROVE  i = j
    BY <1>2, Zenon DEF Distinct
  <2>0. \A k \in 1 .. Len(q) : q[k] \in Items(q)
    BY <1>2, Zenon DEF Items
  <2>1. CASE i \in 1 .. Len(q) /\ j \in 1 .. Len(q)
    BY <1>2, <1>3, <1>5, <2>1, Zenon DEF Distinct
  <2>2. CASE i = Len(q) + 1 /\ j \in 1 .. Len(q)
    BY <1>3, <1>5, <2>0, <2>2, Zenon
  <2>3. CASE j = Len(q) + 1 /\ i \in 1 .. Len(q)
    BY <1>3, <1>5, <2>0, <2>3, Zenon
  <2> QED BY <1>1, <2>1, <2>2, <2>3
<1>6. ASSUME InOrder(q), x.job # "handle" \/ \A y \in Items(q) : y.job # "revokeAll"
      PROVE  InOrder(p)
  <2> SUFFICES ASSUME NEW i \in 1 .. Len(q) + 1, NEW j \in 1 .. Len(q) + 1,
                      p[i].job = "revokeAll", i < j
               PROVE  p[j].job # "handle"
    BY <1>2, Zenon DEF InOrder
  <2>0. i \in 1 .. Len(q) /\ q[i] \in Items(q)
    BY <1>1, <1>2 DEF Items
  <2>1. CASE j \in 1 .. Len(q)
    BY <1>2, <1>3, <1>6, <2>0, <2>1, Zenon DEF InOrder
  <2>2. CASE j = Len(q) + 1
    BY <1>3, <1>6, <2>0, <2>2, Zenon
  <2> QED BY <1>1, <2>1, <2>2
<1> QED BY <1>1, <1>4, <1>5, <1>6, Zenon DEF p

\* What running the first block of a queue does: it is gone, no other block of
\* the queue is for its request, and no handler is behind a revocation of all.
LEMMA TailFacts ==
  ASSUME NEW q \in Seq(BlockType), q # <<>>
  PROVE  LET p == Tail(q) IN
         /\ p \in Seq(BlockType) /\ Head(q) \in BlockType /\ Items(q) = Items(p) \cup {Head(q)}
         /\ Distinct(q) =>
              /\ Distinct(p)
              /\ Head(q).job \in {"handle", "reply"} =>
                   \A y \in Items(p) : y.job # Head(q).job \/ y.r # Head(q).r
         /\ InOrder(q) =>
              /\ InOrder(p)
              /\ Head(q).job = "revokeAll" => \A y \in Items(p) : y.job # "handle"
<1> DEFINE p == Tail(q)
           h == Head(q)
<1>1. p \in Seq(BlockType) /\ Len(p) = Len(q) - 1 /\ Len(q) \in Nat /\ Len(q) >= 1 /\ h = q[1]
  OBVIOUS
<1>2. DOMAIN q = 1 .. Len(q) /\ DOMAIN p = 1 .. Len(q) - 1
  OBVIOUS
<1>3. \A i \in 1 .. Len(q) - 1 : p[i] = q[i + 1]
  OBVIOUS
<1>4. h \in BlockType
  OBVIOUS
<1> HIDE DEF p, h
<1>5. Items(q) = Items(p) \cup {h}
  <2>1. ASSUME NEW y \in Items(q) PROVE y \in Items(p) \cup {h}
    <3>1. PICK i \in 1 .. Len(q) : y = q[i]
      BY <1>2, <2>1, Zenon DEF Items
    <3>2. CASE i = 1
      BY <1>1, <3>1, <3>2, Zenon
    <3>3. CASE i # 1
      <4>1. i - 1 \in 1 .. Len(q) - 1 /\ p[i - 1] = q[i]
        BY <1>1, <1>3, <3>3
      <4> QED BY <1>2, <3>1, <4>1, Zenon DEF Items
    <3> QED BY <3>2, <3>3, Zenon
  <2>2. ASSUME NEW y \in Items(p) PROVE y \in Items(q)
    <3>1. PICK i \in 1 .. Len(q) - 1 : y = p[i]
      BY <1>2, <2>2, Zenon DEF Items
    <3>2. i + 1 \in 1 .. Len(q) /\ y = q[i + 1]
      BY <1>1, <1>3, <3>1
    <3> QED BY <1>2, <3>2, Zenon DEF Items
  <2>3. h \in Items(q)
    BY <1>1, <1>2 DEF Items
  <2> QED BY <2>1, <2>2, <2>3, Zenon
<1>6. ASSUME Distinct(q) PROVE Distinct(p)
  <2> SUFFICES ASSUME NEW i \in 1 .. Len(q) - 1, NEW j \in 1 .. Len(q) - 1,
                      p[i].job \in {"handle", "reply"}, p[j].job = p[i].job, p[j].r = p[i].r
               PROVE  i = j
    BY <1>2, Zenon DEF Distinct
  <2>1. i + 1 \in 1 .. Len(q) /\ j + 1 \in 1 .. Len(q) /\ p[i] = q[i + 1] /\ p[j] = q[j + 1]
    BY <1>1, <1>3
  <2>2. i + 1 = j + 1
    BY <1>2, <1>6, <2>1, Zenon DEF Distinct
  <2> QED BY <1>1, <2>2
<1>7. ASSUME Distinct(q), h.job \in {"handle", "reply"}, NEW y \in Items(p)
      PROVE  y.job # h.job \/ y.r # h.r
  <2>1. PICK i \in 1 .. Len(q) - 1 : y = p[i]
    BY <1>2, <1>7, Zenon DEF Items
  <2>2. i + 1 \in 1 .. Len(q) /\ y = q[i + 1] /\ 1 \in 1 .. Len(q) /\ i + 1 # 1
    BY <1>1, <1>3, <2>1
  <2> QED BY <1>1, <1>2, <1>7, <2>2, Zenon DEF Distinct
<1>8. ASSUME InOrder(q) PROVE InOrder(p)
  <2> SUFFICES ASSUME NEW i \in 1 .. Len(q) - 1, NEW j \in 1 .. Len(q) - 1,
                      p[i].job = "revokeAll", i < j
               PROVE  p[j].job # "handle"
    BY <1>2, Zenon DEF InOrder
  <2>1. i + 1 \in 1 .. Len(q) /\ j + 1 \in 1 .. Len(q) /\ p[i] = q[i + 1] /\ p[j] = q[j + 1]
        /\ i + 1 < j + 1
    BY <1>1, <1>3
  <2> QED BY <1>2, <1>8, <2>1, Zenon DEF InOrder
<1>9. ASSUME InOrder(q), h.job = "revokeAll", NEW y \in Items(p)
      PROVE  y.job # "handle"
  <2>1. PICK i \in 1 .. Len(q) - 1 : y = p[i]
    BY <1>2, <1>9, Zenon DEF Items
  <2>2. i + 1 \in 1 .. Len(q) /\ y = q[i + 1] /\ 1 \in 1 .. Len(q) /\ 1 < i + 1
    BY <1>1, <1>3, <2>1
  <2> QED BY <1>1, <1>2, <1>9, <2>2, Zenon DEF InOrder
<1> QED BY <1>1, <1>4, <1>5, <1>6, <1>7, <1>8, <1>9, Zenon DEF p, h

\* Concatenating one block, or two, is dispatching them.
LEMMA ConcatFacts ==
  ASSUME NEW q \in Seq(BlockType), NEW x \in BlockType, NEW y \in BlockType
  PROVE  /\ q \o <<>> = q
         /\ q \o <<x>> = Append(q, x)
         /\ q \o <<x>> \o <<y>> = Append(Append(q, x), y)
<1>1. q \o <<>> = q
  OBVIOUS
<1>2. q \o <<x>> = Append(q, x)
  OBVIOUS
<1>3. Append(q, x) \o <<y>> = Append(Append(q, x), y)
  OBVIOUS
<1> QED BY <1>1, <1>2, <1>3, Zenon

\* The fields of a block.
LEMMA BlockFields ==
  ASSUME NEW b \in BlockType
  PROVE  /\ b.job \in Jobs /\ b.kind \in Kinds \cup {"-"} /\ b.r \in Requests \cup {None}
         /\ b.token \in Requests \cup {None} /\ b.calls \in BOOLEAN
         /\ b.job \in {"handle", "reply"} => b.r \in Requests
BY Zenon DEF BlockType

\* The block of a stop.
LEMMA StopBlockTyped ==
  ASSUME NEW calls \in BOOLEAN
  PROVE  /\ StopBlock(calls) \in BlockType
         /\ StopBlock(calls).job = "stop" /\ StopBlock(calls).calls = calls
BY Zenon DEF StopBlock, Block, BlockType, Jobs

\* A stop that goes on to the other lane keeps its completion.
LEMMA RenamedBlock ==
  ASSUME NEW b \in BlockType, NEW job \in {"revokeAll", "complete"}
  PROVE  LET c == [b EXCEPT !.job = job] IN
         c \in BlockType /\ c.job = job /\ c.calls = b.calls
BY Zenon DEF BlockType, Jobs

\* Undo dispatches a revocation if there is a token, and else nothing.
LEMMA UndoFacts ==
  ASSUME NEW q \in Seq(BlockType), NEW t \in Requests \cup {None}
  PROVE  LET p == q \o Undo(t)
             x == Block("revoke", "-", None, t) IN
         /\ p \in Seq(BlockType)
         /\ x.job = "revoke" /\ x.token = t /\ x.calls = FALSE
         /\ Items(q) \subseteq Items(p) /\ Items(p) \subseteq Items(q) \cup {x}
         /\ t # None => x \in Items(p)
         /\ Distinct(q) => Distinct(p)
         /\ InOrder(q) => InOrder(p)
<1> DEFINE x == Block("revoke", "-", None, t)
           p == q \o Undo(t)
<1>1. x \in BlockType /\ x.job = "revoke" /\ x.token = t /\ x.calls = FALSE
  BY Zenon DEF Block, BlockType, Jobs
<1> HIDE DEF x
<1>2. CASE t = None
  <2>1. p = q
    BY <1>1, <1>2, ConcatFacts, Zenon DEF Undo
  <2> QED BY <1>1, <1>2, <2>1, Zenon DEF x, p
<1>3. CASE t # None
  <2>1. p = Append(q, x)
    BY <1>1, <1>3, ConcatFacts, Zenon DEF Undo, x
  <2> HIDE DEF p
  <2>2. /\ p \in Seq(BlockType) /\ Items(p) = Items(q) \cup {x}
        /\ Distinct(q) => Distinct(p)
        /\ InOrder(q) => InOrder(p)
    BY <1>1, <2>1, AppendFacts, Zenon
  <2> QED BY <1>1, <2>2, Zenon DEF x, p
<1> QED BY <1>2, <1>3, Zenon

\* Answers dispatches one answer for the request on the lane, and perhaps the
\* release of the lane.
LEMMA AnswerFacts ==
  ASSUME networkQ \in Seq(BlockType), lane.kind \in Kinds \cup {"-"}, lane.r \in Requests,
         NEW t \in Requests \cup {None}, Answers(t)
  PROVE  LET x == Block("reply", lane.kind, lane.r, t)
             y == Block("free", "-", None, None) IN
         /\ networkQ' \in Seq(BlockType)
         /\ x.job = "reply" /\ x.r = lane.r /\ x.token = t /\ x.calls = FALSE
         /\ y.job = "free" /\ y.calls = FALSE
         /\ Items(networkQ) \cup {x} \subseteq Items(networkQ')
         /\ Items(networkQ') \subseteq Items(networkQ) \cup {x, y}
         /\ Distinct(networkQ) /\ ~Replied(lane.r) => Distinct(networkQ')
<1> DEFINE x == Block("reply", lane.kind, lane.r, t)
           y == Block("free", "-", None, None)
<1>1. x \in BlockType /\ x.job = "reply" /\ x.r = lane.r /\ x.token = t /\ x.calls = FALSE
  BY Zenon DEF Block, BlockType, Jobs
<1>2. y \in BlockType /\ y.job = "free" /\ y.calls = FALSE
  BY Zenon DEF Block, BlockType, Jobs
<1> DEFINE p == Append(networkQ, x)
           u == Append(p, y)
<1>3. networkQ' = p \/ networkQ' = u
  <2> HIDE DEF x, y
  <2>1. CASE lane.kind = "setup"
    <3>1. p \in Seq(BlockType) /\ p = networkQ \o <<x>>
      BY <1>1, AppendFacts, ConcatFacts, Zenon
    <3>2. p \o <<>> = p
      BY <1>1, <3>1, ConcatFacts, Zenon
    <3> QED BY <2>1, <3>1, <3>2, Zenon DEF Answers, x
  <2>2. CASE lane.kind # "setup"
    BY <1>1, <1>2, <2>2, ConcatFacts, Zenon DEF Answers, x, y
  <2> QED BY <2>1, <2>2, Zenon
<1> HIDE DEF x, y
<1>4. /\ p \in Seq(BlockType) /\ Items(p) = Items(networkQ) \cup {x}
      /\ (\A z \in Items(networkQ) : z.job # x.job \/ z.r # x.r)
         => (Distinct(networkQ) => Distinct(p))
  BY <1>1, AppendFacts, Zenon
<1>5. (\A z \in Items(networkQ) : z.job # x.job \/ z.r # x.r) <=> ~Replied(lane.r)
  BY <1>1, Zenon DEF Replied
<1> HIDE DEF p
<1>6. u \in Seq(BlockType) /\ Items(u) = Items(p) \cup {y} /\ (Distinct(p) => Distinct(u))
  BY <1>2, <1>4, AppendFacts, Zenon
<1> HIDE DEF u
<1> QED BY <1>1, <1>2, <1>3, <1>4, <1>5, <1>6, Zenon DEF x, y

\* The two forms of Answered agree.
LEMMA AnsweredItems ==
  \A r, t : Answered(r, t) <=> AnsweredIn(r, t)
BY Zenon DEF Answered, AnsweredIn, In, Items

\* The two forms of UndeliveredIsRevoked agree.
LEMMA OwedIsUndelivered ==
  Owed <=> UndeliveredIsRevoked
BY AnsweredItems, Zenon DEF Owed, UndeliveredIsRevoked

\* LockInv survives a lease that ends and a lane that does not take the lock.
LEMMA LockKept ==
  ASSUME LockInv, stream' = stream, lane' = lane \/ LockFree', lease' \in {lease, NoLease}
  PROVE  LockInv'
<1>1. LeaseHasStream'
  BY Zenon DEF LockInv, LeaseHasStream
<1>2. CASE lane' = lane
  BY <1>1, <1>2, Zenon DEF LockInv, Launches
<1>3. CASE LockFree'
  BY <1>1, <1>3, Zenon DEF LockInv, Launches, LockFree
<1> QED BY <1>2, <1>3, Zenon

\* ShutInv survives what leaves the stream and the stop alone and takes no lock
\* during a stop.
LEMMA ShutKept ==
  ASSUME ShutInv, stopper' = stopper, stopping' = stopping, stream' = stream,
         (LockFree => LockFree') \/ ~stopping, NoNewCalls
  PROVE  ShutInv'
<1>1. Draining' => Draining
  BY Zenon DEF Draining
<1>2. Quiesced' => Quiesced
  BY Zenon DEF Quiesced, NoNewCalls
<1> QED BY <1>1, <1>2, Zenon DEF ShutInv

\* EndInv survives what opens no request of a stopped server and adds no block
\* of a stop.
LEMMA EndKept ==
  ASSUME EndInv, stopped' = stopped, stopper' = "done" => stopper = "done",
         NoNewComplete, NoNewRevokeAll, InOrder(authQ'), Over => Over',
         stopped => \A r \in Requests : req'[r].conn \notin {"reading", "dispatched"}
  PROVE  EndInv'
BY Zenon DEF EndInv, NoNewComplete, NoNewRevokeAll

\* TicketInv survives what moves no request to a new place.
LEMMA TicketKept ==
  ASSUME TicketInv, Distinct(authQ'), Distinct(networkQ'), NoNewReply, NoNewHandle,
         None \notin Requests, lane'.r \in {lane.r, None},
         \A r \in Requests :
           (Dispatched(r) => Dispatched(r)') /\ (req'[r].bound # None => req'[r].sending)
  PROVE  TicketInv'
<1> SUFFICES ASSUME NEW r \in Requests
             PROVE  /\ Waits(r)' => Dispatched(r)' /\ lane'.r # r /\ ~Replied(r)'
                    /\ lane'.r = r => Dispatched(r)' /\ ~Replied(r)'
                    /\ Replied(r)' => Dispatched(r)'
  BY Zenon DEF TicketInv
<1>1. (Waits(r)' => Waits(r)) /\ (Replied(r)' => Replied(r)) /\ (lane'.r = r => lane.r = r)
  BY Zenon DEF Waits, Replied, NoNewReply, NoNewHandle
<1> QED BY <1>1, Zenon DEF TicketInv

\* LeaseInv survives a lease that ends and a lane that goes idle.
LEMMA LeaseKept ==
  ASSUME LeaseInv, lease' \in {lease, NoLease}, NoNewHandle,
         \A r \in Requests :
           req[r].conn \notin {"absent", "reading"} => req'[r].conn \notin {"absent", "reading"},
         lane'.r = None \/ lane' = lane, None \notin Requests
  PROVE  LeaseInv'
<1> SUFFICES ASSUME lease' # NoLease
             PROVE  LeaseInv'
  BY Zenon DEF LeaseInv
<1>1. lease' = lease /\ lease # NoLease
  BY Zenon
<1>2. /\ lease.r \in Requests /\ lease.token \in Requests
      /\ req[lease.r].conn \notin {"absent", "reading"} /\ ~Waits(lease.r)
  BY <1>1, Zenon DEF LeaseInv
<1>3. ~Waits(lease.r)'
  <2> SUFFICES ASSUME NEW b \in Items(authQ'), b.job = "handle", b.r = lease'.r
               PROVE  FALSE
    BY <1>1, Zenon DEF Waits
  <2> QED BY <1>1, <1>2, Zenon DEF NoNewHandle, Waits
<1>4. lane'.r = lease.r =>
        lane'.kind = "launch" /\ lane'.at \in {"launched", "end"} /\ lane'.token = lease.token
  BY <1>1, <1>2, Zenon DEF LeaseInv
<1> QED BY <1>1, <1>2, <1>3, <1>4, Zenon DEF LeaseInv

\* Answers, deliveries, bound tokens and revocations that stay keep a token
\* answered.
LEMMA AnsweredKept ==
  ASSUME delivered \subseteq delivered', Items(networkQ) \subseteq Items(networkQ'),
         Items(authQ) \subseteq Items(authQ'),
         \A r \in Requests : req[r].bound # None => req'[r].bound = req[r].bound,
         NEW r \in Requests, NEW t \in Requests, AnsweredIn(r, t), None \notin Requests
  PROVE  AnsweredIn(r, t)'
BY Zenon DEF AnsweredIn

\* Owed survives tokens and leases that end, if all that was answered stays so.
LEMMA OwedKept ==
  ASSUME Owed, LeaseInv, tokens \subseteq Requests, tokens' \subseteq tokens,
         lease' \in {lease, NoLease}, lane'.r = lane.r \/ lane = Idle, None \notin Requests,
         \A r, t \in Requests : AnsweredIn(r, t) => AnsweredIn(r, t)'
  PROVE  Owed'
<1>1. \A t \in tokens' : AnsweredIn(t, t)'
  BY Zenon DEF Owed
<1>2. ASSUME lease' # NoLease PROVE lane'.r = lease'.r \/ AnsweredIn(lease.r, lease.token)'
  BY <1>2 DEF Owed, LeaseInv, Idle
<1> QED BY <1>1, <1>2, Zenon DEF Owed

\* Inv survives what only changes requests, dispatches none and leaves what is
\* bound to them.
LEMMA ReqOnly ==
  ASSUME Inv, req' \in [Requests -> Request],
         UNCHANGED <<networkQ, authQ, lane, authBusy, stopped, tokens, lease, delivered,
                     stopping, stopper, stream, failed>>,
         \A r \in Requests :
           /\ Dispatched(r) => Dispatched(r)'
           /\ req'[r].bound # None => req'[r].sending
           /\ req[r].bound # None => req'[r].bound = req[r].bound
           /\ req[r].conn \notin {"absent", "reading"} =>
                req'[r].conn \notin {"absent", "reading"}
           /\ stopped => req'[r].conn \notin {"reading", "dispatched"}
  PROVE  Inv'
<1>0. None \notin Requests
  BY ServerAssumption, Zenon
<1>1. Types' /\ LaneInv'
  BY ZenonT(60) DEF Inv, Types, LaneInv
<1>2. LockInv'
  BY LockKept, Zenon DEF Inv
<1>3. NoNewCalls /\ NoNewComplete /\ NoNewReply /\ NoNewRevokeAll /\ NoNewHandle
  BY Zenon DEF NoNewCalls, NoNewComplete, NoNewReply, NoNewRevokeAll, NoNewHandle
<1>4. ShutInv'
  BY <1>3, ShutKept, Zenon DEF Inv, LockFree
<1>5. EndInv'
  <2>1. Over => Over'
    BY Zenon DEF Over
  <2> QED BY <1>3, <2>1, EndKept, Zenon DEF Inv, EndInv
<1>6. TicketInv'
  BY <1>0, <1>3, TicketKept, Zenon DEF Inv, TicketInv
<1>7. LeaseInv'
  BY <1>0, <1>3, LeaseKept, Zenon DEF Inv
<1>8. Owed'
  <2>1. \A r, t \in Requests : AnsweredIn(r, t) => AnsweredIn(r, t)'
    BY <1>0, AnsweredKept, Zenon
  <2> QED BY <1>0, <2>1, OwedKept, Zenon DEF Inv, Types
<1> QED BY <1>1, <1>2, <1>4, <1>5, <1>6, <1>7, <1>8, Zenon DEF Inv

\* accept, a refusal, the end of a connection and its deadline keep Inv.
LEMMA ConnectionKeeps ==
  ASSUME Inv, NEW r \in Requests, UNCHANGED runtimeVars,
         \/ Accept(r) \/ ReceiveRefuse(r) \/ ConnectionEnds(r) \/ DeadlinePasses(r) \/ Expire(r)
  PROVE  Inv'
<1>0. /\ req \in [Requests -> Request] /\ stopped \in BOOLEAN
      /\ \A q \in Requests : req[q] \in Request /\ (req[q].bound # None => req[q].sending)
      /\ stopped => \A q \in Requests : req[q].conn \notin {"reading", "dispatched"}
  BY Zenon DEF Inv, Types, TicketInv, EndInv
<1>1. UNCHANGED <<networkQ, authQ, lane, authBusy, stopped, tokens, lease, delivered,
                  stopping, stopper, stream, failed>>
  BY Zenon DEF Accept, ReceiveRefuse, ConnectionEnds, DeadlinePasses, Expire, runtimeVars
<1> DEFINE Moves(v) ==
      /\ v \in Request /\ req' = [req EXCEPT ![r] = v]
      /\ req[r].sending => v.sending
      /\ req[r].bound # None => v.bound = req[r].bound
      /\ v.bound # None => v.bound = req[r].bound
      /\ req[r].conn \notin {"absent", "reading"} =>
           v.conn \notin {"absent", "reading"} /\ v.sending = req[r].sending
      /\ stopped => v.conn \notin {"reading", "dispatched"}
<1>2. \E v : Moves(v)
  <2>0. req[r] \in Request /\ (req[r].bound # None => req[r].sending)
    BY <1>0, Zenon
  <2>1. CASE Accept(r)
    <3>1. PICK c \in {"reading", "finished"} :
            req' = [req EXCEPT ![r].conn = c] /\ (stopped => c = "finished")
      BY <2>1, Zenon DEF Accept
    <3>2. req[r].conn = "absent"
      BY <2>1, Zenon DEF Accept
    <3>3. Moves([req[r] EXCEPT !.conn = c])
      BY <1>0, <2>0, <3>1, <3>2, Zenon DEF Request
    <3> QED BY <3>3, Zenon
  <2>2. CASE ReceiveRefuse(r)
    <3>1. Moves(Sent(req[r], None))
      BY <1>0, <2>0, <2>2, Zenon DEF ReceiveRefuse, Request, Readable, Sent
    <3> QED BY <3>1, Zenon
  <2>3. CASE ConnectionEnds(r) \/ Expire(r)
    <3>1. req' = [req EXCEPT ![r] = Finished(req[r])]
      BY <2>3, Zenon DEF ConnectionEnds, Expire
    <3>2. Moves(Finished(req[r]))
      BY <1>0, <2>0, <3>1, Zenon DEF Request, Finished
    <3> QED BY <3>2, Zenon
  <2>4. CASE DeadlinePasses(r)
    <3>1. req' = [req EXCEPT ![r].late = TRUE]
      BY <2>4, Zenon DEF DeadlinePasses
    <3>2. Moves([req[r] EXCEPT !.late = TRUE])
      BY <1>0, <2>0, <3>1, Zenon DEF Request
    <3> QED BY <3>2, Zenon
  <2> QED BY <2>1, <2>2, <2>3, <2>4, Zenon
<1>3. PICK v : Moves(v)
  BY <1>2, Zenon
<1>4. /\ req' \in [Requests -> Request] /\ req'[r] = v
      /\ \A q \in Requests \ {r} : req'[q] = req[q]
  BY <1>0, <1>3, Zenon
<1>5. \A q \in Requests :
           /\ Dispatched(q) => Dispatched(q)'
           /\ req'[q].bound # None => req'[q].sending
           /\ req[q].bound # None => req'[q].bound = req[q].bound
           /\ req[q].conn \notin {"absent", "reading"} =>
                req'[q].conn \notin {"absent", "reading"}
           /\ stopped => req'[q].conn \notin {"reading", "dispatched"}
  <2> TAKE q \in Requests
  <2>1. CASE q = r
    BY <1>0, <1>3, <1>4, <2>1, Zenon DEF Dispatched
  <2>2. CASE q # r
    BY <1>0, <1>4, <2>2, Zenon DEF Dispatched
  <2> QED BY <2>1, <2>2, Zenon
<1> QED BY <1>1, <1>4, <1>5, ReqOnly, Zenon

\* receive keeps Inv: the request it dispatches was in no other place, and a
\* stopped server dispatches none.
LEMMA ReceiveDispatchKeeps ==
  ASSUME Inv, NEW r \in Requests, NEW kind \in Kinds, NEW token \in Requests \cup {None},
         ReceiveDispatch(r, kind, token), UNCHANGED runtimeVars
  PROVE  Inv'
<1> DEFINE x == Block("handle", kind, r, token)
<1>0. None \notin Requests
  BY ServerAssumption, Zenon
<1>1. /\ authQ' = Append(authQ, x) /\ UNCHANGED <<networkQ, lane, stopped, tokens, lease, delivered>>
      /\ UNCHANGED <<stopping, stopper, stream, failed>>
  BY Zenon DEF ReceiveDispatch, runtimeVars
<1>2. x \in BlockType /\ x.job = "handle" /\ x.r = r /\ x.calls = FALSE
  BY Zenon DEF Block, BlockType, Jobs
<1> HIDE DEF x
<1>3. /\ req' \in [Requests -> Request] /\ \A q \in Requests \ {r} : req'[q] = req[q]
      /\ req'[r].conn = "dispatched" /\ req'[r].sending = req[r].sending
      /\ req'[r].bound = req[r].bound
  BY ZenonT(60) DEF Inv, Types, ReceiveDispatch, Request
<1>4. req[r].conn = "reading" /\ ~req[r].sending
  BY Zenon DEF ReceiveDispatch, Readable
<1>5. ~stopped
  BY <1>4, Zenon DEF Inv, EndInv
<1>6. \A y \in Items(authQ) : y.job # "revokeAll"
  BY <1>5, Zenon DEF Inv, EndInv
<1>7. ~Waits(r) /\ lane.r # r /\ ~Replied(r)
  BY <1>4, Zenon DEF Inv, TicketInv, Dispatched
<1>8. \A y \in Items(authQ) : y.job # x.job \/ y.r # x.r
  BY <1>2, <1>7, Zenon DEF Waits
<1>9. /\ authQ' \in Seq(BlockType) /\ Items(authQ') = Items(authQ) \cup {x}
      /\ Distinct(authQ') /\ InOrder(authQ')
  BY <1>1, <1>2, <1>6, <1>8, AppendFacts, Zenon DEF Inv, Types, TicketInv, EndInv
<1>10. Types' /\ LaneInv'
  BY <1>1, <1>3, <1>9, Zenon DEF Inv, Types, LaneInv
<1>11. LockInv'
  BY <1>1, LockKept, Zenon DEF Inv
<1>12. NoNewCalls /\ NoNewComplete /\ NoNewReply /\ NoNewRevokeAll
  BY <1>1, <1>2, <1>9, Zenon DEF NoNewCalls, NoNewComplete, NoNewReply, NoNewRevokeAll
<1>13. ShutInv'
  BY <1>1, <1>12, ShutKept, Zenon DEF Inv, LockFree
<1>14. EndInv'
  <2>1. Over => Over'
    BY <1>5, Zenon DEF Over
  <2> QED BY <1>1, <1>5, <1>9, <1>12, <2>1, EndKept, Zenon DEF Inv
<1>15. TicketInv'
  <2> SUFFICES ASSUME NEW q \in Requests
               PROVE  /\ req'[q].bound # None => req'[q].sending
                      /\ Waits(q)' => Dispatched(q)' /\ lane'.r # q /\ ~Replied(q)'
                      /\ lane'.r = q => Dispatched(q)' /\ ~Replied(q)'
                      /\ Replied(q)' => Dispatched(q)'
    BY <1>1, <1>9, Zenon DEF Inv, TicketInv
  <2>1. Replied(q)' <=> Replied(q)
    BY <1>1, Zenon DEF Replied
  <2>2. CASE q = r
    BY <1>1, <1>3, <1>4, <1>7, <2>1, <2>2, Zenon
       DEF Inv, TicketInv, Dispatched
  <2>3. CASE q # r
    <3>1. Waits(q)' => Waits(q)
      BY <1>2, <1>9, <2>3, Zenon DEF Waits
    <3> QED BY <1>1, <1>3, <2>1, <2>3, <3>1, Zenon DEF Inv, TicketInv, Dispatched
  <2> QED BY <2>2, <2>3, Zenon
<1>16. LeaseInv'
  <2> SUFFICES ASSUME lease # NoLease PROVE LeaseInv'
    BY <1>1, Zenon DEF LeaseInv
  <2>1. lease.r \in Requests /\ lease.r # r /\ ~Waits(lease.r)
    BY <1>4, Zenon DEF Inv, LeaseInv
  <2>2. ~Waits(lease.r)'
    BY <1>1, <1>2, <1>9, <2>1, Zenon DEF Waits
  <2> QED BY <1>1, <1>3, <2>1, <2>2, Zenon DEF Inv, LeaseInv
<1>17. Owed'
  <2>1. \A q, t \in Requests : AnsweredIn(q, t) => AnsweredIn(q, t)'
    <3>1. \A q \in Requests : req[q].bound # None => req'[q].bound = req[q].bound
      BY <1>3, Zenon
    <3> QED BY <1>0, <1>1, <1>9, <3>1, AnsweredKept, Zenon
  <2> QED BY <1>0, <1>1, <2>1, OwedKept, Zenon DEF Inv, Types
<1> QED BY <1>10, <1>11, <1>13, <1>14, <1>15, <1>16, <1>17, Zenon DEF Inv

\* The completion of a send keeps Inv: what was bound to the answer is delivered
\* or its revocation is dispatched.
LEMMA SendCompletesKeeps ==
  ASSUME Inv, NEW r \in Requests, NEW ok \in BOOLEAN, SendCompletes(r, ok),
         UNCHANGED runtimeVars
  PROVE  Inv'
<1> DEFINE t == IF ok THEN None ELSE req[r].bound
           x == Block("revoke", "-", None, t)
<1>0. None \notin Requests
  BY ServerAssumption, Zenon
<1>1. /\ UNCHANGED <<networkQ, lane, stopped, tokens, lease>>
      /\ UNCHANGED <<stopping, stopper, stream, failed>>
  BY Zenon DEF SendCompletes, runtimeVars
<1>2. req \in [Requests -> Request] /\ req[r] \in Request
  BY Zenon DEF Inv, Types
<1>3. authQ' = authQ \o Undo(t) /\ t \in Requests \cup {None}
  BY <1>2, Zenon DEF SendCompletes, UndoSend, Undo, Request
<1>4. /\ req' \in [Requests -> Request] /\ \A q \in Requests \ {r} : req'[q] = req[q]
      /\ req'[r].conn = "finished" /\ req'[r].sending = FALSE /\ req'[r].bound = None
  BY <1>2, Zenon DEF SendCompletes, Finished, Request
<1>5. req[r].sending
  BY Zenon DEF SendCompletes
<1> HIDE DEF t
<1>6. /\ authQ' \in Seq(BlockType)
      /\ x.job = "revoke" /\ x.token = t /\ x.calls = FALSE
      /\ Items(authQ) \subseteq Items(authQ') /\ Items(authQ') \subseteq Items(authQ) \cup {x}
      /\ t # None => x \in Items(authQ')
      /\ Distinct(authQ') /\ InOrder(authQ')
  BY <1>3, UndoFacts, Zenon DEF Inv, Types, TicketInv, EndInv
<1> HIDE DEF x
<1>7. NoNewCalls /\ NoNewComplete /\ NoNewReply /\ NoNewRevokeAll /\ NoNewHandle
  BY <1>1, <1>6, Zenon
     DEF NoNewCalls, NoNewComplete, NoNewReply, NoNewRevokeAll, NoNewHandle
<1>8. delivered' \subseteq Requests /\ delivered \subseteq delivered'
  BY Zenon DEF SendCompletes, Inv, Types
<1>9. Types' /\ LaneInv'
  BY <1>1, <1>4, <1>6, <1>8, ZenonT(60) DEF Inv, Types, LaneInv
<1>10. LockInv'
  BY <1>1, LockKept, Zenon DEF Inv
<1>11. ShutInv'
  BY <1>1, <1>7, ShutKept, Zenon DEF Inv, LockFree
<1>12. EndInv'
  <2>1. Over => Over'
    BY <1>1, <1>7, Zenon DEF Over, NoNewHandle
  <2>2. stopped => \A q \in Requests : req'[q].conn \notin {"reading", "dispatched"}
    BY <1>4, Zenon DEF Inv, EndInv
  <2> QED BY <1>1, <1>6, <1>7, <2>1, <2>2, EndKept, Zenon DEF Inv
<1>13. TicketInv'
  <2>1. \A q \in Requests :
           (Dispatched(q) => Dispatched(q)') /\ (req'[q].bound # None => req'[q].sending)
    BY <1>4, Zenon DEF Dispatched, Inv, TicketInv
  <2> QED BY <1>0, <1>1, <1>6, <1>7, <2>1, TicketKept, Zenon DEF Inv, TicketInv
<1>14. LeaseInv'
  <2>1. \A q \in Requests : req[q].conn \notin {"absent", "reading"} =>
                              req'[q].conn \notin {"absent", "reading"}
    BY <1>4, Zenon
  <2> QED BY <1>0, <1>1, <1>7, <2>1, LeaseKept, Zenon DEF Inv
<1>15. Owed'
  <2>1. ASSUME NEW q \in Requests, NEW u \in Requests, AnsweredIn(q, u)
        PROVE  AnsweredIn(q, u)'
    <3>1. CASE q # r \/ req[q].bound # u
      BY <1>0, <1>1, <1>4, <1>6, <1>8, <2>1, <3>1, Zenon DEF AnsweredIn
    <3>2. CASE q = r /\ req[q].bound = u /\ ok
      <4>1. r \in delivered'
        BY <1>0, <3>2, Zenon DEF SendCompletes
      <4> QED BY <3>2, <4>1, Zenon DEF AnsweredIn
    <3>3. CASE q = r /\ req[q].bound = u /\ ~ok
      <4>1. t = u /\ x \in Items(authQ')
        BY <1>0, <1>6, <3>3, Zenon DEF t
      <4> QED BY <1>6, <4>1, Zenon DEF AnsweredIn
    <3> QED BY <3>1, <3>2, <3>3, Zenon
  <2> QED BY <1>0, <1>1, <2>1, OwedKept, Zenon DEF Inv, Types
<1> QED BY <1>9, <1>10, <1>11, <1>12, <1>13, <1>14, <1>15, Zenon DEF Inv

\* replyBytes keeps Inv: its request was not being sent, so no bound token is
\* overwritten; for a finished one the token's revocation is dispatched.
LEMMA NetworkReplyKeeps ==
  ASSUME Inv, NetworkReply, UNCHANGED runtimeVars
  PROVE  Inv'
<1> DEFINE b == Head(networkQ)
           t == IF req[b.r].conn = "finished" THEN b.token ELSE None
           x == Block("revoke", "-", None, t)
<1>0. None \notin Requests
  BY ServerAssumption, Zenon
<1>1. /\ UNCHANGED <<lane, stopped, tokens, lease, delivered>>
      /\ UNCHANGED <<stopping, stopper, stream, failed>>
      /\ networkQ' = Tail(networkQ) /\ networkQ # <<>> /\ b.job = "reply"
  BY Zenon DEF NetworkReply, Job, runtimeVars
<1>2. req \in [Requests -> Request] /\ networkQ \in Seq(BlockType) /\ authQ \in Seq(BlockType)
  BY Zenon DEF Inv, Types
<1>3. /\ networkQ' \in Seq(BlockType) /\ b \in BlockType
      /\ Items(networkQ) = Items(networkQ') \cup {b} /\ Distinct(networkQ')
      /\ \A y \in Items(networkQ') : y.job # "reply" \/ y.r # b.r
  BY <1>1, <1>2, TailFacts, Zenon DEF Inv, TicketInv
<1>4. b.r \in Requests /\ b.token \in Requests \cup {None}
  BY <1>1, <1>3, BlockFields, Zenon
<1>5. \/ req[b.r].conn = "finished" /\ req' = req /\ authQ' = authQ \o Undo(b.token)
      \/ /\ req[b.r].conn # "finished" /\ authQ' = authQ
         /\ req' = [req EXCEPT ![b.r] = Sent(req[b.r], b.token)]
  BY Zenon DEF NetworkReply
<1> HIDE DEF b
<1>6. authQ' = authQ \o Undo(t) /\ t \in Requests \cup {None}
  BY <1>2, <1>4, <1>5, ConcatFacts DEF Undo
<1> HIDE DEF t
<1>7. /\ authQ' \in Seq(BlockType)
      /\ x.job = "revoke" /\ x.token = t /\ x.calls = FALSE
      /\ Items(authQ) \subseteq Items(authQ') /\ Items(authQ') \subseteq Items(authQ) \cup {x}
      /\ t # None => x \in Items(authQ')
      /\ Distinct(authQ') /\ InOrder(authQ')
  BY <1>2, <1>6, UndoFacts, Zenon DEF Inv, TicketInv, EndInv
<1> HIDE DEF x
<1>8. /\ req' \in [Requests -> Request] /\ \A q \in Requests \ {b.r} : req'[q] = req[q]
      /\ \A q \in Requests : req'[q].conn = req[q].conn
      /\ req[b.r].conn = "finished" => req' = req
      /\ req[b.r].conn # "finished" => req'[b.r].sending /\ req'[b.r].bound = b.token
  <2> DEFINE v == Sent(req[b.r], b.token)
  <2>0. req[b.r] \in Request
    BY <1>2, <1>4, Zenon
  <2>1. v \in Request /\ v.conn = req[b.r].conn /\ v.sending /\ v.bound = b.token
    BY <1>4, <2>0, Zenon DEF Sent, Request
  <2>2. CASE req[b.r].conn = "finished"
    BY <1>2, <1>5, <2>2, Zenon
  <2>3. CASE req[b.r].conn # "finished"
    <3>1. req' = [req EXCEPT ![b.r] = v]
      BY <1>5, <2>3, Zenon
    <3> HIDE DEF v
    <3> QED BY <1>2, <1>4, <2>1, <2>3, <3>1, Zenon
  <2> QED BY <2>2, <2>3, Zenon
<1>9. Replied(b.r) /\ Dispatched(b.r) /\ ~Waits(b.r) /\ lane.r # b.r
  <2>1. Replied(b.r)
    BY <1>1, <1>3, Zenon DEF Replied
  <2> QED BY <1>4, <2>1, Zenon DEF Inv, TicketInv
<1>10. req[b.r].bound = None
  <2>1. ~req[b.r].sending
    BY <1>9, Zenon DEF Dispatched
  <2> QED BY <1>4, <2>1, Zenon DEF Inv, TicketInv
<1>11. NoNewCalls /\ NoNewComplete /\ NoNewReply /\ NoNewRevokeAll /\ NoNewHandle
  BY <1>3, <1>7, Zenon
     DEF NoNewCalls, NoNewComplete, NoNewReply, NoNewRevokeAll, NoNewHandle
<1>12. Types' /\ LaneInv'
  BY <1>1, <1>3, <1>7, <1>8, Zenon DEF Inv, Types, LaneInv
<1>13. LockInv'
  BY <1>1, LockKept, Zenon DEF Inv
<1>14. ShutInv'
  BY <1>1, <1>11, ShutKept, Zenon DEF Inv, LockFree
<1>15. EndInv'
  <2>1. Over => Over'
    BY <1>1, <1>11, Zenon DEF Over, NoNewHandle
  <2>2. stopped => \A q \in Requests : req'[q].conn \notin {"reading", "dispatched"}
    BY <1>8, Zenon DEF Inv, EndInv
  <2> QED BY <1>1, <1>7, <1>11, <2>1, <2>2, EndKept, Zenon DEF Inv
<1>16. TicketInv'
  <2> SUFFICES ASSUME NEW q \in Requests
               PROVE  /\ req'[q].bound # None => req'[q].sending
                      /\ Waits(q)' => Dispatched(q)' /\ lane'.r # q /\ ~Replied(q)'
                      /\ lane'.r = q => Dispatched(q)' /\ ~Replied(q)'
                      /\ Replied(q)' => Dispatched(q)'
    BY <1>3, <1>7, Zenon DEF TicketInv
  <2>1. (Waits(q)' => Waits(q)) /\ (Replied(q)' => Replied(q))
    BY <1>11, Zenon DEF Waits, Replied, NoNewReply, NoNewHandle
  <2>2. CASE q = b.r
    <3>1. ~Replied(q)'
      BY <1>3, <2>2, Zenon DEF Replied
    <3> QED BY <1>1, <1>8, <1>9, <1>10, <2>1, <2>2, <3>1, Zenon
  <2>3. CASE q # b.r
    BY <1>1, <1>8, <2>1, <2>3, Zenon DEF Inv, TicketInv, Dispatched
  <2> QED BY <2>2, <2>3, Zenon
<1>17. LeaseInv'
  BY <1>0, <1>1, <1>8, <1>11, LeaseKept, Zenon DEF Inv
<1>18. Owed'
  <2>1. ASSUME NEW q \in Requests, NEW u \in Requests, AnsweredIn(q, u)
        PROVE  AnsweredIn(q, u)'
    <3>1. CASE q \in delivered
      BY <1>1, <3>1, Zenon DEF AnsweredIn
    <3>2. CASE req[q].bound = u
      BY <1>0, <1>8, <1>10, <3>2, Zenon DEF AnsweredIn
    <3>3. CASE \E y \in Items(authQ) : y.job = "revoke" /\ y.token = u
      BY <1>7, <3>3, Zenon DEF AnsweredIn
    <3>4. ASSUME NEW y \in Items(networkQ), y.job = "reply", y.r = q, y.token = u
          PROVE  AnsweredIn(q, u)'
      <4>1. CASE y \in Items(networkQ')
        BY <3>4, <4>1, Zenon DEF AnsweredIn
      <4>2. CASE y = b /\ req[b.r].conn = "finished"
        BY <1>0, <1>7, <3>4, <4>2, Zenon DEF AnsweredIn, t
      <4>3. CASE y = b /\ req[b.r].conn # "finished"
        BY <1>8, <3>4, <4>3, Zenon DEF AnsweredIn
      <4> QED BY <1>3, <4>1, <4>2, <4>3, Zenon
    <3> QED BY <2>1, <3>1, <3>2, <3>3, <3>4, Zenon DEF AnsweredIn
  <2> QED BY <1>0, <1>1, <2>1, OwedKept, Zenon DEF Inv, Types
<1> QED BY <1>12, <1>13, <1>14, <1>15, <1>16, <1>17, <1>18, Zenon DEF Inv

\* The release of the authentication lane keeps Inv.
LEMMA NetworkFreeKeeps ==
  ASSUME Inv, NetworkFree, UNCHANGED runtimeVars
  PROVE  Inv'
<1> DEFINE b == Head(networkQ)
<1>0. None \notin Requests
  BY ServerAssumption, Zenon
<1>1. /\ UNCHANGED <<req, authQ, lane, stopped, tokens, lease, delivered>>
      /\ UNCHANGED <<stopping, stopper, stream, failed>>
      /\ networkQ' = Tail(networkQ) /\ networkQ # <<>> /\ b.job = "free"
  BY Zenon DEF NetworkFree, Job, runtimeVars
<1>2. /\ networkQ' \in Seq(BlockType)
      /\ Items(networkQ) = Items(networkQ') \cup {b} /\ Distinct(networkQ')
  BY <1>1, TailFacts, Zenon DEF Inv, TicketInv, Types
<1> HIDE DEF b
<1>3. NoNewCalls /\ NoNewComplete /\ NoNewReply /\ NoNewRevokeAll /\ NoNewHandle
  BY <1>1, <1>2, Zenon
     DEF NoNewCalls, NoNewComplete, NoNewReply, NoNewRevokeAll, NoNewHandle
<1>4. Types' /\ LaneInv'
  BY <1>1, <1>2, Zenon DEF Inv, Types, LaneInv
<1>5. LockInv'
  BY <1>1, LockKept, Zenon DEF Inv
<1>6. ShutInv'
  BY <1>1, <1>3, ShutKept, Zenon DEF Inv, LockFree
<1>7. EndInv'
  <2>1. Over => Over'
    BY <1>1, Zenon DEF Over
  <2> QED BY <1>1, <1>3, <2>1, EndKept, Zenon DEF Inv, EndInv
<1>8. TicketInv'
  <2>1. \A q \in Requests :
           (Dispatched(q) => Dispatched(q)') /\ (req'[q].bound # None => req'[q].sending)
    BY <1>1, Zenon DEF Dispatched, Inv, TicketInv
  <2> QED BY <1>0, <1>1, <1>2, <1>3, <2>1, TicketKept, Zenon
            DEF Inv, TicketInv
<1>9. LeaseInv'
  BY <1>0, <1>1, <1>3, LeaseKept, Zenon DEF Inv
<1>10. Owed'
  <2>1. \A q, t \in Requests : AnsweredIn(q, t) => AnsweredIn(q, t)'
    BY <1>1, <1>2, Zenon DEF AnsweredIn
  <2> QED BY <1>0, <1>1, <2>1, OwedKept, Zenon DEF Inv, Types
<1> QED BY <1>4, <1>5, <1>6, <1>7, <1>8, <1>9, <1>10, Zenon DEF Inv

\* The first block of stopWithCompletion keeps Inv: it closes every request and
\* dispatches the revocation behind all handlers.
LEMMA NetworkStopKeeps ==
  ASSUME Inv, NetworkStop, UNCHANGED runtimeVars
  PROVE  Inv'
<1> DEFINE b == Head(networkQ)
           x == [b EXCEPT !.job = "revokeAll"]
<1>0. None \notin Requests
  BY ServerAssumption, Zenon
<1>1. /\ UNCHANGED <<lane, tokens, lease, delivered>> /\ stopped' = TRUE
      /\ UNCHANGED <<stopping, stopper, stream, failed>>
      /\ networkQ' = Tail(networkQ) /\ networkQ # <<>> /\ authQ' = Append(authQ, x)
  BY Zenon DEF NetworkStop, Job, runtimeVars
<1>2. /\ networkQ' \in Seq(BlockType) /\ b \in BlockType
      /\ Items(networkQ) = Items(networkQ') \cup {b} /\ Distinct(networkQ')
  BY <1>1, TailFacts, Zenon DEF Inv, TicketInv, Types
<1> HIDE DEF b
<1>3. x \in BlockType /\ x.job = "revokeAll" /\ x.calls = b.calls
  BY <1>2, RenamedBlock, Zenon
<1> HIDE DEF x
<1>4. /\ authQ' \in Seq(BlockType) /\ Items(authQ') = Items(authQ) \cup {x}
      /\ Distinct(authQ') /\ InOrder(authQ')
  BY <1>1, <1>3, AppendFacts, Zenon DEF Inv, Types, TicketInv, EndInv
<1>5. /\ req' \in [Requests -> Request]
      /\ \A q \in Requests :
           /\ req'[q].conn \notin {"reading", "dispatched"}
           /\ req'[q].sending = req[q].sending /\ req'[q].bound = req[q].bound
           /\ req[q].conn # "absent" => req'[q].conn # "absent"
  <2>1. \A q \in Requests : req[q] \in Request
    BY Zenon DEF Inv, Types
  <2>2. req' = [q \in Requests |-> IF q \in Open THEN Finished(req[q]) ELSE req[q]]
    BY Zenon DEF NetworkStop
  <2>3. ASSUME NEW q \in Requests
        PROVE  /\ req'[q] \in Request
               /\ req'[q].conn \notin {"reading", "dispatched"}
               /\ req'[q].sending = req[q].sending /\ req'[q].bound = req[q].bound
               /\ req[q].conn # "absent" => req'[q].conn # "absent"
    BY <2>1, <2>2, Zenon DEF Open, Finished, Request
  <2>4. req' \in [Requests -> Request]
    BY <2>2, <2>3, Zenon
  <2> QED BY <2>3, <2>4, Zenon
<1>6. NoNewCalls /\ NoNewComplete /\ NoNewReply /\ NoNewHandle
  BY <1>2, <1>3, <1>4, Zenon DEF NoNewCalls, NoNewComplete, NoNewReply, NoNewHandle
<1>7. Types' /\ LaneInv'
  BY <1>1, <1>2, <1>4, <1>5, Zenon DEF Inv, Types, LaneInv
<1>8. LockInv'
  BY <1>1, LockKept, Zenon DEF Inv
<1>9. ShutInv'
  BY <1>1, <1>6, ShutKept, Zenon DEF Inv, LockFree
<1>10. EndInv'
  <2>1. Over => Over'
    BY <1>1, <1>6, Zenon DEF Over, NoNewHandle
  <2> QED BY <1>1, <1>4, <1>5, <1>6, <2>1, Zenon DEF Inv, EndInv, NoNewComplete
<1>11. TicketInv'
  <2>1. \A q \in Requests :
           (Dispatched(q) => Dispatched(q)') /\ (req'[q].bound # None => req'[q].sending)
    BY <1>5, Zenon DEF Dispatched, Inv, TicketInv
  <2> QED BY <1>0, <1>1, <1>2, <1>4, <1>6, <2>1, TicketKept, Zenon DEF Inv
<1>12. LeaseInv'
  <2>1. \A q \in Requests : req[q].conn \notin {"absent", "reading"} =>
                              req'[q].conn \notin {"absent", "reading"}
    BY <1>5, Zenon
  <2> QED BY <1>0, <1>1, <1>6, <2>1, LeaseKept, Zenon DEF Inv
<1>13. Owed'
  <2>1. b.job # "reply"
    BY Zenon DEF NetworkStop, Job, b
  <2>2. \A q, t \in Requests : AnsweredIn(q, t) => AnsweredIn(q, t)'
    BY <1>1, <1>2, <1>4, <1>5, <2>1, Zenon DEF AnsweredIn
  <2> QED BY <1>0, <1>1, <2>2, OwedKept, Zenon DEF Inv, Types
<1> QED BY <1>7, <1>8, <1>9, <1>10, <1>11, <1>12, <1>13, Zenon DEF Inv

\* The last block of stopWithCompletion keeps Inv: the server was over when it
\* was dispatched.
LEMMA NetworkCompleteKeeps ==
  ASSUME Inv, NetworkComplete
  PROVE  Inv'
<1> DEFINE b == Head(networkQ)
<1>0. None \notin Requests
  BY ServerAssumption, Zenon
<1>1. /\ UNCHANGED <<req, authQ, lane, stopped, tokens, lease, delivered, stopping, stream, failed>>
      /\ networkQ' = Tail(networkQ) /\ networkQ # <<>> /\ b.job = "complete"
      /\ stopper' = IF b.calls THEN "done" ELSE stopper
  BY Zenon DEF NetworkComplete, Job
<1>2. /\ networkQ' \in Seq(BlockType) /\ b \in BlockType
      /\ Items(networkQ) = Items(networkQ') \cup {b} /\ Distinct(networkQ')
  BY <1>1, TailFacts, Zenon DEF Inv, TicketInv, Types
<1> HIDE DEF b
<1>3. NoNewCalls /\ NoNewComplete /\ NoNewReply /\ NoNewRevokeAll /\ NoNewHandle
  BY <1>1, <1>2, Zenon
     DEF NoNewCalls, NoNewComplete, NoNewReply, NoNewRevokeAll, NoNewHandle
<1>4. Types' /\ LaneInv'
  BY <1>1, <1>2, Zenon DEF Inv, Types, LaneInv
<1>5. LockInv'
  BY <1>1, LockKept, Zenon DEF Inv
<1>6. ShutInv'
  <2>1. b.calls => Quiesced
    BY <1>2, Zenon DEF Quiesced
  <2>2. Quiesced' => Quiesced
    BY <1>1, <1>3, <2>1, Zenon DEF Quiesced, NoNewCalls
  <2>3. Draining' => Draining \/ Quiesced
    BY <1>1, <2>1, Zenon DEF Draining
  <2>4. stopper' # "none" => stopper # "none" \/ Quiesced
    BY <1>1, <2>1, Zenon
  <2> QED BY <1>1, <2>2, <2>3, <2>4, Zenon DEF Inv, ShutInv, LockFree
<1>7. EndInv'
  <2>1. Over /\ Over'
    <3>1. Over
      BY <1>1, <1>2, Zenon DEF Inv, EndInv
    <3> QED BY <1>1, <3>1, Zenon DEF Over
  <2> QED BY <1>1, <2>1, Zenon DEF Inv, EndInv
<1>8. TicketInv'
  <2>1. \A q \in Requests :
           (Dispatched(q) => Dispatched(q)') /\ (req'[q].bound # None => req'[q].sending)
    BY <1>1, Zenon DEF Dispatched, Inv, TicketInv
  <2> QED BY <1>0, <1>1, <1>2, <1>3, <2>1, TicketKept, Zenon
            DEF Inv, TicketInv
<1>9. LeaseInv'
  BY <1>0, <1>1, <1>3, LeaseKept, Zenon DEF Inv
<1>10. Owed'
  <2>1. \A q, t \in Requests : AnsweredIn(q, t) => AnsweredIn(q, t)'
    BY <1>1, <1>2, Zenon DEF AnsweredIn
  <2> QED BY <1>0, <1>1, <2>1, OwedKept, Zenon DEF Inv, Types
<1> QED BY <1>4, <1>5, <1>6, <1>7, <1>8, <1>9, <1>10, Zenon DEF Inv

-----------------------------------------------------------------------------
\* What a handler may do as it ends with token t in its answer: a new token is
\* the one in the answer, and a lease its request holds is kept only with its
\* token in the answer.
AnswerStep(t) ==
  /\ UNCHANGED <<req, authQ, stopped, delivered>> /\ UNCHANGED runtimeVars
  /\ tokens' \subseteq Requests /\ lease' \in {lease, NoLease}
  /\ \A u \in tokens' : u \in tokens \/ (u = lane.r /\ t = lane.r)
  /\ lease' # NoLease /\ lane.r = lease.r => t = lease.token

\* A handler that ends so keeps Inv.
LEMMA AnswersKeep ==
  ASSUME Inv, lane.at # "idle", NEW t \in Requests \cup {None}, Answers(t), AnswerStep(t)
  PROVE  Inv'
<1> DEFINE x == Block("reply", lane.kind, lane.r, t)
           y == Block("free", "-", None, None)
<1>0. None \notin Requests
  BY ServerAssumption, Zenon
<1>1. /\ UNCHANGED <<req, authQ, stopped, delivered, stopping, stopper, stream, failed>>
      /\ lane' = Idle /\ tokens' \subseteq Requests /\ lease' \in {lease, NoLease}
  BY Zenon DEF AnswerStep, runtimeVars, Answers
<1>2. /\ lane.kind \in Kinds \cup {"-"} /\ lane.r \in Requests /\ networkQ \in Seq(BlockType)
      /\ lane # Idle
  BY DEF Inv, Types, LaneInv, LaneType, Idle
<1>3. Dispatched(lane.r) /\ ~Waits(lane.r) /\ ~Replied(lane.r)
  BY <1>2, Zenon DEF Inv, TicketInv
<1>4. /\ networkQ' \in Seq(BlockType)
      /\ x.job = "reply" /\ x.r = lane.r /\ x.token = t /\ x.calls = FALSE
      /\ y.job = "free" /\ y.calls = FALSE
      /\ Items(networkQ) \cup {x} \subseteq Items(networkQ')
      /\ Items(networkQ') \subseteq Items(networkQ) \cup {x, y}
      /\ Distinct(networkQ')
  BY <1>2, <1>3, AnswerFacts, Zenon DEF Inv, TicketInv
<1> HIDE DEF x, y
<1>5. NoNewCalls /\ NoNewComplete /\ NoNewRevokeAll /\ NoNewHandle
  BY <1>1, <1>4, Zenon
     DEF NoNewCalls, NoNewComplete, NoNewRevokeAll, NoNewHandle
<1>6. Types' /\ LaneInv'
  <2>1. Idle \in LaneType
    BY Zenon DEF Idle, LaneType
  <2>2. lease' \in LeaseType
    BY <1>1 DEF Inv, Types, LeaseType, NoLease
  <2>3. LaneInv'
    BY <1>1, Zenon DEF LaneInv, Idle
  <2> QED BY <1>1, <1>4, <2>1, <2>2, <2>3, Zenon DEF Inv, Types
<1>7. LockFree'
  BY <1>1, Zenon DEF LockFree, Idle
<1>8. LockInv'
  BY <1>1, <1>7, LockKept, Zenon DEF Inv
<1>9. ShutInv'
  BY <1>1, <1>5, <1>7, ShutKept, Zenon DEF Inv
<1>10. EndInv'
  <2>1. Over => Over'
    BY <1>2, Zenon DEF Over
  <2> QED BY <1>1, <1>5, <2>1, EndKept, Zenon DEF Inv, EndInv
<1>11. TicketInv'
  <2> SUFFICES ASSUME NEW q \in Requests
               PROVE  /\ req'[q].bound # None => req'[q].sending
                      /\ Waits(q)' => Dispatched(q)' /\ lane'.r # q /\ ~Replied(q)'
                      /\ lane'.r = q => Dispatched(q)' /\ ~Replied(q)'
                      /\ Replied(q)' => Dispatched(q)'
    BY <1>1, <1>4, Zenon DEF Inv, TicketInv
  <2>1. (Waits(q)' <=> Waits(q)) /\ (Dispatched(q)' <=> Dispatched(q)) /\ lane'.r # q
    BY <1>0, <1>1, Zenon DEF Waits, Dispatched, Idle
  <2>2. Replied(q)' => Replied(q) \/ q = lane.r
    BY <1>4, Zenon DEF Replied
  <2> QED BY <1>1, <1>3, <2>1, <2>2, Zenon DEF Inv, TicketInv
<1>12. LeaseInv'
  BY <1>0, <1>1, <1>5, LeaseKept, Zenon DEF Inv, Idle
<1>13. Owed'
  <2>1. \A q, u \in Requests : AnsweredIn(q, u) => AnsweredIn(q, u)'
    BY <1>1, <1>4, Zenon DEF AnsweredIn
  <2>2. ASSUME NEW u \in tokens' PROVE AnsweredIn(u, u)'
    <3>1. CASE u \in tokens
      <4>1. u \in Requests /\ AnsweredIn(u, u)
        BY <3>1, Zenon DEF Inv, Owed, Types
      <4> QED BY <2>1, <4>1, Zenon
    <3>2. CASE u = lane.r /\ t = lane.r
      BY <1>4, <3>2, Zenon DEF AnsweredIn
    <3> QED BY <3>1, <3>2, Zenon DEF AnswerStep
  <2>3. ASSUME lease' # NoLease PROVE AnsweredIn(lease.r, lease.token)'
    <3>0. lease' = lease /\ lease.r \in Requests /\ lease.token \in Requests
      BY <1>1, <2>3, Zenon DEF Inv, LeaseInv
    <3>1. CASE lane.r = lease.r
      <4>1. x.r = lease'.r /\ x.token = lease'.token
        BY <1>4, <2>3, <3>0, <3>1, Zenon DEF AnswerStep
      <4> QED BY <1>4, <4>1, Zenon DEF AnsweredIn
    <3>2. CASE lane.r # lease.r
      <4>1. AnsweredIn(lease.r, lease.token)
        BY <2>3, <3>0, <3>2, Zenon DEF Inv, Owed
      <4> QED BY <1>1, <1>4, <3>0, <4>1, Zenon DEF AnsweredIn
    <3> QED BY <3>1, <3>2, Zenon
  <2> QED BY <2>2, <2>3, Zenon DEF Owed
<1> QED BY <1>6, <1>8, <1>9, <1>10, <1>11, <1>12, <1>13, Zenon DEF Inv

\* A login, an unauthorized request and the end of every other handler keep Inv.
LEMMA HandlerKeeps ==
  ASSUME Inv, Login \/ Unauthorized \/ End, UNCHANGED runtimeVars
  PROVE  Inv'
<1>0. /\ lane.at # "idle" => lane.r \in Requests
      /\ lane \in LaneType /\ lease \in LeaseType /\ tokens \subseteq Requests
  BY Zenon DEF Inv, LaneInv, Types
<1>1. CASE Login
  <2>1. lane.at = "run" /\ lane.r \in Requests /\ lane.kind = "login"
        /\ UNCHANGED <<req, authQ, stopped, lease, delivered>>
    BY <1>0, <1>1, Zenon DEF Login, Running
  <2>2. lease # NoLease => lane.r # lease.r
    BY <2>1, Zenon DEF Inv, LeaseInv
  <2>3. CASE Answers(None) /\ UNCHANGED tokens
    <3>1. AnswerStep(None)
      BY <1>0, <2>1, <2>2, <2>3, Zenon DEF AnswerStep
    <3> QED BY <2>1, <2>3, <3>1, AnswersKeep, Zenon
  <2>4. CASE /\ \E kept \in SUBSET tokens : tokens' = kept \cup {lane.r}
             /\ Answers(lane.r)
    <3>1. tokens' \subseteq Requests /\ \A u \in tokens' : u \in tokens \/ u = lane.r
      BY <1>0, <2>1, <2>4, Zenon
    <3>2. AnswerStep(lane.r)
      BY <2>1, <2>2, <3>1, Zenon DEF AnswerStep
    <3> QED BY <2>1, <2>4, <3>2, AnswersKeep, Zenon
  <2> QED BY <1>1, <2>3, <2>4, Zenon DEF Login
<1>2. CASE Unauthorized
  <2>1. lane.at = "run" /\ Answers(None)
        /\ UNCHANGED <<req, authQ, stopped, tokens, lease, delivered>>
    BY <1>2, Zenon DEF Unauthorized
  <2>2. lease # NoLease => lane.r # lease.r
    BY <2>1, Zenon DEF Inv, LeaseInv
  <2>3. AnswerStep(None)
    BY <1>0, <2>1, <2>2, Zenon DEF AnswerStep
  <2> QED BY <2>1, <2>3, AnswersKeep, Zenon
<1>3. CASE End
  <2> DEFINE status == IF lane.kind # "launch" /\ ~Authorized THEN "refused" ELSE lane.status
             t == Bound(status)
  <2>1. /\ lane.at = "end" /\ UNCHANGED <<req, authQ, stopped, delivered>>
        /\ Keeps(status) => UNCHANGED <<tokens, lease>>
        /\ ~Keeps(status) => Revoke(lane.token)
        /\ Answers(t)
    BY <1>3, Zenon DEF End
  <2>2. t \in Requests \cup {None}
    BY <1>0, Zenon DEF Bound, LaneType
  <2>3. tokens' \subseteq tokens /\ lease' \in {lease, NoLease}
    BY <2>1, Zenon DEF Revoke
  <2>4. ASSUME lease' # NoLease, lane.r = lease.r PROVE t = lease.token
    <3>1. lease # NoLease /\ lease' = lease
      BY <2>3, <2>4, Zenon
    <3>2. lane.kind = "launch" /\ lane.token = lease.token
      BY <2>4, <3>1, Zenon DEF Inv, LeaseInv
    <3>3. Keeps(status)
      BY <2>1, <2>4, <3>1, <3>2, Zenon DEF Revoke
    <3>4. status = lane.status /\ lane.status \in {"ok", "refused"}
      BY <2>1, <3>2, Zenon DEF Inv, LaneInv
    <3>5. status = "ok"
      BY <3>3, <3>4, Zenon DEF Keeps
    <3> QED BY <3>2, <3>5, Zenon DEF Bound
  <2> HIDE DEF t
  <2>5. AnswerStep(t)
    BY <1>0, <2>1, <2>3, <2>4, Zenon DEF AnswerStep
  <2> QED BY <2>1, <2>2, <2>5, AnswersKeep, Zenon
<1> QED BY <1>1, <1>2, <1>3, Zenon

\* The revocation of a token keeps Inv: the token it answered for is gone with
\* it.
LEMMA AuthRevokeKeeps ==
  ASSUME Inv, AuthRevoke, UNCHANGED runtimeVars
  PROVE  Inv'
<1> DEFINE b == Head(authQ)
<1>0. None \notin Requests
  BY ServerAssumption, Zenon
<1>1. /\ UNCHANGED <<req, networkQ, lane, stopped, delivered>> /\ lane = Idle
      /\ UNCHANGED <<stopping, stopper, stream, failed>>
      /\ authQ' = Tail(authQ) /\ authQ # <<>> /\ b.job = "revoke"
      /\ tokens' = tokens \ {b.token}
      /\ lease' = IF lease.token = b.token THEN NoLease ELSE lease
  BY Zenon DEF AuthRevoke, Revoke, Job, runtimeVars
<1>2. /\ authQ' \in Seq(BlockType)
      /\ Items(authQ) = Items(authQ') \cup {b} /\ Distinct(authQ') /\ InOrder(authQ')
  BY <1>1, TailFacts, Zenon DEF Inv, TicketInv, EndInv, Types
<1> HIDE DEF b
<1>3. NoNewCalls /\ NoNewComplete /\ NoNewReply /\ NoNewRevokeAll /\ NoNewHandle
  BY <1>1, <1>2, Zenon
     DEF NoNewCalls, NoNewComplete, NoNewReply, NoNewRevokeAll, NoNewHandle
<1>4. Types' /\ LaneInv'
  <2>1. lease' \in LeaseType
    BY <1>1, Zenon DEF Inv, Types, LeaseType, NoLease
  <2> QED BY <1>1, <1>2, <2>1, Zenon DEF Inv, Types, LaneInv
<1>5. LockInv'
  BY <1>1, LockKept, Zenon DEF Inv
<1>6. ShutInv'
  BY <1>1, <1>3, ShutKept, Zenon DEF Inv, LockFree
<1>7. EndInv'
  <2>1. Over => Over'
    BY <1>1, <1>3, Zenon DEF Over, NoNewHandle
  <2> QED BY <1>1, <1>2, <1>3, <2>1, EndKept, Zenon DEF Inv, EndInv
<1>8. TicketInv'
  <2>1. \A q \in Requests :
           (Dispatched(q) => Dispatched(q)') /\ (req'[q].bound # None => req'[q].sending)
    BY <1>1, Zenon DEF Dispatched, Inv, TicketInv
  <2> QED BY <1>0, <1>1, <1>2, <1>3, <2>1, TicketKept, Zenon
            DEF Inv, TicketInv
<1>9. LeaseInv'
  BY <1>0, <1>1, <1>3, LeaseKept, Zenon DEF Inv
<1>10. Owed'
  <2>1. ASSUME NEW q, NEW t, t # b.token, AnsweredIn(q, t)
        PROVE  \/ q \in delivered'
               \/ req'[q].bound = t
               \/ \E y \in Items(networkQ') : y.job = "reply" /\ y.r = q /\ y.token = t
               \/ \E y \in Items(authQ') : y.job = "revoke" /\ y.token = t
    BY <1>1, <1>2, <2>1, Zenon DEF AnsweredIn
  <2>2. ASSUME NEW t \in tokens' PROVE AnsweredIn(t, t)'
    <3>1. t # b.token /\ AnsweredIn(t, t)
      BY <1>1, Zenon DEF Inv, Owed
    <3> QED BY <2>1, <3>1, Zenon DEF AnsweredIn
  <2>3. ASSUME lease' # NoLease PROVE AnsweredIn(lease.r, lease.token)'
    <3>1. lease' = lease /\ lease.token # b.token /\ lease.r \in Requests
      BY <1>1, <2>3, Zenon DEF Inv, LeaseInv
    <3>2. AnsweredIn(lease.r, lease.token)
      BY <1>0, <1>1, <2>3, <3>1, Zenon DEF Inv, Owed, Idle
    <3> QED BY <2>1, <3>1, <3>2, ZenonT(60) DEF AnsweredIn
  <2> QED BY <2>2, <2>3, Zenon DEF Owed
<1> QED BY <1>4, <1>5, <1>6, <1>7, <1>8, <1>9, <1>10, Zenon DEF Inv

\* The second block of stopWithCompletion keeps Inv: behind it there is no
\* handler, so the server is over.
LEMMA AuthRevokeAllKeeps ==
  ASSUME Inv, AuthRevokeAll, UNCHANGED runtimeVars
  PROVE  Inv'
<1> DEFINE b == Head(authQ)
           x == [b EXCEPT !.job = "complete"]
<1>0. None \notin Requests
  BY ServerAssumption, Zenon
<1>1. /\ UNCHANGED <<req, lane, stopped, delivered>> /\ lane = Idle
      /\ UNCHANGED <<stopping, stopper, stream, failed>>
      /\ authQ' = Tail(authQ) /\ authQ # <<>> /\ b.job = "revokeAll"
      /\ tokens' = {} /\ lease' = NoLease /\ networkQ' = Append(networkQ, x)
  BY Zenon DEF AuthRevokeAll, Job, runtimeVars
<1>2. /\ authQ' \in Seq(BlockType) /\ b \in BlockType
      /\ Items(authQ) = Items(authQ') \cup {b} /\ Distinct(authQ') /\ InOrder(authQ')
      /\ \A y \in Items(authQ') : y.job # "handle"
  BY <1>1, TailFacts, Zenon DEF Inv, TicketInv, EndInv, Types
<1> HIDE DEF b
<1>3. x \in BlockType /\ x.job = "complete" /\ x.calls = b.calls
  BY <1>2, RenamedBlock, Zenon
<1> HIDE DEF x
<1>4. networkQ' \in Seq(BlockType) /\ Items(networkQ') = Items(networkQ) \cup {x}
      /\ Distinct(networkQ')
  BY <1>1, <1>3, AppendFacts, Zenon DEF Inv, Types, TicketInv
<1>5. NoNewCalls /\ NoNewReply /\ NoNewRevokeAll /\ NoNewHandle
  BY <1>2, <1>3, <1>4, Zenon
     DEF NoNewCalls, NoNewReply, NoNewRevokeAll, NoNewHandle
<1>6. Types' /\ LaneInv'
  <2>1. lease' \in LeaseType
    BY <1>1, Zenon DEF LeaseType, NoLease
  <2> QED BY <1>1, <1>2, <1>4, <2>1, Zenon DEF Inv, Types, LaneInv
<1>7. LockInv'
  BY <1>1, LockKept, Zenon DEF Inv
<1>8. ShutInv'
  BY <1>1, <1>5, ShutKept, Zenon DEF Inv, LockFree
<1>9. EndInv'
  <2>1. stopped
    BY <1>1, <1>2, Zenon DEF Inv, EndInv
  <2>2. Over'
    BY <1>1, <1>2, <2>1, Zenon DEF Over
  <2> QED BY <1>1, <1>2, <2>1, <2>2, Zenon DEF Inv, EndInv
<1>10. TicketInv'
  <2>1. \A q \in Requests :
           (Dispatched(q) => Dispatched(q)') /\ (req'[q].bound # None => req'[q].sending)
    BY <1>1, Zenon DEF Dispatched, Inv, TicketInv
  <2> QED BY <1>0, <1>1, <1>2, <1>4, <1>5, <2>1, TicketKept, Zenon
            DEF Inv, TicketInv
<1>11. LeaseInv' /\ Owed'
  BY <1>1, Zenon DEF LeaseInv, Owed
<1> QED BY <1>6, <1>7, <1>8, <1>9, <1>10, <1>11, Zenon DEF Inv

\* prune keeps Inv.
LEMMA LapseKeeps ==
  ASSUME Inv, Lapse, UNCHANGED runtimeVars
  PROVE  Inv'
<1>0. None \notin Requests
  BY ServerAssumption, Zenon
<1>1. /\ UNCHANGED <<req, networkQ, authQ, lane, stopped, delivered>>
      /\ UNCHANGED <<stopping, stopper, stream, failed>>
      /\ tokens' \subseteq tokens /\ lease' \in {lease, NoLease}
  BY Zenon DEF Lapse, runtimeVars
<1>2. NoNewCalls /\ NoNewComplete /\ NoNewReply /\ NoNewRevokeAll /\ NoNewHandle
  BY <1>1, Zenon DEF NoNewCalls, NoNewComplete, NoNewReply, NoNewRevokeAll, NoNewHandle
<1>3. Types' /\ LaneInv'
  <2>1. lease' \in LeaseType
    BY <1>1 DEF Inv, Types, LeaseType, NoLease
  <2> QED BY <1>1, <2>1, ZenonT(60) DEF Inv, Types, LaneInv
<1>4. LockInv'
  BY <1>1, LockKept, Zenon DEF Inv
<1>5. ShutInv'
  BY <1>1, <1>2, ShutKept, Zenon DEF Inv, LockFree
<1>6. EndInv'
  <2>1. Over => Over'
    BY <1>1, Zenon DEF Over
  <2> QED BY <1>1, <1>2, <2>1, EndKept, Zenon DEF Inv, EndInv
<1>7. TicketInv'
  <2>1. \A q \in Requests :
           (Dispatched(q) => Dispatched(q)') /\ (req'[q].bound # None => req'[q].sending)
    BY <1>1, Zenon DEF Dispatched, Inv, TicketInv
  <2> QED BY <1>0, <1>1, <1>2, <2>1, TicketKept, Zenon DEF Inv, TicketInv
<1>8. LeaseInv'
  BY <1>0, <1>1, <1>2, LeaseKept, Zenon DEF Inv
<1>9. Owed'
  <2>1. \A q, t \in Requests : AnsweredIn(q, t) => AnsweredIn(q, t)'
    BY <1>1, Zenon DEF AnsweredIn
  <2> QED BY <1>0, <1>1, <2>1, OwedKept, Zenon DEF Inv, Types
<1> QED BY <1>3, <1>4, <1>5, <1>6, <1>7, <1>8, <1>9, Zenon DEF Inv

\* handlePath's beginning keeps Inv: the request leaves the queue for the lane,
\* and no lease is its own yet.
LEMMA BeginKeeps ==
  ASSUME Inv, Begin, UNCHANGED runtimeVars
  PROVE  Inv'
<1> DEFINE b == Head(authQ)
           x == Block("free", "-", None, None)
<1>0. None \notin Requests
  BY ServerAssumption, Zenon
<1>1. /\ UNCHANGED <<req, stopped, tokens, lease, delivered>> /\ lane = Idle
      /\ UNCHANGED <<stopping, stopper, stream, failed>>
      /\ authQ' = Tail(authQ) /\ authQ # <<>> /\ b.job = "handle"
      /\ \/ networkQ' = Append(networkQ, x) /\ lane' = lane
         \/ /\ lane' = [at |-> "run", kind |-> b.kind, r |-> b.r, token |-> b.token, status |-> "-"]
            /\ networkQ' = networkQ
  BY Zenon DEF Begin, Job, runtimeVars, ReleaseLane
<1>2. authQ \in Seq(BlockType) /\ networkQ \in Seq(BlockType)
  BY Zenon DEF Inv, Types
<1>3. /\ authQ' \in Seq(BlockType) /\ b \in BlockType
      /\ Items(authQ) = Items(authQ') \cup {b} /\ Distinct(authQ') /\ InOrder(authQ')
      /\ \A y \in Items(authQ') : y.job # "handle" \/ y.r # b.r
  BY <1>1, <1>2, TailFacts, Zenon DEF Inv, TicketInv, EndInv
<1>4. b.kind \in Kinds \cup {"-"} /\ b.token \in Requests \cup {None} /\ b.r \in Requests
  BY <1>1, <1>3, BlockFields, Zenon
<1>5. x \in BlockType /\ x.job = "free" /\ x.calls = FALSE
  BY Zenon DEF Block, BlockType, Jobs
<1> HIDE DEF b, x
<1>6. /\ networkQ' \in Seq(BlockType) /\ Distinct(networkQ')
      /\ Items(networkQ) \subseteq Items(networkQ') /\ Items(networkQ') \subseteq Items(networkQ) \cup {x}
  <2>1. CASE networkQ' = Append(networkQ, x)
    BY <1>2, <1>5, <2>1, AppendFacts, Zenon DEF Inv, TicketInv
  <2>2. CASE networkQ' = networkQ
    BY <1>2, <2>2, Zenon DEF Inv, TicketInv
  <2> QED BY <1>1, <2>1, <2>2, Zenon
<1>7. NoNewCalls /\ NoNewComplete /\ NoNewReply /\ NoNewRevokeAll /\ NoNewHandle
  BY <1>3, <1>5, <1>6, Zenon
     DEF NoNewCalls, NoNewComplete, NoNewReply, NoNewRevokeAll, NoNewHandle
<1>8. Waits(b.r) /\ Dispatched(b.r) /\ ~Replied(b.r)
  <2>1. Waits(b.r)
    BY <1>1, <1>3, Zenon DEF Waits
  <2> QED BY <1>4, <2>1, Zenon DEF Inv, TicketInv
<1>9. \/ lane' = Idle
      \/ /\ lane' \in LaneType /\ lane'.at = "run" /\ lane'.r = b.r
  BY <1>1, <1>4 DEF LaneType
<1>10. Types' /\ LaneInv'
  <2>1. LaneInv'
    BY <1>4, <1>9 DEF LaneInv, Idle
  <2>2. Idle \in LaneType
    BY Zenon DEF Idle, LaneType
  <2> QED BY <1>1, <1>3, <1>6, <1>9, <2>1, <2>2, Zenon DEF Inv, Types
<1>11. LockFree'
  BY <1>9 DEF LockFree, Idle
<1>12. LockInv'
  BY <1>1, <1>11, LockKept, Zenon DEF Inv
<1>13. ShutInv'
  BY <1>1, <1>7, <1>11, ShutKept, Zenon DEF Inv
<1>14. EndInv'
  <2>1. ~Over
    BY <1>1, <1>3, Zenon DEF Over
  <2> QED BY <1>1, <1>3, <1>7, <2>1, EndKept, Zenon DEF Inv, EndInv
<1>15. TicketInv'
  <2> SUFFICES ASSUME NEW q \in Requests
               PROVE  /\ req'[q].bound # None => req'[q].sending
                      /\ Waits(q)' => Dispatched(q)' /\ lane'.r # q /\ ~Replied(q)'
                      /\ lane'.r = q => Dispatched(q)' /\ ~Replied(q)'
                      /\ Replied(q)' => Dispatched(q)'
    BY <1>3, <1>6, Zenon DEF TicketInv
  <2>1. /\ Waits(q)' => Waits(q) /\ q # b.r
        /\ Replied(q)' => Replied(q)
    BY <1>3, <1>7, Zenon DEF Waits, Replied, NoNewReply, NoNewHandle
  <2>2. Dispatched(q)' <=> Dispatched(q)
    BY <1>1, Zenon DEF Dispatched
  <2>3. lane'.r = q => q = b.r
    BY <1>0, <1>9 DEF Idle
  <2> QED BY <1>1, <1>8, <2>1, <2>2, <2>3, Zenon DEF Inv, TicketInv
<1>16. LeaseInv'
  <2> SUFFICES ASSUME lease # NoLease PROVE LeaseInv'
    BY <1>1, Zenon DEF LeaseInv
  <2>1. lease.r \in Requests /\ ~Waits(lease.r) /\ lease.r # b.r
    BY <1>8, Zenon DEF Inv, LeaseInv
  <2>2. ~Waits(lease.r)'
    BY <1>1, <1>3, <2>1, Zenon DEF Waits
  <2>3. lane'.r # lease.r
    BY <1>0, <1>9, <2>1 DEF Idle
  <2>4. /\ lease' = lease /\ lease.token \in Requests
        /\ req'[lease.r].conn \notin {"absent", "reading"}
    BY <1>1, Zenon DEF Inv, LeaseInv
  <2> QED BY <2>1, <2>2, <2>3, <2>4, Zenon DEF LeaseInv
<1>17. Owed'
  <2>1. \A q, t \in Requests : AnsweredIn(q, t) => AnsweredIn(q, t)'
    BY <1>1, <1>3, <1>6, Zenon DEF AnsweredIn
  <2> QED BY <1>0, <1>1, <2>1, OwedKept, Zenon DEF Inv, Types
<1> QED BY <1>10, <1>12, <1>13, <1>14, <1>15, <1>16, <1>17, Zenon DEF Inv

\* What a block on the stream's queue does.
StreamJobs == {"start", "stop", "shutdown"}

\* What dispatching to the stream's queue, and running its first block, does.
LEMMA JobsFacts ==
  ASSUME NEW q \in Seq(StreamJobs), NEW x \in StreamJobs
  PROVE  /\ Append(q, x) \in Seq(StreamJobs) /\ Items(Append(q, x)) = Items(q) \cup {x}
         /\ Append(q, x) # <<>>
         /\ q # <<>> => /\ Tail(q) \in Seq(StreamJobs) /\ Head(q) \in StreamJobs
                        /\ Items(Tail(q)) \subseteq Items(q) /\ Head(q) \in Items(q)
<1> DEFINE p == Append(q, x)
           u == Tail(q)
<1>1. p \in Seq(StreamJobs) /\ DOMAIN p = 1 .. Len(q) + 1 /\ Len(q) \in Nat /\ p # <<>>
      /\ DOMAIN q = 1 .. Len(q)
  OBVIOUS
<1>2. (\A i \in 1 .. Len(q) : p[i] = q[i]) /\ p[Len(q) + 1] = x
  OBVIOUS
<1>3. ASSUME q # <<>>
      PROVE  u \in Seq(StreamJobs) /\ Head(q) \in StreamJobs /\ Items(u) \subseteq Items(q)
             /\ Head(q) \in Items(q)
  <2>1. u \in Seq(StreamJobs) /\ Head(q) \in StreamJobs /\ DOMAIN u = 1 .. Len(q) - 1
        /\ Len(q) >= 1 /\ Head(q) = q[1]
    BY <1>3
  <2>2. \A i \in 1 .. Len(q) - 1 : u[i] = q[i + 1] /\ i + 1 \in 1 .. Len(q)
    BY <1>3
  <2> HIDE DEF u
  <2>3. Items(u) \subseteq Items(q)
    BY <1>1, <2>1, <2>2, SMTT(60) DEF Items
  <2>4. Head(q) \in Items(q)
    BY <1>1, <2>1 DEF Items
  <2> QED BY <2>1, <2>3, <2>4, Zenon
<1> HIDE DEF p
<1>4. Items(p) \subseteq Items(q) \cup {x}
  BY <1>1, <1>2 DEF Items
<1>5. Items(q) \cup {x} \subseteq Items(p)
  BY <1>1, <1>2 DEF Items
<1> QED BY <1>1, <1>3, <1>4, <1>5, Zenon DEF p

\* Queues that do not change have nothing new.
LEMMA SameQueues ==
  ASSUME UNCHANGED <<networkQ, authQ>>
  PROVE  NoNewCalls /\ NoNewComplete /\ NoNewReply /\ NoNewRevokeAll /\ NoNewHandle
BY Zenon DEF NoNewCalls, NoNewComplete, NoNewReply, NoNewRevokeAll, NoNewHandle

\* What a handler may do before its end: it keeps its request and token, takes
\* at most a lease for them, and a launch can only end accepted or refused.
LaneStep ==
  /\ UNCHANGED <<req, networkQ, authQ, stopped, delivered, stopping, stopper>>
  /\ tokens' \subseteq tokens /\ stream' \in Stream
  /\ lane.at \in {"run", "held", "launched"} /\ lane' \in LaneType
  /\ lane'.at # "idle" /\ lane'.r = lane.r /\ lane'.kind = lane.kind /\ lane'.token = lane.token
  /\ lane'.at = "launched" => lane.kind = "launch"
  /\ lane'.at = "end" /\ lane.kind = "launch" => lane'.status \in {"ok", "refused"}
  /\ lane'.at = "run" => lane.at = "run"
  /\ lane.at = "launched" => lane'.at = "end"
  /\ \/ lease' = lease
     \/ /\ lane'.at = "launched" /\ lane.token \in Requests
        /\ lease' = [r |-> lane.r, token |-> lane.token]

\* Such a step keeps Inv if it keeps the parts on the lock and the shutdown.
LEMMA LaneMoves ==
  ASSUME Inv, LaneStep, LockInv', ShutInv'
  PROVE  Inv'
<1>0. None \notin Requests
  BY ServerAssumption, Zenon
<1>1. /\ UNCHANGED <<req, networkQ, authQ, stopped, delivered, stopping, stopper>>
      /\ tokens' \subseteq tokens /\ lane'.r = lane.r
  BY Zenon DEF LaneStep
<1>2. lane.r \in Requests /\ lane # Idle
  <2>1. lane.at # "idle" /\ Idle.at = "idle"
    BY Zenon DEF LaneStep, Idle
  <2>2. lane # Idle
    BY <2>1, Zenon
  <2> QED BY <2>1, <2>2, Zenon DEF Inv, LaneInv
<1>3. NoNewCalls /\ NoNewComplete /\ NoNewReply /\ NoNewRevokeAll /\ NoNewHandle
  BY <1>1, SameQueues, Zenon
<1>4. LaneInv'
  BY <1>2, Zenon DEF LaneInv, LaneStep
<1>5. Types'
  <2>1. lease' \in LeaseType
    BY <1>2 DEF Inv, Types, LeaseType, LaneStep
  <2>2. lane' \in LaneType /\ stream' \in Stream
    BY Zenon DEF LaneStep
  <2> QED BY <1>1, <2>1, <2>2, Zenon DEF Inv, Types
<1>6. EndInv'
  <2>1. ~Over
    BY <1>2, Zenon DEF Over
  <2> QED BY <1>1, <1>3, <2>1, EndKept, Zenon DEF Inv, EndInv
<1>7. TicketInv'
  <2>1. req' = req
    BY <1>1, Zenon
  <2>2. \A q \in Requests : Dispatched(q) => Dispatched(q)'
    BY <2>1, Zenon DEF Dispatched
  <2>3. \A q \in Requests : req'[q].bound # None => req'[q].sending
    BY <2>1, Zenon DEF Inv, TicketInv
  <2> QED BY <1>0, <1>1, <1>3, <2>2, <2>3, TicketKept, Zenon DEF Inv, TicketInv
<1>8. /\ ~Waits(lane.r) /\ req[lane.r].conn \notin {"absent", "reading"}
  BY <1>2, Zenon DEF Inv, TicketInv, Dispatched
<1>9. \A q \in Requests : Waits(q)' <=> Waits(q)
  BY <1>1, Zenon DEF Waits
<1>10. \A q, t \in Requests : AnsweredIn(q, t) => AnsweredIn(q, t)'
  BY <1>1, Zenon DEF AnsweredIn
<1>11. CASE lease' = lease
  <2>1. LeaseInv'
    <3> SUFFICES ASSUME lease # NoLease PROVE LeaseInv'
      BY <1>11, Zenon DEF LeaseInv
    <3>1. /\ lease.r \in Requests /\ ~Waits(lease.r) /\ lease.token \in Requests
          /\ req[lease.r].conn \notin {"absent", "reading"}
          /\ lane.r = lease.r =>
               lane.kind = "launch" /\ lane.at \in {"launched", "end"} /\ lane.token = lease.token
      BY Zenon DEF Inv, LeaseInv
    <3>2. lane'.r = lease.r =>
            lane'.kind = "launch" /\ lane'.at = "end" /\ lane'.token = lease.token
      BY <3>1, Zenon DEF LaneStep
    <3>3. ~Waits(lease.r)'
      BY <1>1, <1>11, <3>1, Zenon DEF Waits
    <3> QED BY <1>1, <1>11, <3>1, <3>2, <3>3, Zenon DEF LeaseInv
  <2>2. Owed'
    BY <1>0, <1>1, <1>10, <1>11, OwedKept, ZenonT(60) DEF Inv, Types
  <2> QED BY <1>4, <1>5, <1>6, <1>7, <2>1, <2>2, Zenon DEF Inv
<1>12. CASE lease' # lease
  <2>1. /\ lane'.at = "launched" /\ lane'.kind = "launch" /\ lane'.token = lane.token
        /\ lane.token \in Requests /\ lease'.r = lane.r /\ lease'.token = lane.token
    BY <1>12 DEF LaneStep
  <2>2. LeaseInv'
    <3>1. ~Waits(lease.r)'
      BY <1>1, <1>8, <2>1, Zenon DEF Waits
    <3> QED BY <1>1, <1>2, <1>8, <2>1, <3>1, Zenon DEF LeaseInv
  <2>3. Owed'
    <3>1. ASSUME NEW t \in tokens' PROVE AnsweredIn(t, t)'
      <4>1. t \in Requests /\ AnsweredIn(t, t)
        BY <1>1, Zenon DEF Inv, Types, Owed
      <4> QED BY <1>10, <4>1, Zenon
    <3> QED BY <1>1, <2>1, <3>1, Zenon DEF Owed
  <2> QED BY <1>4, <1>5, <1>6, <1>7, <2>2, <2>3, Zenon DEF Inv
<1> QED BY <1>11, <1>12, Zenon

\* A step of the stream or of the shutdown keeps Inv if it keeps the parts on
\* the lock and the shutdown, ends at most the lease and dispatches at most a
\* stop.
LEMMA RestKept ==
  ASSUME Inv, UNCHANGED <<req, authQ, lane, stopped, tokens, delivered>>,
         stream' \in Stream, stopping' \in BOOLEAN,
         stopper' \in {"none", "asked", "draining", "server", "done"},
         stopper' = "done" => stopper = "done", lease' \in {lease, NoLease},
         NEW calls \in BOOLEAN, networkQ' \in {networkQ, Append(networkQ, StopBlock(calls))},
         LockInv', ShutInv'
  PROVE  Inv'
<1>0. None \notin Requests
  BY ServerAssumption, Zenon
<1>1. StopBlock(calls) \in BlockType /\ StopBlock(calls).job = "stop"
  BY StopBlockTyped, Zenon
<1>2. /\ networkQ' \in Seq(BlockType) /\ Distinct(networkQ')
      /\ Items(networkQ) \subseteq Items(networkQ')
      /\ Items(networkQ') \subseteq Items(networkQ) \cup {StopBlock(calls)}
  <2>1. CASE networkQ' = Append(networkQ, StopBlock(calls))
    BY <1>1, <2>1, AppendFacts, Zenon DEF Inv, TicketInv, Types
  <2>2. CASE networkQ' = networkQ
    BY <2>2, Zenon DEF Inv, TicketInv, Types
  <2> QED BY <2>1, <2>2, Zenon
<1>3. NoNewComplete /\ NoNewReply /\ NoNewRevokeAll /\ NoNewHandle
  BY <1>1, <1>2, Zenon
     DEF NoNewComplete, NoNewReply, NoNewRevokeAll, NoNewHandle
<1>4. Types' /\ LaneInv'
  <2>1. lease' \in LeaseType
    BY DEF Inv, Types, LeaseType, NoLease
  <2> QED BY <1>2, <2>1, Zenon DEF Inv, Types, LaneInv
<1>5. EndInv'
  <2>1. Over => Over'
    BY Zenon DEF Over
  <2> QED BY <1>3, <2>1, EndKept, Zenon DEF Inv, EndInv
<1>6. TicketInv'
  <2>1. \A q \in Requests :
           (Dispatched(q) => Dispatched(q)') /\ (req'[q].bound # None => req'[q].sending)
    BY Zenon DEF Dispatched, Inv, TicketInv
  <2> QED BY <1>0, <1>2, <1>3, <2>1, TicketKept, Zenon DEF Inv, TicketInv
<1>7. LeaseInv'
  BY <1>0, <1>3, LeaseKept, Zenon DEF Inv
<1>8. Owed'
  <2>1. \A q, t \in Requests : AnsweredIn(q, t) => AnsweredIn(q, t)'
    BY <1>2, Zenon DEF AnsweredIn
  <2> QED BY <1>0, <2>1, OwedKept, Zenon DEF Inv, Types
<1> QED BY <1>4, <1>5, <1>6, <1>7, <1>8, Zenon DEF Inv

\* No stream, and one just constructed, piece by piece.
LEMMA PreparedFacts ==
  ASSUME NEW r \in Requests \cup {None}
  PROVE  /\ NoStream \in Stream /\ Prepared(r) \in Stream
         /\ NoStream.jobs = <<>> /\ NoStream.waiting = FALSE
         /\ Prepared(r).jobs = <<>> /\ Prepared(r).waiting = FALSE
         /\ Prepared(r).by = r /\ Prepared(r).state = "Prepared"
<1>1. <<>> \in Seq(StreamJobs)
  OBVIOUS
<1>2. /\ NoStream.jobs = <<>> /\ NoStream.waiting = FALSE /\ NoStream.by = None
      /\ NoStream.state = "none"
  BY Zenon DEF NoStream
<1>3. NoStream \in Stream
  BY <1>1, Zenon DEF NoStream, Stream, StreamJobs
<1>4. /\ Prepared(r).jobs = NoStream.jobs /\ Prepared(r).waiting = NoStream.waiting
      /\ Prepared(r).by = r /\ Prepared(r).state = "Prepared"
  BY <1>3, Zenon DEF Prepared, Stream
<1>5. Prepared(r) \in Stream
  BY <1>3, Zenon DEF Prepared, Stream
<1> QED BY <1>2, <1>3, <1>4, <1>5, Zenon

\* Display work and the beginning of a launch keep Inv: the lock is taken only
\* next to no living stream and outside the shutdown.
LEMMA WorkKeeps ==
  ASSUME Inv, WorkBegins \/ WorkEnds \/ LaunchBegins
  PROVE  Inv'
<1>0. lane \in LaneType /\ stopping \in BOOLEAN /\ stream \in Stream
  BY Zenon DEF Inv, Types
<1>1. UNCHANGED <<req, networkQ, authQ, authBusy, stopped, tokens, lease, delivered,
                  stopping, stopper, stream, failed>>
  BY Zenon DEF WorkBegins, WorkEnds, LaunchBegins
<1>2. /\ lane.at \in {"run", "held"}
      /\ \/ /\ lane' = [lane EXCEPT !.at = "held"]
            /\ ~stopping /\ stream.state \in Gone
         \/ \E st \in {"ok", "pending", "refused"} :
              /\ lane' = [lane EXCEPT !.at = "end", !.status = st]
              /\ lane.kind = "launch" => st = "refused"
  BY Zenon DEF WorkBegins, WorkEnds, LaunchBegins, MayLaunch, Running, ToEnd, Launches
<1>3. /\ lane' \in LaneType /\ lane'.r = lane.r /\ lane'.kind = lane.kind
      /\ lane'.token = lane.token /\ lane'.at \in {"held", "end"}
      /\ lane'.at = "end" /\ lane.kind = "launch" => lane'.status = "refused"
      /\ lane'.at = "held" => ~stopping /\ stream.state \in Gone
  BY <1>0, <1>2, ZenonT(60) DEF LaneType
<1>4. LockInv'
  <2>1. LeaseHasStream'
    BY <1>1, Zenon DEF Inv, LockInv, LeaseHasStream
  <2> QED BY <1>1, <1>3, <2>1, Zenon DEF Inv, LockInv, Launches
<1>5. ShutInv'
  <2>1. NoNewCalls
    BY <1>1, SameQueues, Zenon
  <2>2. (LockFree => LockFree') \/ ~stopping
    BY <1>3, Zenon DEF LockFree
  <2> QED BY <1>1, <2>1, <2>2, ShutKept, Zenon DEF Inv
<1>6. LaneStep
  BY <1>0, <1>1, <1>2, <1>3, Zenon DEF LaneStep
<1> QED BY <1>4, <1>5, <1>6, LaneMoves, Zenon

\* The construction of a stream keeps Inv, failed or not: before it there is no
\* living stream and so no lease.
LEMMA LaunchKeeps ==
  ASSUME Inv, ConstructionFails \/ Constructs
  PROVE  Inv'
<1>0. lane \in LaneType /\ lane.r \in Requests
  BY Zenon DEF Inv, Types, LaneInv, ConstructionFails, Constructs, Launches
<1>1. /\ UNCHANGED <<req, networkQ, authQ, stopped, delivered, stopping, stopper, failed>>
      /\ lane.at = "held" /\ lane.kind = "launch" /\ tokens' \subseteq tokens
  BY Zenon DEF ConstructionFails, Constructs, Launches
<1>2. stream.state \in Gone /\ lease = NoLease
  BY <1>1, Zenon DEF Inv, LockInv, Launches, LeaseHasStream, Gone
<1>3. ~Draining /\ ~Quiesced
  BY <1>1, Zenon DEF Inv, ShutInv, LockFree
<1>4. NoStream \in Stream /\ Prepared(lane.r) \in Stream
  BY <1>0, PreparedFacts, Zenon
<1>5. ASSUME stream' \in {NoStream, Prepared(lane.r)}
      PROVE  ~Draining' /\ ~Quiesced'
  <2>1. stream'.jobs = <<>> /\ stream'.waiting = FALSE
    BY <1>0, <1>5, PreparedFacts, Zenon
  <2>2. Items(<<>>) = {}
    BY DEF Items
  <2>3. "shutdown" \notin Items(stream'.jobs)
    BY <2>1, <2>2, Zenon
  <2> QED BY <1>1, <1>3, <2>1, <2>3, Zenon DEF Draining, Quiesced
<1>6. CASE ConstructionFails
  <2>1. stream' = NoStream /\ lane' = [lane EXCEPT !.at = "end", !.status = "refused"]
        /\ lease' = lease
    BY <1>6, Zenon DEF ConstructionFails, ToEnd
  <2>2. /\ lane' \in LaneType /\ lane'.r = lane.r /\ lane'.kind = lane.kind
        /\ lane'.token = lane.token /\ lane'.at = "end" /\ lane'.status = "refused"
    BY <1>0, <2>1, Zenon DEF LaneType
  <2>3. LockInv'
    BY <1>2, <2>1, <2>2, Zenon DEF LockInv, Launches, LeaseHasStream
  <2>4. ShutInv'
    BY <1>1, <1>5, <2>1, Zenon DEF Inv, ShutInv
  <2>5. LaneStep
    BY <1>1, <1>4, <2>1, <2>2, Zenon DEF LaneStep
  <2> QED BY <2>3, <2>4, <2>5, LaneMoves, Zenon
<1>7. CASE Constructs
  <2>1. stream' = Prepared(lane.r) /\ lane' = [lane EXCEPT !.at = "launched"]
        /\ lease' = [r |-> lane.r, token |-> lane.token] /\ lane.token \in tokens
    BY <1>7, Zenon DEF Constructs, Authorized
  <2>2. /\ lane' \in LaneType /\ lane'.r = lane.r /\ lane'.kind = lane.kind
        /\ lane'.token = lane.token /\ lane'.at = "launched"
    BY <1>0, <2>1, Zenon DEF LaneType
  <2>3. lane.token \in Requests
    BY <2>1, Zenon DEF Inv, Types
  <2>4. stream'.by = lane.r /\ stream'.state = "Prepared"
    BY <2>1, Zenon DEF Prepared, NoStream
  <2>5. LockInv'
    BY <2>1, <2>2, <2>4, Zenon DEF LockInv, Launches, LeaseHasStream
  <2>6. ShutInv'
    BY <1>1, <1>5, <2>1, Zenon DEF Inv, ShutInv
  <2>7. LaneStep
    BY <1>1, <1>4, <2>1, <2>2, <2>3, Zenon DEF LaneStep
  <2> QED BY <2>5, <2>6, <2>7, LaneMoves, Zenon
<1> QED BY <1>6, <1>7, Zenon

\* The rest of launch keeps Inv: it starts or stops the stream it constructed.
LEMMA LaunchEndsKeeps ==
  ASSUME Inv, LaunchEnds
  PROVE  Inv'
<1>0. lane \in LaneType /\ lane.r \in Requests /\ lane.kind = "launch"
  BY Zenon DEF Inv, Types, LaneInv, LaunchEnds
<1>1. /\ UNCHANGED <<req, networkQ, authQ, stopped, tokens, lease, delivered,
                     stopping, stopper, failed>>
      /\ lane.at = "launched"
  BY Zenon DEF LaunchEnds
<1>2. PICK job \in {"start", "stop"}, st \in {"ok", "refused"} :
        /\ stream' = [stream EXCEPT !.jobs = Append(stream.jobs, job)]
        /\ lane' = [lane EXCEPT !.at = "end", !.status = st]
  BY Zenon DEF LaunchEnds, ToEnd
<1>3. stream = Prepared(lane.r) /\ stream.jobs = <<>> /\ stream.waiting = FALSE
      /\ stream.state = "Prepared" /\ stream \in Stream
  BY <1>1, Zenon DEF Inv, LockInv, Prepared, NoStream, Types
<1>4. ~Draining /\ ~Quiesced
  BY <1>1, Zenon DEF Inv, ShutInv, LockFree
<1>5. Append(stream.jobs, job) \in Seq(StreamJobs) /\ Items(Append(stream.jobs, job)) = {job}
  <2>1. stream.jobs \in Seq(StreamJobs) /\ job \in StreamJobs
    BY <1>3, Zenon DEF Stream, StreamJobs
  <2>2. Items(stream.jobs) = {}
    BY <1>3 DEF Items
  <2> QED BY <2>1, <2>2, JobsFacts
<1>6. /\ stream' \in Stream /\ stream'.waiting = FALSE /\ stream'.state = "Prepared"
      /\ stream'.by = stream.by /\ stream'.jobs = Append(stream.jobs, job)
  BY <1>2, <1>3, <1>5, Zenon DEF Stream, StreamJobs
<1>7. /\ lane' \in LaneType /\ lane'.r = lane.r /\ lane'.kind = lane.kind
      /\ lane'.token = lane.token /\ lane'.at = "end" /\ lane'.status \in {"ok", "refused"}
  BY <1>0, <1>2, Zenon DEF LaneType
<1>8. LockInv'
  <2>1. LeaseHasStream'
    BY <1>1, <1>6, Zenon DEF Inv, LockInv, LeaseHasStream
  <2> QED BY <1>6, <1>7, <2>1, Zenon DEF LockInv, Launches
<1>9. ShutInv'
  <2>1. "shutdown" \notin Items(stream'.jobs)
    BY <1>5, <1>6
  <2>2. ~Draining' /\ ~Quiesced'
    BY <1>1, <1>4, <1>6, <2>1, Zenon DEF Draining, Quiesced
  <2> QED BY <1>1, <2>2, Zenon DEF Inv, ShutInv
<1>10. LaneStep
  BY <1>0, <1>1, <1>6, <1>7, Zenon DEF LaneStep
<1> QED BY <1>8, <1>9, <1>10, LaneMoves, Zenon

\* A stream with a block on its queue exists and is not being launched.
LEMMA QueuedStream ==
  ASSUME Inv, stream.jobs # <<>>
  PROVE  /\ stream.jobs \in Seq(StreamJobs) /\ Tail(stream.jobs) \in Seq(StreamJobs)
         /\ Items(Tail(stream.jobs)) \subseteq Items(stream.jobs)
         /\ Head(stream.jobs) \in Items(stream.jobs)
         /\ stream \in Stream /\ stream.state # "none" /\ lane.at # "launched"
<1>1. stream \in Stream /\ stream.jobs \in Seq(StreamJobs) /\ "stop" \in StreamJobs
  BY Zenon DEF Inv, Types, Stream, StreamJobs
<1>2. stream.state # "none" /\ lane.at # "launched"
  <2>1. NoStream.jobs = <<>> /\ Prepared(lane.r).jobs = <<>>
    BY PreparedFacts, Zenon DEF Inv, Types, LaneType
  <2> QED BY <2>1, Zenon DEF Inv, LockInv
<1> QED BY <1>1, <1>2, JobsFacts, Zenon

\* start's block keeps Inv.
LEMMA StreamStartsKeeps ==
  ASSUME Inv, StreamStarts
  PROVE  Inv'
<1> DEFINE s == [stream EXCEPT !.jobs = Tail(stream.jobs)]
<1>1. /\ UNCHANGED <<req, networkQ, authQ, lane, stopped, tokens, delivered,
                     stopping, stopper, failed>>
      /\ stream.jobs # <<>>
  BY Zenon DEF StreamStarts
<1>2. /\ Tail(stream.jobs) \in Seq(StreamJobs) /\ Items(Tail(stream.jobs)) \subseteq Items(stream.jobs)
      /\ stream \in Stream /\ stream.state # "none" /\ lane.at # "launched"
  BY <1>1, QueuedStream, Zenon
<1>3. /\ s \in Stream /\ s.jobs = Tail(stream.jobs) /\ s.state = stream.state
      /\ s.by = stream.by /\ s.waiting = stream.waiting
  BY <1>2, Zenon DEF Stream, StreamJobs
<1>4. \/ stream.state = "Prepared" /\ stream' = [s EXCEPT !.state = "Connecting"] /\ lease' = lease
      \/ /\ stream.state = "Prepared" /\ stream' = Stopping(s)
         /\ lease' = IF lease.r = stream.by THEN NoLease ELSE lease
      \/ stream.state # "Prepared" /\ stream' = s /\ lease' = lease
  BY <1>3, Zenon DEF StreamStarts, LeaseAfterStop
<1> HIDE DEF s
<1>5. /\ stream' \in Stream /\ stream'.by = stream.by /\ stream'.jobs = Tail(stream.jobs)
      /\ stream'.waiting = stream.waiting
      /\ \/ stream.state = "Prepared" /\ stream'.state = "Connecting" /\ lease' = lease
         \/ /\ stream.state = "Prepared" /\ stream'.state = "Stopping"
            /\ lease' = IF lease.r = stream.by THEN NoLease ELSE lease
         \/ stream.state # "Prepared" /\ stream'.state = stream.state /\ lease' = lease
  BY <1>3, <1>4, Zenon DEF Stream, Stopping
<1>6. LockInv'
  <2>1. LeaseHasStream'
    BY <1>5, Zenon DEF Inv, LockInv, LeaseHasStream
  <2> QED BY <1>1, <1>2, <1>5, <2>1, Zenon DEF Inv, LockInv, Launches, Gone
<1>7. ShutInv'
  <2>1. Draining' => Draining
    BY <1>1, <1>2, <1>5, Zenon DEF Draining
  <2>2. Quiesced' => Quiesced
    BY <1>1, Zenon DEF Quiesced
  <2> QED BY <1>1, <1>5, <2>1, <2>2, Zenon DEF Inv, ShutInv, LockFree, Gone
<1>8. lease' \in {lease, NoLease}
  BY <1>5, Zenon
<1> QED BY <1>1, <1>5, <1>6, <1>7, <1>8, RestKept, Zenon DEF Inv, Types

\* ShutInv survives a step that asks the server to stop only when the stop is
\* past the lock and the stream is gone.
LEMMA ShutMoves ==
  ASSUME ShutInv, UNCHANGED <<authQ, lane, stopping>>, Draining' => Draining,
         networkQ' \in Seq(BlockType), networkQ \in Seq(BlockType),
         stopper' # "none" => stopper # "none" \/ Draining,
         Quiesced => stream'.state \in Gone,
         \/ networkQ' = networkQ /\ stopper' = stopper
         \/ Draining /\ stream'.state \in Gone
  PROVE  ShutInv'
<1>1. Quiesced' => Quiesced \/ (Draining /\ stream'.state \in Gone)
  BY Zenon DEF Quiesced
<1> QED BY <1>1, Zenon DEF ShutInv, LockFree

\* stopWithCompletion's block on the stream's queue keeps Inv: the lease ends
\* with it, and the completion runs at once only where the stream is stopped.
LEMMA StreamStopsKeeps ==
  ASSUME Inv, StreamStops
  PROVE  Inv'
<1> DEFINE s == [stream EXCEPT !.jobs = Tail(stream.jobs)]
           job == Head(stream.jobs)
<1>1. /\ UNCHANGED <<req, authQ, lane, stopped, tokens, delivered, stopping, failed>>
      /\ stream.jobs # <<>>
  BY Zenon DEF StreamStops
<1>2. /\ Tail(stream.jobs) \in Seq(StreamJobs) /\ Items(Tail(stream.jobs)) \subseteq Items(stream.jobs)
      /\ job \in Items(stream.jobs)
      /\ stream \in Stream /\ stream.state # "none" /\ lane.at # "launched"
  BY <1>1, QueuedStream, Zenon
<1>3. /\ s \in Stream /\ s.jobs = Tail(stream.jobs) /\ s.state = stream.state
      /\ s.by = stream.by /\ s.waiting = stream.waiting
  BY <1>2, Zenon DEF Stream, StreamJobs
<1>4. \/ /\ stream.state = "Stopped" /\ stream' = s /\ lease' = lease
         /\ \/ /\ job = "shutdown" /\ stopper' = "server"
               /\ networkQ' = Append(networkQ, StopBlock(TRUE))
            \/ UNCHANGED <<stopper, networkQ>>
      \/ /\ stream.state # "Stopped"
         /\ stream' = [Stopping(s) EXCEPT !.waiting = Stopping(s).waiting \/ job = "shutdown"]
         /\ lease' = (IF lease.r = stream.by THEN NoLease ELSE lease)
         /\ UNCHANGED <<stopper, networkQ>>
  BY <1>3, Zenon DEF StreamStops, LeaseAfterStop, CallsBack
<1>5. job = "shutdown" => Draining
  BY <1>2, Zenon DEF Draining
<1>6. StopBlock(TRUE) \in BlockType /\ networkQ \in Seq(BlockType)
  BY StopBlockTyped, Zenon DEF Inv, Types
<1> HIDE DEF s, job
<1>7. CASE stream.state = "Stopped"
  <2>1. stream' = s /\ lease' = lease
    BY <1>4, <1>7, Zenon
  <2>2. LockInv'
    <3>1. LeaseHasStream'
      BY <1>3, <2>1, Zenon DEF Inv, LockInv, LeaseHasStream
    <3> QED BY <1>1, <1>2, <1>3, <1>7, <2>1, <3>1, Zenon DEF LockInv, Gone
  <2>3. networkQ' \in Seq(BlockType)
    BY <1>4, <1>6, <1>7, AppendFacts, Zenon
  <2>4. Draining' => Draining
    BY <1>2, <1>3, <1>4, <1>5, <1>7, <2>1, Zenon DEF Draining
  <2>5. stream'.state \in Gone
    BY <1>3, <1>7, <2>1, Zenon DEF Gone
  <2>6. ShutInv'
    <3>1. \/ networkQ' = networkQ /\ stopper' = stopper
          \/ Draining
      BY <1>4, <1>5, <1>7, Zenon
    <3> QED BY <1>1, <1>6, <2>3, <2>4, <2>5, <3>1, ShutMoves, Zenon DEF Inv
  <2>7. networkQ' \in {networkQ, Append(networkQ, StopBlock(TRUE))}
        /\ stopper' \in {stopper, "server"}
    BY <1>4, <1>7, Zenon
  <2> QED BY <1>1, <1>3, <2>1, <2>2, <2>6, <2>7, RestKept, ZenonT(60) DEF Inv, Types
<1>8. CASE stream.state # "Stopped"
  <2>1. lease' = (IF lease.r = stream.by THEN NoLease ELSE lease)
        /\ UNCHANGED <<stopper, networkQ>>
    BY <1>4, <1>8, Zenon
  <2>2. /\ Stopping(s) \in Stream /\ Stopping(s).state = "Stopping" /\ Stopping(s).by = stream.by
        /\ Stopping(s).jobs = Tail(stream.jobs) /\ Stopping(s).waiting = stream.waiting
    BY <1>3, <1>8, Zenon DEF Stopping, Stream
  <2>3. /\ stream' \in Stream /\ stream'.state = "Stopping" /\ stream'.by = stream.by
        /\ stream'.jobs = Tail(stream.jobs)
        /\ stream'.waiting = (stream.waiting \/ job = "shutdown")
    <3> DEFINE z == Stopping(s)
    <3>1. stream' = [z EXCEPT !.waiting = z.waiting \/ job = "shutdown"]
      BY <1>4, <1>8, Zenon
    <3> HIDE DEF z
    <3> QED BY <2>2, <3>1, Zenon DEF Stream, z
  <2>4. lease' = NoLease
    BY <2>1, Zenon DEF Inv, LockInv, LeaseHasStream
  <2>5. ~Launches /\ stream.state \notin Gone
    BY <1>2, <1>8, Zenon DEF Inv, LockInv, Gone
  <2>6. LockInv'
    BY <1>1, <1>2, <2>3, <2>4, <2>5, Zenon DEF LockInv, Launches, LeaseHasStream
  <2>7. Draining' => Draining
    BY <1>2, <1>5, <2>1, <2>3, Zenon DEF Draining
  <2>8. ~Quiesced
    BY <2>5, Zenon DEF Inv, ShutInv
  <2>9. ShutInv'
    BY <1>1, <1>6, <2>1, <2>7, <2>8, ShutMoves, Zenon DEF Inv
  <2> QED BY <1>1, <2>1, <2>3, <2>4, <2>6, <2>9, RestKept, ZenonT(60) DEF Inv, Types
<1> QED BY <1>7, <1>8, Zenon

\* A stream that connects or ends by itself keeps Inv.
LEMMA StreamRunsKeeps ==
  ASSUME Inv, StreamRuns \/ StreamEnds
  PROVE  Inv'
<1>1. /\ UNCHANGED <<req, networkQ, authQ, lane, stopped, tokens, delivered, stopping, stopper>>
      /\ stream.state \in {"Connecting", "Streaming"}
      /\ \/ stream' = [stream EXCEPT !.state = "Streaming"] /\ lease' = lease
         \/ /\ stream' = Stopping(stream)
            /\ lease' = IF lease.r = stream.by THEN NoLease ELSE lease
  BY Zenon DEF StreamRuns, StreamEnds, Watched, LeaseAfterStop, serverVars
<1>2. stream \in Stream /\ networkQ \in Seq(BlockType)
  BY Zenon DEF Inv, Types
<1>3. /\ stream' \in Stream /\ stream'.by = stream.by /\ stream'.jobs = stream.jobs
      /\ stream'.waiting = stream.waiting
      /\ \/ stream'.state = "Streaming" /\ lease' = lease
         \/ /\ stream'.state = "Stopping"
            /\ lease' = IF lease.r = stream.by THEN NoLease ELSE lease
  BY <1>1, <1>2, Zenon DEF Stream, Stopping
<1>4. LeaseHasStream'
  BY <1>3, Zenon DEF Inv, LockInv, LeaseHasStream
<1>5. ~Launches /\ lane.at # "launched" /\ stream.state \notin Gone
  <2>1. stream.state \notin Gone /\ stream.state # "Prepared"
    BY <1>1, Zenon DEF Gone
  <2>2. Prepared(lane.r).state = "Prepared"
    BY PreparedFacts, Zenon DEF Inv, Types, LaneType
  <2> QED BY <2>1, <2>2, Zenon DEF Inv, LockInv
<1>6. LockInv'
  BY <1>1, <1>3, <1>4, <1>5, Zenon DEF LockInv, Launches
<1>7. ShutInv'
  <2>1. Draining' => Draining
    BY <1>1, <1>3, Zenon DEF Draining
  <2>2. ~Quiesced
    BY <1>5, Zenon DEF Inv, ShutInv
  <2> QED BY <1>1, <1>2, <2>1, <2>2, ShutMoves, Zenon DEF Inv
<1>8. lease' \in {lease, NoLease}
  BY <1>3, Zenon
<1> QED BY <1>1, <1>3, <1>6, <1>7, <1>8, RestKept, Zenon DEF Inv, Types

\* finishStop keeps Inv.
LEMMA StreamDrainedKeeps ==
  ASSUME Inv, StreamDrained
  PROVE  Inv'
<1>1. /\ UNCHANGED <<req, authQ, lane, stopped, tokens, lease, delivered, stopping>>
      /\ stream.state = "Stopping"
      /\ stream' = [stream EXCEPT !.state = "Stopped", !.waiting = FALSE]
      /\ \/ /\ stream.waiting /\ stopper' = "server"
            /\ networkQ' = Append(networkQ, StopBlock(TRUE))
         \/ UNCHANGED <<stopper, networkQ>>
  BY Zenon DEF StreamDrained
<1>2. stream \in Stream /\ networkQ \in Seq(BlockType) /\ StopBlock(TRUE) \in BlockType
  BY StopBlockTyped, Zenon DEF Inv, Types
<1>3. /\ stream' \in Stream /\ stream'.by = stream.by /\ stream'.jobs = stream.jobs
      /\ stream'.waiting = FALSE /\ stream'.state = "Stopped" /\ stream'.state \in Gone
  BY <1>1, <1>2, Zenon DEF Stream, Gone
<1>4. stream.waiting => Draining
  BY Zenon DEF Draining
<1>5. lease = NoLease /\ lane.at # "launched"
  <2>1. Prepared(lane.r).state = "Prepared"
    BY PreparedFacts, Zenon DEF Inv, Types, LaneType
  <2> QED BY <1>1, <2>1, Zenon DEF Inv, LockInv, LeaseHasStream
<1>6. LockInv'
  BY <1>1, <1>3, <1>5, Zenon DEF LockInv, LeaseHasStream
<1>7. ShutInv'
  <2>1. Draining' => Draining
    BY <1>1, <1>3, <1>4, Zenon DEF Draining
  <2>2. networkQ' \in Seq(BlockType)
    BY <1>1, <1>2, AppendFacts, Zenon
  <2>3. (networkQ' = networkQ /\ stopper' = stopper) \/ Draining
    BY <1>1, <1>4, Zenon
  <2> QED BY <1>1, <1>2, <1>3, <2>1, <2>2, <2>3, ShutMoves, Zenon DEF Inv
<1>8. networkQ' \in {networkQ, Append(networkQ, StopBlock(TRUE))} /\ stopper' \in {stopper, "server"}
  BY <1>1, Zenon
<1> QED BY <1>1, <1>3, <1>6, <1>7, <1>8, RestKept, Zenon DEF Inv, Types

\* A failing listener keeps Inv.
LEMMA ListenerFailsKeeps ==
  ASSUME Inv, ListenerFails
  PROVE  Inv'
<1>1. /\ UNCHANGED <<req, authQ, lane, stopped, tokens, lease, delivered, stopping, stopper, stream>>
      /\ networkQ' = Append(networkQ, StopBlock(FALSE))
  BY Zenon DEF ListenerFails
<1>2. StopBlock(FALSE) \in BlockType /\ StopBlock(FALSE).calls = FALSE
  BY StopBlockTyped, Zenon
<1>3. Items(networkQ') = Items(networkQ) \cup {StopBlock(FALSE)}
  BY <1>1, <1>2, AppendFacts, Zenon DEF Inv, Types
<1>4. NoNewCalls
  BY <1>1, <1>2, <1>3, Zenon DEF NoNewCalls
<1>5. ShutInv'
  BY <1>1, <1>4, ShutKept, Zenon DEF Inv, LockFree
<1>6. LockInv'
  BY <1>1, LockKept, Zenon DEF Inv
<1>7. networkQ' \in {networkQ, Append(networkQ, StopBlock(FALSE))} /\ lease' \in {lease, NoLease}
  BY <1>1, Zenon
<1> QED BY <1>1, <1>5, <1>6, <1>7, RestKept, Zenon DEF Inv, Types

\* The runtime's stopWithCompletion keeps Inv.
LEMMA StopKeeps ==
  ASSUME Inv, Stop
  PROVE  Inv'
<1>1. /\ UNCHANGED <<req, networkQ, authQ, lane, stopped, tokens, lease, delivered, stream>>
      /\ stopping' = TRUE /\ stopper' = "asked" /\ stopper = "none"
  BY Zenon DEF Stop, serverVars
<1>2. LockInv'
  BY <1>1, LockKept, Zenon DEF Inv
<1>3. ShutInv'
  <2>1. (Draining' => Draining) /\ (Quiesced' => Quiesced)
    BY <1>1, Zenon DEF Draining, Quiesced
  <2> QED BY <1>1, <2>1, Zenon DEF Inv, ShutInv, LockFree
<1>4. networkQ' \in {networkQ, Append(networkQ, StopBlock(FALSE))} /\ lease' \in {lease, NoLease}
  BY <1>1, Zenon
<1> QED BY <1>1, <1>2, <1>3, <1>4, RestKept, Zenon DEF Inv, Types

\* Its block keeps Inv: it waits for the lock, and nobody takes it after.
LEMMA StopProceedsKeeps ==
  ASSUME Inv, StopProceeds
  PROVE  Inv'
<1>1. /\ UNCHANGED <<req, authQ, lane, stopped, tokens, lease, delivered, stopping>>
      /\ stopper = "asked" /\ LockFree
  BY Zenon DEF StopProceeds, StopSnapshot
<1>2. stopping /\ stream \in Stream
  BY <1>1, Zenon DEF Inv, ShutInv, Types
<1>3. LockFree' /\ stopping'
  BY <1>1, <1>2, Zenon DEF LockFree
<1>4. CASE stream.state = "none"
  <2>1. stopper' = "server" /\ networkQ' = Append(networkQ, StopBlock(TRUE)) /\ stream' = stream
    BY <1>4, Zenon DEF StopProceeds
  <2>2. LockInv'
    BY <1>1, <2>1, LockKept, Zenon DEF Inv
  <2>3. ShutInv'
    BY <1>3, <1>4, <2>1, Zenon DEF ShutInv, Gone
  <2>4. networkQ' \in {networkQ, Append(networkQ, StopBlock(TRUE))} /\ lease' \in {lease, NoLease}
    BY <1>1, <2>1, Zenon
  <2> QED BY <1>1, <2>1, <2>2, <2>3, <2>4, RestKept, Zenon DEF Inv, Types
<1>5. CASE stream.state # "none"
  <2>1. /\ stopper' = "draining" /\ networkQ' = networkQ
        /\ stream' = [stream EXCEPT !.jobs = Append(stream.jobs, "shutdown")]
    BY <1>5, Zenon DEF StopProceeds
  <2>2. Append(stream.jobs, "shutdown") \in Seq(StreamJobs)
    <3>1. stream.jobs \in Seq(StreamJobs) /\ "shutdown" \in StreamJobs
      BY <1>2, Zenon DEF Stream, StreamJobs
    <3> QED BY <3>1, JobsFacts, Zenon
  <2>3. stream' \in Stream /\ stream'.state = stream.state /\ stream'.by = stream.by
    BY <1>2, <2>1, <2>2, Zenon DEF Stream, StreamJobs
  <2>4. LockInv'
    <3>1. LeaseHasStream'
      BY <1>1, <2>3, Zenon DEF Inv, LockInv, LeaseHasStream
    <3> QED BY <1>3, <1>5, <2>3, <3>1, Zenon DEF LockInv, LockFree, Launches
  <2>5. ShutInv'
    <3>1. Quiesced' => Quiesced
      BY <1>1, <2>1, Zenon DEF Quiesced
    <3> QED BY <1>3, <2>3, <3>1, Zenon DEF Inv, ShutInv
  <2>6. networkQ' \in {networkQ, Append(networkQ, StopBlock(TRUE))} /\ lease' \in {lease, NoLease}
    BY <1>1, <2>1, Zenon
  <2> QED BY <1>1, <2>1, <2>3, <2>4, <2>5, <2>6, RestKept, Zenon DEF Inv, Types
<1> QED BY <1>4, <1>5, Zenon

\* Inv holds in the beginning.
LEMMA InitHolds ==
  ASSUME Init
  PROVE  Inv
<1>0. None \notin Requests /\ LoggedIn \subseteq Requests
  BY ServerAssumption, Zenon
<1>1. /\ networkQ = <<>> /\ authQ = <<>> /\ lane = Idle /\ stopped = FALSE
      /\ tokens = LoggedIn /\ lease = NoLease /\ delivered = LoggedIn
      /\ stopping = FALSE /\ stopper = "none" /\ stream = NoStream
  BY Zenon DEF Init, ServerInit
<1>2. Items(<<>>) = {} /\ <<>> \in Seq(BlockType) /\ Distinct(<<>>) /\ InOrder(<<>>)
  BY DEF Items, Distinct, InOrder
<1>3. /\ req \in [Requests -> Request]
      /\ \A r \in Requests : req[r].bound = None
  BY Zenon DEF Init, ServerInit, NewRequest, Finished, Request
<1>4. /\ NoStream \in Stream /\ NoStream.jobs = <<>> /\ NoStream.waiting = FALSE
      /\ NoStream.state = "none"
  <2>1. NoStream.state = "none"
    BY Zenon DEF NoStream
  <2> QED BY <2>1, PreparedFacts, Zenon
<1>5. Types
  BY <1>0, <1>1, <1>2, <1>3, <1>4, Zenon DEF Types, Idle, LaneType, NoLease, LeaseType
<1>6. LaneInv /\ LockInv
  BY <1>1, Zenon DEF LaneInv, LockInv, Idle, Launches, LeaseHasStream
<1>7. ShutInv
  BY <1>1, <1>2, <1>4, Zenon DEF ShutInv, Draining, Quiesced
<1>8. EndInv
  BY <1>1, <1>2, Zenon DEF EndInv
<1>9. TicketInv
  BY <1>0, <1>1, <1>2, <1>3, Zenon DEF TicketInv, Waits, Replied, Idle
<1>10. LeaseInv /\ Owed
  BY <1>1, Zenon DEF LeaseInv, Owed, AnsweredIn
<1> QED BY <1>5, <1>6, <1>7, <1>8, <1>9, <1>10, Zenon DEF Inv

\* Every step keeps Inv.
LEMMA NextKeeps ==
  ASSUME Inv, [Next]_vars
  PROVE  Inv'
<1>1. CASE UNCHANGED vars
  <2>1. /\ UNCHANGED <<networkQ, authQ, lane, authBusy, stopped, tokens, lease, delivered,
                     stopping, stopper, stream, failed>>
        /\ req' = req
    BY <1>1, Zenon DEF vars, serverVars
  <2>2. \A r \in Requests : Dispatched(r) => Dispatched(r)'
    BY <2>1, Zenon DEF Dispatched
  <2> QED BY <2>1, <2>2, ReqOnly, Zenon DEF Inv, Types, TicketInv, EndInv
<1>2. ASSUME NEW r \in Requests, Connection(r), UNCHANGED runtimeVars PROVE Inv'
  <2>1. CASE \/ Accept(r) \/ ReceiveRefuse(r) \/ ConnectionEnds(r) \/ DeadlinePasses(r)
             \/ Expire(r)
    BY <1>2, <2>1, ConnectionKeeps, Zenon
  <2>2. ASSUME NEW kind \in Kinds, NEW token \in Requests \cup {None},
               ReceiveDispatch(r, kind, token)
        PROVE  Inv'
    BY <1>2, <2>2, ReceiveDispatchKeeps, Zenon
  <2>3. ASSUME NEW ok \in BOOLEAN, SendCompletes(r, ok) PROVE Inv'
    BY <1>2, <2>3, SendCompletesKeeps, Zenon
  <2> QED BY <1>2, <2>1, <2>2, <2>3, Zenon DEF Connection
<1>3. CASE NetworkBlock \/ NetworkComplete
  BY <1>3, NetworkReplyKeeps, NetworkFreeKeeps, NetworkStopKeeps, NetworkCompleteKeeps,
     Zenon
     DEF NetworkBlock
<1>4. CASE AuthBlock
  BY <1>4, AuthRevokeKeeps, AuthRevokeAllKeeps, BeginKeeps, HandlerKeeps, Zenon
     DEF AuthBlock, Handler
<1>5. CASE RuntimeBlock
  BY <1>5, WorkKeeps, LaunchKeeps, LaunchEndsKeeps, Zenon DEF RuntimeBlock
<1>6. CASE Lapse /\ UNCHANGED runtimeVars
  BY <1>6, LapseKeeps, Zenon
<1>7. CASE StreamStarts \/ StreamStops \/ StreamRuns \/ StreamEnds \/ StreamDrained
  BY <1>7, StreamStartsKeeps, StreamStopsKeeps, StreamRunsKeeps, StreamDrainedKeeps, Zenon
<1>8. CASE ListenerFails \/ Stop \/ StopProceeds
  BY <1>8, ListenerFailsKeeps, StopKeeps, StopProceedsKeeps, Zenon
<1> QED BY <1>1, <1>2, <1>3, <1>4, <1>5, <1>6, <1>7, <1>8, ZenonT(60) DEF Next

\* Inv is an invariant of the runtime and its server.
THEOREM RuntimeInvariant == Spec => []Inv
<1>1. Init => Inv
  BY InitHolds, Zenon
<1>2. Inv /\ [Next]_vars => Inv'
  BY NextKeeps, Zenon
<1> QED BY <1>1, <1>2, PTL DEF Spec

\* Requests, lanes and stream keep their shape, and no second answer is queued
\* for a request that is being sent (replyBytes).
THEOREM RuntimeTyped == Spec => []TypeOK
<1>1. Inv => TypeOK
  <2> SUFFICES ASSUME Inv PROVE TypeOK
    BY Zenon
  <2>1. ASSUME NEW i \in DOMAIN networkQ, networkQ[i].job = "reply"
        PROVE  ~req[networkQ[i].r].sending
    <3>1. networkQ[i] \in BlockType /\ networkQ[i] \in Items(networkQ)
      BY DEF Inv, Types, Items
    <3>2. networkQ[i].r \in Requests
      BY <2>1, <3>1, BlockFields, Zenon
    <3>3. Replied(networkQ[i].r)
      BY <2>1, <3>1, Zenon DEF Replied
    <3>4. Dispatched(networkQ[i].r)
      BY <3>2, <3>3, Zenon DEF Inv, TicketInv
    <3> QED BY <3>4, Zenon DEF Dispatched
  <2>2. lane.at \in {"idle", "run", "held", "launched", "end"}
    BY Zenon DEF Inv, Types, LaneType
  <2> QED BY <2>1, <2>2, Zenon DEF Inv, Types, TypeOK, LeaseType
<1> QED BY <1>1, RuntimeInvariant, PTL

\* No credential outlives an answer that nobody got: there is no setup token,
\* and no lease, but while its answer was delivered, is on its way, or its
\* revocation is queued (replyBytes, the completion of its send, handlePath).
THEOREM NoOrphanCredential == Spec => []UndeliveredIsRevoked
<1>1. Inv => UndeliveredIsRevoked
  BY OwedIsUndelivered, Zenon DEF Inv
<1> QED BY <1>1, RuntimeInvariant, PTL

\* A lease belongs to a living stream that will end it; when the server is told
\* to stop the stream is drained; and a completed shutdown leaves no token, no
\* lease and no handler (host-runtime.m, https-auth-server.m).
THEOREM LeaseIsOwned == Spec => []LeaseOwned
<1>1. Inv => LeaseOwned
  <2> SUFFICES ASSUME Inv PROVE LeaseOwned
    BY Zenon
  <2>1. LeaseHasStream
    BY Zenon DEF Inv, LockInv
  <2>2. stopper \in {"server", "done"} => stream.state \in Gone
    BY Zenon DEF Inv, ShutInv, Quiesced
  <2>3. stopper = "done" => Over
    BY Zenon DEF Inv, EndInv
  <2>4. Over => tokens = {} /\ lease = NoLease /\ Handled = {} /\ lane = Idle
    BY Zenon DEF Over, Handled, Items
  <2> QED BY <2>1, <2>2, <2>3, <2>4, Zenon DEF LeaseOwned, QuietAfterStop
<1> QED BY <1>1, RuntimeInvariant, PTL

\* A step that changes whose stream it is finds the old stream gone: the only
\* ones that do hold the lock for a launch.
LEMMA ByIsKept ==
  ASSUME Inv, [Next]_vars, stream'.by # stream.by
  PROVE  stream.state \in Gone
<1>1. stream \in Stream
  BY Zenon DEF Inv, Types
<1>2. CASE Launches
  BY <1>2, Zenon DEF Inv, LockInv
<1>3. CASE ~Launches
  <2>1. stream' = stream \/ StreamStarts \/ StreamStops \/ StreamRuns \/ StreamEnds
        \/ StreamDrained \/ LaunchEnds \/ StopProceeds
    BY <1>3, Zenon
       DEF Next, vars, serverVars, Connection, runtimeVars, NetworkBlock, NetworkComplete,
                AuthBlock, RuntimeBlock, WorkBegins, WorkEnds, LaunchBegins, ConstructionFails,
                Constructs, ListenerFails, Stop
  <2>2. stream'.by = stream.by
    BY <1>1, <2>1, Zenon
       DEF StreamStarts, StreamStops, StreamRuns, StreamEnds, StreamDrained,
                      LaunchEnds, StopProceeds, Stopping, Stream
  <2> QED BY <2>2, Zenon
<1> QED BY <1>2, <1>3, Zenon

\* A launch never puts a stream in the place of one that is still draining.
THEOREM AliveIsKept == Spec => NeverReplacedAlive
<1>1. Inv /\ [Next]_vars => [stream'.by # stream.by => stream.state \in Gone]_vars
  BY ByIsKept, Zenon
<1> QED BY <1>1, RuntimeInvariant, PTL DEF Spec, NeverReplacedAlive
==============================================================================
