-------------------------- MODULE WacomBridgeProofs ---------------------------
(***************************************************************************)
(* The tablet bridge, for any number of interfaces, reports and requests:  *)
(* a reply is the answer to the request that waits for it, and input       *)
(* reaches the endpoint of its own interface in order and at most once.    *)
(*                                                                         *)
(* The frames to the host are in the order of the handshake, so the        *)
(* invariant says of each frame in the channel what the host has when it   *)
(* comes to it, and of each interface which reports and which transactions *)
(* are still on the way.                                                   *)
(***************************************************************************)
EXTENDS WacomBridge, WellFoundedInduction, TLAPS

\* run_client starts with at least one --hidraw option.
SomePaths == PathCounts \subseteq Nat \ {0}

-----------------------------------------------------------------------------
(* The invariant.                                                          *)

\* What a frame carries: a count or a number, an input report, or the outcome of
\* an ioctl.
Payload == Int \union (Int \X Int) \union (Requests \X Int \X Int)

\* The types of the frames to the host.
FrameTypes ==
  {"device", "descriptor", "input", "detach", "get_report_reply", "set_report_reply"}

\* A frame to the host.
ToHost == [type: FrameTypes, interface: Int, transaction: Int, payload: Payload]

\* A frame to the client.
ToClient == [type: Requests \union {"output"}, interface: Interfaces, transaction: Int,
             payload: {0}]

\* An event that the host reads from an endpoint.
Event == [type: Requests \union {"output", "start"}, interface: Interfaces, transaction: Int,
          payload: {0}]

\* A UHID endpoint.
Endpoint == [descriptor: Int, waiting: Requests \union {"none"}, id: Int, events: Seq(Event)]

\* The types of what run_client has.
ClientTypes ==
  /\ paths \in Nat /\ paths > 0
  /\ client \in {"open", "grab", "connect", "device", "descriptors", "poll", "scan", "leave",
                 "exited"}
  /\ sent \in Nat /\ cready \subseteq Interfaces /\ to_client \in Seq(ToClient)

\* The types of what run_host has.
HostTypes ==
  /\ host \in {"listen", "accept", "device", "descriptors", "create", "poll", "scan", "leave",
               "exited"}
  /\ counted \in Nat /\ descriptors \in Seq(Int) /\ to_host \in Seq(ToHost)

\* The types of the tablet and of the endpoints; an endpoint that poll found
\* readable has an event.
DeviceTypes ==
  /\ produced \in [Interfaces -> Int] /\ unread \in [Interfaces -> Int]
  /\ asked \in [Interfaces -> Int] /\ delivered \in [Interfaces -> Seq(Int \X Int)]
  /\ uhid \in Seq(Endpoint) /\ hready \subseteq {n \in DOMAIN uhid : uhid[n].events # <<>>}

\* The types.
Types == ClientTypes /\ HostTypes /\ DeviceTypes

\* The host has heard nothing yet.
Early == {"listen", "accept", "device"}

\* The host has every descriptor.
Late == {"create", "poll", "scan", "leave"}

\* How many frames of the handshake the host has taken.
Taken == IF host \in Early THEN 0 ELSE IF host = "descriptors" THEN counted + 1 ELSE paths + 1

\* Frame f is what the client sends p-th: the device, each descriptor, the rest.
InPlace(f, p) ==
  /\ p = 1 => f.type = "device" /\ f.payload = paths
  /\ 1 < p /\ p <= paths + 1 =>
       f.type = "descriptor" /\ f.interface = p - 1 /\ f.payload = p - 1
  /\ p > paths + 1 =>
       f.type \in {"input", "detach", "get_report_reply", "set_report_reply"}

\* The frames in flight continue the client's sequence where the host is.
Sequence == \A k \in DOMAIN to_host : InPlace(to_host[k], Taken + k)

\* How far the client is in it.
Progress ==
  /\ client \in {"open", "grab", "connect", "device"} =>
       to_host = <<>> /\ sent = 0 /\ host \in Early \union {"exited"}
  /\ client = "descriptors" =>
       sent < paths /\ (host # "exited" => Taken + Len(to_host) = sent + 1)
  /\ client \in {"poll", "scan", "leave"} /\ host # "exited" =>
       Taken + Len(to_host) >= paths + 1
  /\ host = "exited" => to_host = <<>>

\* The host recreates each interface from its own descriptor.
Recreated ==
  /\ host \in Early => descriptors = <<>> /\ counted = 0
  /\ host = "descriptors" =>
       /\ Len(descriptors) = paths /\ counted < paths
       /\ \A n \in 1 .. counted : descriptors[n] = n
  /\ host \in Late => Len(descriptors) = paths /\ \A n \in Interfaces : descriptors[n] = n
  /\ host \notin Late => uhid = <<>>
  /\ host = "create" => Len(uhid) < paths
  /\ host \in {"poll", "scan", "leave"} => Len(uhid) = paths
  /\ \A n \in DOMAIN uhid : uhid[n].descriptor = n

\* The number of the last report that the client read from an interface.
ReadUpTo(i) == produced[i] - unread[i]

\* An input frame is an interface's, and newer than what its endpoint got...
Newer(f) ==
  f.type = "input" =>
    /\ f.interface \in Interfaces
    /\ f.payload \in Int \X Int /\ f.payload[1] = f.interface
    /\ f.payload[2] <= ReadUpTo(f.interface)
    /\ \A n \in DOMAIN delivered[f.interface] :
         delivered[f.interface][n][2] < f.payload[2]

\* ... and than an input frame of that interface before it.
Precedes(f, g) ==
  f.type = "input" /\ g.type = "input" /\ f.interface = g.interface =>
    f.payload[2] < g.payload[2]

\* Input in flight is in order, and continues what has arrived.
InFlight ==
  /\ \A k \in DOMAIN to_host : Newer(to_host[k])
  /\ \A j, k \in DOMAIN to_host : j < k => Precedes(to_host[j], to_host[k])

\* What an endpoint got is its own interface's input, in order.
Arrived ==
  \A i \in Interfaces :
    /\ \A n \in DOMAIN delivered[i] :
         delivered[i][n][1] = i /\ delivered[i][n][2] <= ReadUpTo(i)
    /\ \A m, n \in DOMAIN delivered[i] :
         m < n => delivered[i][m][2] < delivered[i][n][2]

\* A reply carries the outcome of the request it answers.
Answers(f) ==
  \A r \in Requests : f.type = Reply(r) => f.payload = <<r, f.interface, f.transaction>>

\* Every frame in flight is the answer to what it says it answers.
Intact == \A k \in DOMAIN to_host : Answers(to_host[k])

\* So is every request that was completed.
Answered == Intact /\ RepliesMatch

\* The inductive invariant.
BridgeInv ==
  Types /\ Sequence /\ Progress /\ Recreated /\ InFlight /\ Arrived /\ Answered

-----------------------------------------------------------------------------

\* The order of the interfaces, as a set of pairs.
Less == {x \in Nat \X Nat : x[1] < x[2]}

\* A set of interfaces has a least one.
LEMMA LeastIsOne ==
  ASSUME NEW S, S \subseteq Nat, S # {}
  PROVE  Least(S) \in S
<1>1. IsWellFoundedOn(Less, Nat)
  BY NatLessThanWellFounded, Zenon DEF OpToRel, Less
<1>2. PICK x \in S : \A y \in S : ~(<<y, x>> \in Less)
  BY <1>1, WFMin, Zenon
<1>3. ASSUME NEW y \in S PROVE x <= y
  <2>1. <<y, x>> \in Nat \X Nat /\ <<y, x>>[1] = y /\ <<y, x>>[2] = x
    BY Zenon
  <2>2. ~(<<y, x>>[1] < <<y, x>>[2])
    BY <1>2, <2>1, Zenon DEF Less
  <2> QED BY <2>1, <2>2
<1> QED BY <1>3, Zenon DEF Least

\* The invariant holds when neither process has started.
LEMMA Starts ==
  ASSUME SomePaths, Init
  PROVE  BridgeInv
<1>1. /\ paths \in Nat /\ paths > 0 /\ to_host = <<>> /\ to_client = <<>> /\ uhid = <<>>
      /\ client = "open" /\ host = "listen" /\ completed = {} /\ descriptors = <<>>
      /\ delivered = [i \in Interfaces |-> <<>>]
  BY DEF Init, SomePaths
<1>2. Types
  BY <1>1 DEF Init, Types, ClientTypes, HostTypes, DeviceTypes
<1>3. Sequence /\ Progress /\ Recreated
  BY <1>1 DEF Init, Sequence, Progress, Recreated, Early, Late
<1>4. InFlight /\ Arrived /\ Answered
  BY <1>1 DEF Init, InFlight, Arrived, Answered, Intact, RepliesMatch
<1> QED BY <1>2, <1>3, <1>4, Zenon DEF BridgeInv

\* The kinds of payload.
LEMMA Payloads ==
  /\ \A n \in Int : n \in Payload
  /\ \A x \in Int \X Int : x \in Payload
  /\ \A x \in Requests \X Int \X Int : x \in Payload
BY Zenon DEF Payload

\* A frame has the fields it was made with.
LEMMA Framed ==
  ASSUME NEW t \in FrameTypes, NEW i \in Int, NEW n \in Int, NEW p \in Payload
  PROVE  /\ Frame(t, i, n, p) \in ToHost
         /\ Frame(t, i, n, p).type = t /\ Frame(t, i, n, p).interface = i
         /\ Frame(t, i, n, p).transaction = n /\ Frame(t, i, n, p).payload = p
BY Zenon DEF Frame, ToHost

\* The sets depend on the number of interfaces alone, and that never changes.
LEMMA Sets ==
  ASSUME paths' = paths
  PROVE  /\ Interfaces' = Interfaces /\ ToClient' = ToClient /\ Event' = Event
         /\ Endpoint' = Endpoint
BY Zenon DEF Interfaces, ToClient, Event, Endpoint

\* The number of the last report read is a number.
LEMMA ReadTyped ==
  ASSUME BridgeInv, Types', paths' = paths
  PROVE  \A i \in Interfaces : ReadUpTo(i) \in Int /\ ReadUpTo(i)' \in Int
<1> SUFFICES ASSUME NEW i \in Interfaces
             PROVE  ReadUpTo(i) \in Int /\ ReadUpTo(i)' \in Int
  BY Zenon
<1>1. produced[i] \in Int /\ unread[i] \in Int /\ produced'[i] \in Int /\ unread'[i] \in Int
  BY Zenon DEF BridgeInv, Types, DeviceTypes, Interfaces
<1> QED BY <1>1 DEF ReadUpTo

\* The client goes on without sending.
LEMMA ClientMoves ==
  ASSUME BridgeInv, Types', Progress',
         UNCHANGED <<paths, host, counted, descriptors, to_host, uhid, delivered, completed>>,
         \A i \in Interfaces : ReadUpTo(i)' = ReadUpTo(i)
  PROVE  BridgeInv'
<1>1. Sequence'
  BY Zenon DEF BridgeInv, Sequence, Taken, InPlace
<1>2. Recreated'
  BY Zenon DEF BridgeInv, Recreated, Interfaces
<1>3. InFlight'
  <2>1. \A k \in DOMAIN to_host : Newer(to_host[k])'
    BY Zenon DEF BridgeInv, InFlight, Newer, Interfaces
  <2> QED BY <2>1, Zenon DEF BridgeInv, InFlight
<1>4. Arrived'
  BY ZenonT(60) DEF BridgeInv, Arrived, Interfaces
<1>5. Answered'
  BY Zenon DEF BridgeInv, Answered, Intact, RepliesMatch
<1> QED BY <1>1, <1>2, <1>3, <1>4, <1>5, Zenon DEF BridgeInv

\* The client sends what comes next.
LEMMA ClientSends ==
  ASSUME BridgeInv, Types', Progress', NEW f \in ToHost,
         UNCHANGED <<paths, host, counted, descriptors, uhid, delivered, completed>>,
         \A i \in Interfaces : ReadUpTo(i) <= ReadUpTo(i)',
         to_host' = IF host = "exited" THEN to_host ELSE Append(to_host, f),
         host # "exited" => InPlace(f, Taken + Len(to_host) + 1),
         Newer(f)', \A k \in DOMAIN to_host : Precedes(to_host[k], f), Answers(f)
  PROVE  BridgeInv'
<1>0. to_host \in Seq(ToHost) /\ paths \in Nat /\ Taken \in Nat /\ Taken' = Taken
  BY DEF BridgeInv, Types, ClientTypes, HostTypes, Taken
<1>1. Sequence'
  <2>1. CASE host = "exited"
    BY <1>0, <2>1, Zenon DEF BridgeInv, Sequence, InPlace
  <2>2. CASE host # "exited"
    <3> SUFFICES ASSUME NEW k \in DOMAIN to_host' PROVE InPlace(to_host[k], Taken + k)'
      BY Zenon DEF Sequence
    <3>1. CASE k \in DOMAIN to_host
      <4>1. to_host'[k] = to_host[k]
        BY <1>0, <2>2, <3>1
      <4> QED BY <1>0, <3>1, <4>1, Zenon DEF BridgeInv, Sequence, InPlace
    <3>2. CASE k \notin DOMAIN to_host
      <4>1. k = Len(to_host) + 1 /\ to_host'[k] = f
        BY <1>0, <2>2, <3>2
      <4>2. Taken + k = Taken + Len(to_host) + 1
        BY <1>0, <4>1
      <4> QED BY <1>0, <2>2, <4>1, <4>2, Zenon DEF InPlace
    <3> QED BY <3>1, <3>2, Zenon
  <2> QED BY <2>1, <2>2, Zenon
<1>2. Recreated'
  BY Zenon DEF BridgeInv, Recreated, Interfaces
<1>3. \A k \in DOMAIN to_host : Newer(to_host[k])'
  <2> SUFFICES ASSUME NEW k \in DOMAIN to_host, to_host[k].type = "input"
               PROVE  Newer(to_host[k])'
    BY DEF Newer
  <2>0. PICK g : g = to_host[k]
    BY Zenon
  <2>1. PICK i \in Interfaces :
          /\ i = g.interface /\ g.payload \in Int \X Int /\ g.payload[1] = i
          /\ g.payload[2] <= ReadUpTo(i)
          /\ \A n \in DOMAIN delivered[i] : delivered[i][n][2] < g.payload[2]
    BY <2>0, Zenon DEF BridgeInv, InFlight, Newer
  <2>2. ReadUpTo(i) <= ReadUpTo(i)' /\ ReadUpTo(i) \in Int /\ ReadUpTo(i)' \in Int
    BY ReadTyped, Zenon
  <2>3. g.payload[2] <= ReadUpTo(i)'
    BY <2>1, <2>2
  <2>4. Newer(g)'
    BY <2>1, <2>3, Zenon DEF Newer, Interfaces
  <2> QED BY <2>0, <2>4, SMTT(60)
<1>4. InFlight'
  <2>1. CASE host = "exited"
    BY <1>3, <2>1, Zenon DEF BridgeInv, InFlight
  <2>2. CASE host # "exited"
    <3>0. /\ DOMAIN to_host = 1 .. Len(to_host) /\ DOMAIN to_host' = 1 .. Len(to_host) + 1
          /\ Len(to_host) \in Nat
          /\ \A k \in 1 .. Len(to_host) : to_host'[k] = to_host[k]
          /\ to_host'[Len(to_host) + 1] = f
      BY <1>0, <2>2
    <3>1. ASSUME NEW k \in DOMAIN to_host' PROVE Newer(to_host[k])'
      <4>1. CASE k \in DOMAIN to_host
        <5>1. to_host'[k] = to_host[k]
          BY <3>0, <4>1, Zenon
        <5> QED BY <1>3, <4>1, <5>1, Zenon DEF Newer
      <4>2. CASE k \notin DOMAIN to_host
        <5>1. to_host'[k] = f
          BY <3>0, <4>2
        <5> QED BY <5>1, Zenon DEF Newer
      <4> QED BY <4>1, <4>2, Zenon
    <3>2. ASSUME NEW j \in DOMAIN to_host', NEW k \in DOMAIN to_host', j < k
          PROVE  Precedes(to_host[j], to_host[k])'
      <4>1. j \in DOMAIN to_host /\ to_host'[j] = to_host[j]
        BY <3>0, <3>2
      <4>2. CASE k \in DOMAIN to_host
        BY <3>0, <3>2, <4>1, <4>2, ZenonT(60) DEF BridgeInv, InFlight, Precedes
      <4>3. CASE k \notin DOMAIN to_host
        <5>1. to_host'[k] = f
          BY <3>0, <4>3
        <5> QED BY <4>1, <5>1, Zenon DEF Precedes
      <4> QED BY <4>2, <4>3, Zenon
    <3> QED BY <3>1, <3>2, Zenon DEF InFlight
  <2> QED BY <2>1, <2>2, Zenon
<1>5. Arrived'
  <2> SUFFICES ASSUME NEW i \in Interfaces, NEW n \in DOMAIN delivered[i]
               PROVE  delivered[i][n][2] <= ReadUpTo(i)'
    BY Zenon DEF BridgeInv, Arrived, Interfaces
  <2>1. delivered[i][n][2] <= ReadUpTo(i) /\ ReadUpTo(i) <= ReadUpTo(i)'
    BY Zenon DEF BridgeInv, Arrived
  <2>2. ReadUpTo(i) \in Int /\ ReadUpTo(i)' \in Int
    BY ReadTyped, Zenon
  <2>3. delivered[i][n][2] \in Int
    BY DEF BridgeInv, Types, DeviceTypes
  <2> QED BY <2>1, <2>2, <2>3
<1>6. Answered'
  <2>1. Intact'
    BY <1>0 DEF BridgeInv, Answered, Intact
  <2> QED BY <2>1, Zenon DEF BridgeInv, Answered, Intact, RepliesMatch
<1> QED BY <1>1, <1>2, <1>4, <1>5, <1>6, Zenon DEF BridgeInv

\* The host ends: its endpoints and what was sent to it are gone.
LEMMA HostGoes ==
  ASSUME BridgeInv, HostEnds, counted' \in Nat, descriptors' \in Seq(Int),
         UNCHANGED <<paths, cvars, to_client, tablet, asked, delivered, completed>>
  PROVE  BridgeInv'
<1>0. /\ UNCHANGED <<paths, client, sent, cready, to_client, produced, unread, asked,
                     delivered, completed>>
      /\ host' = "exited" /\ to_host' = <<>> /\ hready' = {} /\ uhid' = <<>>
  BY Zenon DEF HostEnds, cvars, tablet
<1>1. Types'
  <2>1. ClientTypes'
    <3>1. to_client' \in Seq(ToClient)
      <4>1. CASE UNCHANGED to_client
        BY <4>1, Zenon DEF BridgeInv, Types, ClientTypes
      <4>2. CASE to_client' = <<>>
        BY <4>2
      <4> QED BY <1>0, <4>1, <4>2, Zenon
    <3> QED BY <1>0, <3>1, Sets, Zenon DEF BridgeInv, Types, ClientTypes
  <2>2. HostTypes'
    BY <1>0 DEF BridgeInv, Types, HostTypes
  <2>3. DeviceTypes'
    BY <1>0, Sets DEF BridgeInv, Types, DeviceTypes
  <2> QED BY <2>1, <2>2, <2>3, Zenon DEF Types
<1>2. Sequence' /\ InFlight'
  BY <1>0 DEF Sequence, InFlight
<1>3. Progress'
  BY <1>0, Zenon DEF BridgeInv, Progress
<1>4. Recreated'
  BY <1>0 DEF Recreated, Early, Late
<1>5. Arrived'
  BY <1>0, Zenon DEF BridgeInv, Arrived, ReadUpTo, Interfaces
<1>6. Answered'
  BY <1>0 DEF BridgeInv, Answered, Intact, RepliesMatch
<1> QED BY <1>1, <1>2, <1>3, <1>4, <1>5, <1>6, Zenon DEF BridgeInv

\* The client goes on, or ends, without sending.
LEMMA ClientWaits ==
  ASSUME BridgeInv,
         UNCHANGED <<paths, host, hready, counted, descriptors, to_host, produced, unread, uhid,
                     asked, delivered, completed>>,
         \/ UNCHANGED <<client, to_client, cready, sent>>
         \/ client' = "exited" /\ to_client' = <<>> /\ cready' = {} /\ UNCHANGED sent
         \/ /\ client \in {"open", "grab", "connect", "device"}
            /\ client' \in {"open", "grab", "connect", "device"}
            /\ UNCHANGED <<to_client, cready, sent>>
         \/ /\ client \in {"poll", "scan"} /\ client' \in {"poll", "scan", "leave"}
            /\ to_client' \in {to_client, Tail(to_client)}
            /\ to_client' # to_client => to_client # <<>>
            /\ cready' \subseteq Interfaces /\ UNCHANGED sent
  PROVE  BridgeInv'
<1>1. Types'
  <2>1. ClientTypes'
    <3>1. to_client' \in Seq(ToClient)
      <4>0. to_client \in Seq(ToClient)
        BY Zenon DEF BridgeInv, Types, ClientTypes
      <4>1. CASE UNCHANGED to_client
        BY <4>0, <4>1, Zenon
      <4>2. CASE to_client' = <<>>
        BY <4>2
      <4>3. CASE to_client' = Tail(to_client) /\ to_client # <<>>
        BY <4>0, <4>3
      <4> QED BY <4>1, <4>2, <4>3, Zenon
    <3>2. cready' \subseteq Interfaces /\ sent' \in Nat
      BY Zenon DEF BridgeInv, Types, ClientTypes
    <3>3. client' \in {"open", "grab", "connect", "device", "descriptors", "poll", "scan",
                       "leave", "exited"}
      BY Zenon DEF BridgeInv, Types, ClientTypes
    <3> QED BY <3>1, <3>2, <3>3, Sets, Zenon DEF BridgeInv, Types, ClientTypes
  <2>2. HostTypes'
    BY Zenon DEF BridgeInv, Types, HostTypes
  <2>3. DeviceTypes'
    BY Sets, Zenon DEF BridgeInv, Types, DeviceTypes
  <2> QED BY <2>1, <2>2, <2>3, Zenon DEF Types
<1>2. Progress'
  BY Zenon DEF BridgeInv, Progress, Taken
<1>3. \A i \in Interfaces : ReadUpTo(i)' = ReadUpTo(i)
  BY Zenon DEF ReadUpTo
<1> QED BY <1>1, <1>2, <1>3, ClientMoves, Zenon

\* A frame that is not an input frame is sent.
LEMMA ClientTells ==
  ASSUME BridgeInv, NEW f \in ToHost, f.type # "input", Answers(f),
         UNCHANGED <<paths, host, hready, counted, descriptors, produced, unread, uhid, asked,
                     delivered, completed>>,
         to_host' = IF host = "exited" THEN to_host ELSE Append(to_host, f),
         host # "exited" => InPlace(f, Taken + Len(to_host) + 1),
         ClientTypes', Progress'
  PROVE  BridgeInv'
<1>1. Types'
  <2>1. to_host' \in Seq(ToHost)
    BY DEF BridgeInv, Types, HostTypes
  <2>2. HostTypes'
    BY <2>1, Zenon DEF BridgeInv, Types, HostTypes
  <2>3. DeviceTypes'
    BY Sets, Zenon DEF BridgeInv, Types, DeviceTypes
  <2> QED BY <2>2, <2>3, Zenon DEF Types
<1>2. \A i \in Interfaces : ReadUpTo(i) <= ReadUpTo(i)'
  <2>1. \A i \in Interfaces : ReadUpTo(i)' = ReadUpTo(i)
    BY Zenon DEF ReadUpTo
  <2> QED BY <1>1, <2>1, ReadTyped
<1>3. Newer(f)' /\ \A k \in DOMAIN to_host : Precedes(to_host[k], f)
  BY Zenon DEF Newer, Precedes
<1> QED BY <1>1, <1>2, <1>3, ClientSends, Zenon

\* run_client sends the number of interfaces first.
LEMMA SendDeviceKeeps ==
  ASSUME BridgeInv, SendDevice
  PROVE  BridgeInv'
<1>1. CASE client' = "exited"
  <2>1. /\ UNCHANGED <<paths, host, hready, counted, descriptors, to_host, produced, unread,
                       uhid, asked, delivered, completed>>
        /\ to_client' = <<>> /\ cready' = {} /\ UNCHANGED sent
    BY <1>1, Zenon DEF SendDevice, Send, ClientEnds, hvars, tablet, kernel
  <2> QED BY <1>1, <2>1, ClientWaits, Zenon
<1>2. CASE client' # "exited"
  <2> DEFINE f == Frame("device", 0, 0, paths)
  <2>1. /\ UNCHANGED <<paths, host, hready, counted, descriptors, produced, unread,
                       uhid, asked, delivered, completed, to_client, cready, sent>>
        /\ client = "device" /\ client' = "descriptors"
        /\ to_host' = IF host = "exited" THEN to_host ELSE Append(to_host, f)
    BY <1>2, Zenon DEF SendDevice, Send, ClientEnds, hvars, tablet, kernel
  <2>2. paths \in Nat /\ paths > 0 /\ to_host = <<>> /\ host \in Early \union {"exited"} /\ sent = 0
    BY <2>1, Zenon DEF BridgeInv, Types, ClientTypes, Progress
  <2>a. paths \in Payload /\ "device" \in FrameTypes
    BY <2>2, Payloads DEF FrameTypes
  <2>b. f \in ToHost /\ f.type = "device" /\ f.payload = paths
    BY <2>a, Framed
  <2> HIDE DEF f
  <2>3. f \in ToHost /\ f.type = "device" /\ f.payload = paths /\ Answers(f)
    BY <2>b, Zenon DEF Answers, Reply, Requests
  <2>4. host # "exited" => InPlace(f, Taken + Len(to_host) + 1)
    BY <2>2, <2>3 DEF InPlace, Taken, Early
  <2>5. ClientTypes'
    BY <2>1, Sets, Zenon DEF BridgeInv, Types, ClientTypes
  <2>6. Progress'
    <3>1. host # "exited" => Taken' = 0 /\ Len(to_host') = 1
      BY <2>1, <2>2, <2>3 DEF Taken, Early
    <3>2. host = "exited" => to_host' = <<>>
      BY <2>1, <2>2, Zenon
    <3> QED BY <2>1, <2>2, <3>1, <3>2, Zenon DEF Progress
  <2> QED BY <2>1, <2>3, <2>4, <2>5, <2>6, ClientTells, Zenon
<1> QED BY <1>1, <1>2, Zenon

\* The descriptors follow in order, and then the loop begins.
LEMMA SendDescriptorKeeps ==
  ASSUME BridgeInv, SendDescriptor
  PROVE  BridgeInv'
<1>1. CASE client' = "exited"
  <2>1. /\ UNCHANGED <<paths, host, hready, counted, descriptors, to_host, produced, unread,
                       uhid, asked, delivered, completed>>
        /\ to_client' = <<>> /\ cready' = {} /\ UNCHANGED sent
    BY <1>1, Zenon DEF SendDescriptor, Send, ClientEnds, hvars, tablet, kernel
  <2> QED BY <1>1, <2>1, ClientWaits, Zenon
<1>2. CASE client' # "exited"
  <2> DEFINE f == Frame("descriptor", sent + 1, 0, sent + 1)
  <2>1. /\ UNCHANGED <<paths, host, hready, counted, descriptors, produced, unread,
                       uhid, asked, delivered, completed, to_client, cready>>
        /\ client = "descriptors" /\ sent' = sent + 1
        /\ client' = IF sent' = paths THEN "poll" ELSE "descriptors"
        /\ to_host' = IF host = "exited" THEN to_host ELSE Append(to_host, f)
    BY <1>2, Zenon DEF SendDescriptor, Send, ClientEnds, hvars, tablet, kernel
  <2>2. /\ paths \in Nat /\ paths > 0 /\ sent \in Nat /\ sent < paths
        /\ host # "exited" => Taken + Len(to_host) = sent + 1
        /\ to_host \in Seq(ToHost) /\ Taken \in Nat /\ Taken' = Taken
        /\ host = "exited" => to_host = <<>>
    BY <2>1 DEF BridgeInv, Types, ClientTypes, HostTypes, Progress, Taken
  <2>a. sent + 1 \in Int /\ sent + 1 \in Payload /\ "descriptor" \in FrameTypes
    BY <2>2, Payloads DEF FrameTypes
  <2>b. f \in ToHost /\ f.type = "descriptor" /\ f.payload = sent + 1 /\ f.interface = sent + 1
    BY <2>a, Framed
  <2> HIDE DEF f
  <2>3. /\ f \in ToHost /\ f.type = "descriptor" /\ f.payload = sent + 1
        /\ f.interface = sent + 1 /\ Answers(f)
    BY <2>b, Zenon DEF Answers, Reply, Requests
  <2>4. host # "exited" => InPlace(f, Taken + Len(to_host) + 1)
    BY <2>2, <2>3 DEF InPlace
  <2>5. ClientTypes'
    BY <2>1, <2>2, Sets DEF BridgeInv, Types, ClientTypes
  <2>6. Progress'
    <3>1. host # "exited" => Taken' + Len(to_host') = sent' + 1
      BY <2>1, <2>2, <2>3
    <3>2. host = "exited" => to_host' = <<>>
      BY <2>1, <2>2, Zenon
    <3> QED BY <2>1, <2>2, <3>1, <3>2 DEF Progress
  <2> QED BY <2>1, <2>3, <2>4, <2>5, <2>6, ClientTells, Zenon
<1> QED BY <1>1, <1>2, Zenon

\* What the client sends after the handshake comes after it.
LEMMA SentLate ==
  ASSUME BridgeInv, client \in {"poll", "scan", "leave"}, host # "exited", NEW f,
         f.type \in {"input", "detach", "get_report_reply", "set_report_reply"}
  PROVE  InPlace(f, Taken + Len(to_host) + 1)
<1>1. /\ Taken + Len(to_host) >= paths + 1 /\ Taken \in Nat /\ Len(to_host) \in Nat
      /\ paths \in Nat /\ paths > 0
  BY DEF BridgeInv, Types, ClientTypes, HostTypes, Progress, Taken
<1> QED BY <1>1 DEF InPlace

\* A request of the host is answered on its own interface, with its own
\* transaction.
LEMMA ClientServeKeeps ==
  ASSUME BridgeInv, ClientServe
  PROVE  BridgeInv'
<1>0. /\ UNCHANGED <<paths, host, hready, counted, descriptors, produced, unread, uhid, asked,
                     delivered, completed, sent>>
      /\ client = "poll" /\ cready' \subseteq Interfaces
  BY Zenon DEF ClientServe, hvars, tablet, kernel
<1>1. CASE UNCHANGED <<to_client, to_host>> /\ client' \in {"leave", "scan"}
  BY <1>0, <1>1, ClientWaits, Zenon
<1>2. CASE /\ to_client # <<>> /\ to_client' = Tail(to_client) /\ UNCHANGED to_host
           /\ client' \in {"leave", "scan"}
  BY <1>0, <1>2, ClientWaits, Zenon
<1>3. CASE /\ to_client # <<>> /\ to_client' = Tail(to_client)
           /\ Head(to_client).type \in Requests
           /\ to_host' = IF host = "exited" THEN to_host
                         ELSE Append(to_host, Answer(Head(to_client)))
           /\ client' = "scan"
  <2>1. PICK h : h = Head(to_client)
    BY Zenon
  <2>2. to_client \in Seq(ToClient)
    BY Zenon DEF BridgeInv, Types, ClientTypes
  <2>3. h \in ToClient /\ to_client' \in Seq(ToClient)
    BY <1>3, <2>1, <2>2
  <2>4. /\ h.type \in Requests /\ h.interface \in Int /\ h.transaction \in Int
    BY <1>3, <2>1, <2>3 DEF ToClient, Interfaces, BridgeInv, Types, ClientTypes
  <2> DEFINE p == <<h.type, h.interface, h.transaction>>
             f == Frame(Reply(h.type), h.interface, h.transaction, p)
  <2>5. p \in Payload /\ Reply(h.type) \in FrameTypes
    <3>1. p \in Requests \X Int \X Int
      BY <2>4, Zenon
    <3>2. Reply(h.type) \in FrameTypes
      BY <2>4, Zenon DEF Reply, FrameTypes, Requests
    <3> QED BY <3>1, <3>2, Payloads, Zenon
  <2>6. /\ f \in ToHost /\ f.type = Reply(h.type) /\ f.interface = h.interface
        /\ f.transaction = h.transaction /\ f.payload = p
    BY <2>4, <2>5, Framed
  <2>7. /\ to_host' = IF host = "exited" THEN to_host ELSE Append(to_host, f)
    BY <1>3, <2>1, Zenon DEF Answer
  <2> HIDE DEF f
  <2>8. f.type \in {"get_report_reply", "set_report_reply"} /\ Answers(f)
    <3>1. \A r \in Requests : Reply(h.type) = Reply(r) => r = h.type
      BY <2>4 DEF Reply, Requests
    <3>2. f.type \in {"get_report_reply", "set_report_reply"}
      BY <2>4, <2>6, Zenon DEF Reply, Requests
    <3> QED BY <2>6, <3>1, <3>2, Zenon DEF Answers
  <2>9. host # "exited" => InPlace(f, Taken + Len(to_host) + 1)
    BY <1>0, <2>8, SentLate
  <2>10. ClientTypes'
    BY <1>0, <1>3, <2>3, Sets, Zenon DEF BridgeInv, Types, ClientTypes
  <2>11. Progress'
    <3>1. host # "exited" => Taken' + Len(to_host') >= paths + 1
      <4>1. /\ host # "exited" => Taken + Len(to_host) >= paths + 1
            /\ Taken \in Nat /\ Taken' = Taken /\ paths \in Nat /\ to_host \in Seq(ToHost)
        BY <1>0 DEF BridgeInv, Types, ClientTypes, HostTypes, Progress, Taken
      <4> QED BY <4>1, <2>6, <2>7
    <3>2. host = "exited" => to_host' = <<>>
      BY <2>7, Zenon DEF BridgeInv, Progress
    <3> QED BY <1>0, <1>3, <3>1, <3>2, Zenon DEF Progress
  <2>12. f.type # "input"
    BY <2>8, Zenon
  <2> QED BY <1>0, <2>6, <2>7, <2>8, <2>9, <2>10, <2>11, <2>12, ClientTells, Zenon
<1> QED BY <1>1, <1>2, <1>3, Zenon DEF ClientServe, Send

\* The client says that it leaves and ends.
LEMMA ClientLeaveKeeps ==
  ASSUME BridgeInv, ClientLeave
  PROVE  BridgeInv'
<1> DEFINE f == Frame("detach", 0, 0, 0)
<1>0. /\ UNCHANGED <<paths, host, hready, counted, descriptors, produced, unread, uhid, asked,
                     delivered, completed, sent>>
      /\ client = "leave" /\ client' = "exited" /\ to_client' = <<>> /\ cready' = {}
      /\ \/ UNCHANGED to_host
         \/ to_host' = IF host = "exited" THEN to_host ELSE Append(to_host, f)
  BY Zenon DEF ClientLeave, ClientEnds, Send, hvars, tablet, kernel
<1>1. CASE UNCHANGED to_host
  BY <1>0, <1>1, ClientWaits, Zenon
<1>2. CASE to_host' = IF host = "exited" THEN to_host ELSE Append(to_host, f)
  <2>1. f \in ToHost /\ f.type = "detach"
    BY Payloads, Framed DEF FrameTypes
  <2> HIDE DEF f
  <2>2. Answers(f) /\ f.type # "input"
    BY <2>1, Zenon DEF Answers, Reply, Requests
  <2>3. host # "exited" => InPlace(f, Taken + Len(to_host) + 1)
    BY <1>0, <2>1, SentLate
  <2>4. ClientTypes'
    <3>1. to_client' \in Seq(ToClient)
      BY <1>0
    <3> QED BY <1>0, <3>1, Sets, Zenon DEF BridgeInv, Types, ClientTypes
  <2>5. Progress'
    BY <1>0, <1>2, Zenon DEF BridgeInv, Progress
  <2> QED BY <1>0, <1>2, <2>1, <2>2, <2>3, <2>4, <2>5, ClientTells, ZenonT(60)
<1> QED BY <1>0, <1>1, <1>2, Zenon

\* One report of the first readable interface is sent, and is the newest of that
\* interface.
LEMMA ClientScanKeeps ==
  ASSUME BridgeInv, ClientScan
  PROVE  BridgeInv'
<1>0. /\ UNCHANGED <<paths, host, hready, counted, descriptors, produced, uhid, asked,
                     delivered, completed, sent, to_client>>
      /\ client = "scan"
  BY Zenon DEF ClientScan, hvars, kernel
<1>1. CASE cready = {}
  BY <1>0, <1>1, ClientWaits, Zenon DEF ClientScan
<1>2. CASE cready # {}
  <2> DEFINE least == Least(cready)
  <2>1. PICK i \in Interfaces : i = least /\ i \in cready
    <3>1. cready \subseteq Interfaces /\ cready \subseteq Nat
      BY DEF BridgeInv, Types, ClientTypes, Interfaces
    <3> QED BY <1>2, <3>1, LeastIsOne, Zenon
  <2>a. PICK p : p = <<i, ReadUpTo(i) + 1>>
    BY Zenon
  <2>b. PICK f : f = Frame("input", i, 0, p)
    BY Zenon
  <2>2. /\ to_host' = IF host = "exited" THEN to_host ELSE Append(to_host, f)
        /\ unread' = [unread EXCEPT ![i] = @ - 1] /\ client' = client
        /\ cready' \in {cready \ {i}, {}}
    BY <1>2, <2>1, <2>a, <2>b, Zenon
       DEF ClientScan, Send, InputFrame, ReadUpTo
  <2> HIDE DEF least
  <2>3. /\ i \in Nat /\ produced \in [Interfaces -> Int] /\ unread \in [Interfaces -> Int]
        /\ to_host \in Seq(ToHost) /\ paths \in Nat
    BY <2>1, SMTT(60)
       DEF BridgeInv, Types, ClientTypes, HostTypes, DeviceTypes, Interfaces
  <2>4. /\ ReadUpTo(i) \in Int /\ ReadUpTo(i)' = ReadUpTo(i) + 1
        /\ \A j \in Interfaces : j # i => ReadUpTo(j)' = ReadUpTo(j) /\ ReadUpTo(j) \in Int
    BY <1>0, <2>2, <2>3 DEF ReadUpTo
  <2>5. /\ f \in ToHost /\ f.type = "input" /\ f.interface = i /\ f.payload = p
        /\ p \in Int \X Int /\ p[1] = i /\ p[2] = ReadUpTo(i) + 1
    <3>1. p \in Int \X Int /\ p[1] = i /\ p[2] = ReadUpTo(i) + 1
      BY <2>3, <2>4, <2>a
    <3>2. p \in Payload
      BY <3>1, Payloads, Zenon
    <3>3. "input" \in FrameTypes /\ i \in Int /\ 0 \in Int
      BY <2>3 DEF FrameTypes
    <3> QED BY <2>b, <3>1, <3>2, <3>3, Framed
  <2>6. Types'
    <3>1. ClientTypes'
      BY <1>0, <2>2, Sets, Zenon DEF BridgeInv, Types, ClientTypes
    <3>2. HostTypes'
      <4>1. to_host' \in Seq(ToHost)
        BY <2>2, <2>3, <2>5
      <4> QED BY <1>0, <4>1, Zenon DEF BridgeInv, Types, HostTypes
    <3>3. DeviceTypes'
      <4>1. unread' \in [Interfaces -> Int]
        BY <2>2, <2>3
      <4> QED BY <1>0, <4>1, Sets, Zenon DEF BridgeInv, Types, DeviceTypes
    <3> QED BY <3>1, <3>2, <3>3, Zenon DEF Types
  <2>7. Progress'
    <3>1. host # "exited" => Taken' + Len(to_host') >= paths + 1
      <4>1. /\ host # "exited" => Taken + Len(to_host) >= paths + 1
            /\ Taken \in Nat /\ Taken' = Taken
        BY <1>0 DEF BridgeInv, Types, ClientTypes, HostTypes, Progress, Taken
      <4> QED BY <2>2, <2>3, <2>5, <4>1
    <3>2. host = "exited" => to_host' = <<>>
      BY <2>2, Zenon DEF BridgeInv, Progress
    <3> QED BY <1>0, <2>2, <3>1, <3>2, Zenon DEF Progress
  <2>8. \A j \in Interfaces : ReadUpTo(j) <= ReadUpTo(j)'
    BY <2>4
  <2>9. host # "exited" => InPlace(f, Taken + Len(to_host) + 1)
    BY <1>0, <2>5, SentLate
  <2>10. Newer(f)'
    <3>1. \A n \in DOMAIN delivered[i] : delivered[i][n][2] < p[2]
      <4> SUFFICES ASSUME NEW n \in DOMAIN delivered[i] PROVE delivered[i][n][2] < p[2]
        BY Zenon
      <4>1. delivered[i][n][2] <= ReadUpTo(i) /\ delivered[i][n][2] \in Int
        BY DEF BridgeInv, Arrived, Types, DeviceTypes
      <4> QED BY <2>4, <2>5, <4>1
    <3>2. p[2] <= ReadUpTo(i)'
      BY <2>4, <2>5
    <3> QED BY <1>0, <2>5, <3>1, <3>2, Sets DEF Newer
  <2>11. ASSUME NEW k \in DOMAIN to_host PROVE Precedes(to_host[k], f)
    <3> SUFFICES ASSUME to_host[k].type = "input", to_host[k].interface = i
                 PROVE  to_host[k].payload[2] < p[2]
      BY <2>5, Zenon DEF Precedes
    <3>1. to_host[k].payload[2] <= ReadUpTo(i) /\ to_host[k].payload[2] \in Int
      BY Zenon DEF BridgeInv, InFlight, Newer
    <3> QED BY <2>4, <2>5, <3>1
  <2>12. Answers(f)
    BY <2>5, Zenon DEF Answers, Reply, Requests
  <2> QED BY <1>0, <2>2, <2>5, <2>6, <2>7, <2>8, <2>9, <2>10, <2>11, <2>12, ClientSends,
            Zenon
<1> QED BY <1>1, <1>2, Zenon

\* The tablet makes a report: what was read so far is the same.
LEMMA ReportKeeps ==
  ASSUME BridgeInv, NEW i \in Interfaces, Report(i)
  PROVE  BridgeInv'
<1>0. /\ UNCHANGED <<paths, client, sent, cready, host, hready, counted, descriptors, to_host,
                     to_client, uhid, asked, delivered, completed>>
      /\ produced' = [produced EXCEPT ![i] = @ + 1] /\ unread' = [unread EXCEPT ![i] = @ + 1]
  BY Zenon DEF Report, cvars, hvars, net, kernel
<1>1. produced \in [Interfaces -> Int] /\ unread \in [Interfaces -> Int]
  BY Zenon DEF BridgeInv, Types, DeviceTypes
<1>2. \A j \in Interfaces : ReadUpTo(j)' = ReadUpTo(j)
  BY <1>0, <1>1 DEF ReadUpTo
<1>3. Types'
  <2>1. produced' \in [Interfaces -> Int] /\ unread' \in [Interfaces -> Int]
    BY <1>0, <1>1
  <2>2. ClientTypes'
    BY <1>0, Sets, Zenon DEF BridgeInv, Types, ClientTypes
  <2>3. HostTypes'
    BY <1>0, Sets, Zenon DEF BridgeInv, Types, HostTypes
  <2>4. DeviceTypes'
    BY <1>0, <2>1, Sets, Zenon DEF BridgeInv, Types, DeviceTypes
  <2> QED BY <2>2, <2>3, <2>4, Zenon DEF Types
<1>4. Progress'
  BY <1>0, Zenon DEF BridgeInv, Progress, Taken
<1> QED BY <1>0, <1>2, <1>3, <1>4, ClientMoves, Zenon

\* The host goes on without taking a frame.
LEMMA HostMoves ==
  ASSUME BridgeInv, Types', Recreated', Taken' = Taken,
         UNCHANGED <<paths, client, sent, to_host, produced, unread, delivered, completed>>,
         host # "exited" <=> host' # "exited", host \in Early => host' \in Early
  PROVE  BridgeInv'
<1>1. Sequence'
  BY Zenon DEF BridgeInv, Sequence, InPlace
<1>2. Progress'
  BY Zenon DEF BridgeInv, Progress, Early
<1>3. InFlight'
  BY Zenon DEF BridgeInv, InFlight, Newer, Interfaces, ReadUpTo
<1>4. Arrived'
  BY Zenon DEF BridgeInv, Arrived, Interfaces, ReadUpTo
<1>5. Answered'
  BY Zenon DEF BridgeInv, Answered, Intact, RepliesMatch
<1> QED BY <1>1, <1>2, <1>3, <1>4, <1>5, Zenon DEF BridgeInv

\* What is left after the first frame.
LEMMA Tailed ==
  ASSUME BridgeInv, to_host # <<>>
  PROVE  /\ Tail(to_host) \in Seq(ToHost) /\ Len(Tail(to_host)) = Len(to_host) - 1
         /\ Len(to_host) \in Nat /\ Head(to_host) = to_host[1] /\ 1 \in DOMAIN to_host
         /\ Head(to_host) \in ToHost
         /\ \A k \in DOMAIN Tail(to_host) :
              k \in Nat /\ k > 0 /\ k + 1 \in DOMAIN to_host /\ Tail(to_host)[k] = to_host[k + 1]
<1>1. to_host \in Seq(ToHost)
  BY Zenon DEF BridgeInv, Types, HostTypes
<1> QED BY <1>1

\* The host takes a frame: the rest continues the sequence.
LEMMA HostTakes ==
  ASSUME BridgeInv, to_host # <<>>, to_host' = Tail(to_host), Taken' \in Nat,
         UNCHANGED <<paths, client, sent>>,
         Taken' = Taken + 1 \/ (Taken = paths + 1 /\ Taken' = Taken),
         host' # "exited"
  PROVE  Sequence' /\ Progress' /\ Intact'
<1>0. Taken \in Nat /\ paths \in Nat /\ host # "exited" /\ sent \in Nat
  BY DEF BridgeInv, Types, ClientTypes, HostTypes, Taken, Progress
<1>1. Sequence'
  <2> SUFFICES ASSUME NEW k \in DOMAIN to_host' PROVE InPlace(to_host[k], Taken + k)'
    BY Zenon DEF Sequence
  <2>1. /\ k \in Nat /\ k > 0 /\ k + 1 \in DOMAIN to_host /\ to_host'[k] = to_host[k + 1]
    BY Tailed, Zenon
  <2>2. PICK g : g = to_host[k + 1]
    BY Zenon
  <2>3. InPlace(g, Taken + (k + 1))
    BY <2>1, <2>2, Zenon DEF BridgeInv, Sequence
  <2>4. PICK q \in Nat : q = Taken' + k
    BY <2>1
  <2>5. InPlace(g, q)
    <3>1. CASE Taken' = Taken + 1
      <4>1. Taken + (k + 1) = q
        BY <1>0, <2>1, <2>4, <3>1
      <4> QED BY <2>3, <4>1, Zenon
    <3>2. CASE Taken = paths + 1 /\ Taken' = Taken
      <4>1. Taken + (k + 1) > paths + 1 /\ q > paths + 1 /\ q # 1
        BY <1>0, <2>1, <2>4, <3>2
      <4> QED BY <1>0, <2>3, <4>1 DEF InPlace
    <3> QED BY <3>1, <3>2, Zenon
  <2> QED BY <2>1, <2>2, <2>4, <2>5, Zenon DEF InPlace
<1>2. Progress'
  <2>1. Len(to_host') = Len(to_host) - 1 /\ Len(to_host) \in Nat /\ Len(to_host) > 0
    BY Tailed
  <2>2. client \notin {"open", "grab", "connect", "device"}
    BY Zenon DEF BridgeInv, Progress
  <2>3. client = "descriptors" => sent < paths /\ Taken' + Len(to_host') = sent + 1
    BY <1>0, <2>1 DEF BridgeInv, Progress
  <2>4. client \in {"poll", "scan", "leave"} => Taken' + Len(to_host') >= paths + 1
    <3> SUFFICES ASSUME client \in {"poll", "scan", "leave"}
                 PROVE  Taken' + Len(to_host') >= paths + 1
      BY Zenon
    <3>1. Taken + Len(to_host) >= paths + 1
      BY <1>0, Zenon DEF BridgeInv, Progress
    <3> QED BY <1>0, <2>1, <3>1
  <2> QED BY <2>2, <2>3, <2>4, Zenon DEF Progress
<1>3. Intact'
  <2> SUFFICES ASSUME NEW k \in DOMAIN to_host' PROVE Answers(to_host'[k])
    BY Zenon DEF Intact
  <2>1. k + 1 \in DOMAIN to_host /\ to_host'[k] = to_host[k + 1]
    BY Tailed, Zenon
  <2> QED BY <2>1, Zenon DEF BridgeInv, Answered, Intact
<1> QED BY <1>1, <1>2, <1>3, Zenon

\* Nothing of the frame it took was input.
LEMMA TakenUnseen ==
  ASSUME BridgeInv, to_host # <<>>, to_host' = Tail(to_host),
         UNCHANGED <<paths, produced, unread, delivered>>
  PROVE  InFlight' /\ Arrived'
<1>1. ASSUME NEW k \in DOMAIN to_host' PROVE Newer(to_host[k])'
  <2>1. PICK g : g = to_host[k + 1]
    BY Zenon
  <2>2. Newer(g) /\ to_host'[k] = g
    BY <2>1, Tailed, Zenon DEF BridgeInv, InFlight
  <2>3. Newer(g)'
    BY <2>2, Zenon DEF Newer, Interfaces, ReadUpTo
  <2> QED BY <2>2, <2>3, Zenon DEF Newer
<1>2. ASSUME NEW j \in DOMAIN to_host', NEW k \in DOMAIN to_host', j < k
      PROVE  Precedes(to_host[j], to_host[k])'
  <2>1. /\ j \in Nat /\ k \in Nat /\ j + 1 \in DOMAIN to_host /\ k + 1 \in DOMAIN to_host
        /\ to_host'[j] = to_host[j + 1] /\ to_host'[k] = to_host[k + 1]
    BY Tailed, Zenon
  <2>2. j + 1 < k + 1
    BY <1>2, <2>1
  <2> QED BY <2>1, <2>2, Zenon DEF BridgeInv, InFlight, Precedes
<1>3. Arrived'
  BY Zenon DEF BridgeInv, Arrived, Interfaces, ReadUpTo
<1> QED BY <1>1, <1>2, <1>3, Zenon DEF InFlight

\* An input frame reaches its endpoint.
LEMMA TakenDelivered ==
  ASSUME BridgeInv, to_host # <<>>, to_host' = Tail(to_host), NEW h, h = Head(to_host),
         h.type = "input", delivered' = [delivered EXCEPT ![h.interface] = Append(@, h.payload)],
         UNCHANGED <<paths, produced, unread>>
  PROVE  /\ InFlight' /\ Arrived' /\ delivered' \in [Interfaces -> Seq(Int \X Int)]
<1>0. delivered \in [Interfaces -> Seq(Int \X Int)]
  BY Zenon DEF BridgeInv, Types, DeviceTypes
<1>1. h = to_host[1] /\ 1 \in DOMAIN to_host
  BY Tailed, Zenon
<1>2. PICK i \in Interfaces :
        /\ i = h.interface /\ h.payload \in Int \X Int /\ h.payload[1] = i
        /\ h.payload[2] <= ReadUpTo(i)
        /\ \A n \in DOMAIN delivered[i] : delivered[i][n][2] < h.payload[2]
  BY <1>1, ZenonT(60) DEF BridgeInv, InFlight, Newer
<1>3. /\ delivered' \in [Interfaces -> Seq(Int \X Int)]
      /\ delivered'[i] = Append(delivered[i], h.payload)
      /\ \A j \in Interfaces : j # i => delivered'[j] = delivered[j]
  <2>1. delivered[i] \in Seq(Int \X Int) /\ h.payload \in Int \X Int
    BY <1>0, <1>2, Zenon
  <2>2. Append(delivered[i], h.payload) \in Seq(Int \X Int)
    BY <2>1, SMTT(60)
  <2> QED BY <1>0, <1>2, <2>2, Zenon
<1>4. /\ DOMAIN delivered'[i] = 1 .. Len(delivered[i]) + 1 /\ Len(delivered[i]) \in Nat
      /\ DOMAIN delivered[i] = 1 .. Len(delivered[i])
      /\ \A n \in 1 .. Len(delivered[i]) :
           delivered'[i][n] = delivered[i][n] /\ delivered[i][n] \in Int \X Int
      /\ delivered'[i][Len(delivered[i]) + 1] = h.payload
  <2>1. delivered[i] \in Seq(Int \X Int) /\ h.payload \in Int \X Int
    BY <1>0, <1>2, Zenon
  <2> QED BY <1>3, <2>1, SMTT(60)
<1>5. \A j \in Interfaces : ReadUpTo(j)' = ReadUpTo(j)
  BY Zenon DEF ReadUpTo
<1>6. ASSUME NEW k \in DOMAIN to_host' PROVE Newer(to_host[k])'
  <2>0. /\ k \in Nat /\ k > 0 /\ k + 1 \in DOMAIN to_host /\ to_host'[k] = to_host[k + 1]
    BY Tailed, Zenon
  <2>1. PICK g : g = to_host[k + 1]
    BY Zenon
  <2> SUFFICES ASSUME g.type = "input" PROVE Newer(g)'
    BY <2>0, <2>1, Zenon DEF Newer
  <2>2. PICK j \in Interfaces :
          /\ j = g.interface /\ g.payload \in Int \X Int /\ g.payload[1] = j
          /\ g.payload[2] <= ReadUpTo(j)
          /\ \A n \in DOMAIN delivered[j] : delivered[j][n][2] < g.payload[2]
    BY <2>0, <2>1, Zenon DEF BridgeInv, InFlight, Newer
  <2>3. CASE j # i
    BY <1>3, <1>5, <2>2, <2>3, Sets, SMTT(60) DEF Newer
  <2>4. CASE j = i
    <3>1. Precedes(h, g)
      BY <1>1, <2>0, <2>1 DEF BridgeInv, InFlight
    <3>2. h.payload[2] < g.payload[2]
      BY <1>2, <2>2, <2>4, <3>1, ZenonT(60) DEF Precedes
    <3>3. \A n \in DOMAIN delivered'[i] : delivered'[i][n][2] < g.payload[2]
      BY <1>4, <2>2, <2>4, <3>2, SMTT(60)
    <3> QED BY <1>5, <2>2, <2>4, <3>3, Sets DEF Newer
  <2> QED BY <2>3, <2>4, Zenon
<1>7. ASSUME NEW j \in DOMAIN to_host', NEW k \in DOMAIN to_host', j < k
      PROVE  Precedes(to_host[j], to_host[k])'
  <2>1. /\ j \in Nat /\ k \in Nat /\ j + 1 \in DOMAIN to_host /\ k + 1 \in DOMAIN to_host
        /\ to_host'[j] = to_host[j + 1] /\ to_host'[k] = to_host[k + 1]
    BY Tailed, Zenon
  <2>2. j + 1 < k + 1
    BY <1>7, <2>1
  <2> QED BY <2>1, <2>2, Zenon DEF BridgeInv, InFlight, Precedes
<1>8. Arrived'
  <2> SUFFICES ASSUME NEW j \in Interfaces
               PROVE  /\ \A n \in DOMAIN delivered'[j] :
                           delivered'[j][n][1] = j /\ delivered'[j][n][2] <= ReadUpTo(j)
                      /\ \A m, n \in DOMAIN delivered'[j] :
                           m < n => delivered'[j][m][2] < delivered'[j][n][2]
    BY <1>5, Sets, SMTT(60) DEF Arrived
  <2>0. /\ \A n \in DOMAIN delivered[j] :
             delivered[j][n][1] = j /\ delivered[j][n][2] <= ReadUpTo(j)
        /\ \A m, n \in DOMAIN delivered[j] :
             m < n => delivered[j][m][2] < delivered[j][n][2]
    BY Zenon DEF BridgeInv, Arrived
  <2>1. CASE j # i
    BY <1>3, <2>0, <2>1, Zenon
  <2>2. CASE j = i
    <3>0. PICK d, e, p, N : /\ d = delivered[i] /\ e = delivered'[i] /\ p = h.payload
                            /\ N = Len(delivered[i])
      BY Zenon
    <3>a. /\ N \in Nat /\ DOMAIN e = 1 .. N + 1 /\ e[N + 1] = p /\ p[1] = i /\ p[2] \in Int
          /\ \A n \in 1 .. N : e[n] = d[n] /\ d[n][2] \in Int
      BY <1>2, <1>4, <3>0, Zenon
    <3>b. /\ \A n \in 1 .. N : d[n][1] = i /\ d[n][2] <= ReadUpTo(i) /\ d[n][2] < p[2]
          /\ \A m, n \in 1 .. N : m < n => d[m][2] < d[n][2]
          /\ p[2] <= ReadUpTo(i)
      BY <1>2, <1>4, <2>0, <2>2, <3>0, ZenonT(60)
    <3>1. \A n \in DOMAIN e : e[n][1] = i /\ e[n][2] <= ReadUpTo(i)
      BY <3>a, <3>b, SMTT(60)
    <3>2. \A m, n \in DOMAIN e : m < n => e[m][2] < e[n][2]
      BY <3>a, <3>b
    <3> QED BY <2>2, <3>0, <3>1, <3>2, Zenon
  <2> QED BY <2>1, <2>2, ZenonT(60)
<1> QED BY <1>3, <1>6, <1>7, <1>8, Zenon DEF InFlight

\* The variables of the client and of the tablet keep their types.
LEMMA Untouched ==
  ASSUME BridgeInv, UNCHANGED <<paths, client, sent, cready, produced, unread>>
  PROVE  /\ to_client' \in Seq(ToClient) => ClientTypes'
         /\ /\ asked' \in [Interfaces -> Int] /\ delivered' \in [Interfaces -> Seq(Int \X Int)]
            /\ uhid' \in Seq(Endpoint)
            /\ hready' \subseteq {n \in DOMAIN uhid' : uhid'[n].events # <<>>}
            => DeviceTypes'
<1>1. Interfaces' = Interfaces /\ ToClient' = ToClient /\ Endpoint' = Endpoint
  BY Sets, Zenon
<1>2. to_client' \in Seq(ToClient) => ClientTypes'
  BY <1>1, Zenon DEF BridgeInv, Types, ClientTypes
<1> QED BY <1>1, <1>2, Zenon DEF BridgeInv, Types, DeviceTypes

\* The host listens and accepts, or ends.
LEMMA HostOpensKeeps ==
  ASSUME BridgeInv, HostListen \/ HostAccept
  PROVE  BridgeInv'
<1>0. UNCHANGED <<paths, cvars, counted, descriptors, to_client, tablet, asked, delivered,
                  completed>>
  BY Zenon DEF HostListen, HostAccept
<1>1. CASE HostEnds
  BY <1>0, <1>1, HostGoes, Zenon DEF BridgeInv, Types, HostTypes
<1>2. CASE host \in {"listen", "accept"} /\ host' \in {"accept", "device"}
           /\ UNCHANGED <<to_host, hready, uhid>>
  <2>0. UNCHANGED <<client, sent, cready, produced, unread>>
    BY <1>0, Zenon DEF cvars, tablet
  <2>1. HostTypes'
    BY <1>0, <1>2, Zenon DEF BridgeInv, Types, HostTypes
  <2>2. ClientTypes' /\ DeviceTypes'
    BY <1>0, <1>2, <2>0, Untouched, Zenon
       DEF BridgeInv, Types, ClientTypes, DeviceTypes
  <2>3. Recreated'
    BY <1>0, <1>2, Zenon DEF BridgeInv, Recreated, Early, Late
  <2>4. Taken' = Taken
    BY <1>2, Zenon DEF Taken, Early
  <2> QED BY <1>0, <1>2, <2>0, <2>1, <2>2, <2>3, <2>4, HostMoves, Zenon DEF Types, Early
<1> QED BY <1>1, <1>2, Zenon DEF HostListen, HostAccept

\* The host takes the number of interfaces: it is the client's, because it was
\* sent first.
LEMMA ReceiveDeviceKeeps ==
  ASSUME BridgeInv, ReceiveDevice
  PROVE  BridgeInv'
<1>0. /\ UNCHANGED <<paths, cvars, counted, to_client, tablet, asked, delivered, completed>>
      /\ UNCHANGED <<client, sent, cready, produced, unread>> /\ host = "device"
  BY Zenon DEF ReceiveDevice, cvars, tablet
<1>1. CASE HostEnds /\ UNCHANGED descriptors
  BY <1>0, <1>1, HostGoes, Zenon DEF BridgeInv, Types, HostTypes
<1>2. CASE /\ to_host # <<>> /\ host' = "descriptors" /\ to_host' = Tail(to_host)
           /\ descriptors' = [i \in 1 .. Head(to_host).payload |-> 0]
           /\ UNCHANGED <<hready, uhid>>
  <2>1. paths \in Nat /\ paths > 0 /\ counted = 0 /\ uhid = <<>>
    BY <1>0, Zenon DEF BridgeInv, Types, ClientTypes, Recreated, Early, Late
  <2>2. Head(to_host).payload = paths
    <3>1. InPlace(to_host[1], 0 + 1)
      BY <1>0, <1>2, Tailed, Zenon DEF BridgeInv, Sequence, Taken, Early
    <3> QED BY <1>2, <3>1, Tailed DEF InPlace
  <2>3. descriptors' \in Seq(Int) /\ Len(descriptors') = paths
    BY <1>2, <2>1, <2>2
  <2>4. HostTypes'
    BY <1>0, <1>2, <2>3, Tailed, Zenon DEF BridgeInv, Types, HostTypes
  <2>5. ClientTypes' /\ DeviceTypes'
    BY <1>0, <1>2, Untouched, Zenon DEF BridgeInv, Types, ClientTypes, DeviceTypes
  <2>6. Recreated'
    <3>1. \A n \in 1 .. counted' : descriptors'[n] = n
      BY <1>0, <2>1
    <3>2. uhid' = <<>> /\ host' = "descriptors" /\ counted' < paths' /\ Len(descriptors') = paths'
      BY <1>0, <1>2, <2>1, <2>3, Zenon
    <3> QED BY <3>1, <3>2 DEF Recreated, Early, Late
  <2>7. Taken' = Taken + 1 /\ Taken' \in Nat
    BY <1>0, <1>2, <2>1 DEF Taken, Early
  <2>x. /\ host' # "exited" /\ UNCHANGED <<paths, client, sent>> /\ to_host # <<>>
        /\ to_host' = Tail(to_host)
    BY <1>0, <1>2, Zenon
  <2>8. Sequence' /\ Progress' /\ Intact'
    BY <2>7, <2>x, HostTakes, Zenon
  <2>9. InFlight' /\ Arrived'
    BY <1>0, <1>2, TakenUnseen, Zenon
  <2>10. Answered'
    BY <1>0, <2>8, Zenon DEF BridgeInv, Answered, Intact, RepliesMatch
  <2> QED BY <2>4, <2>5, <2>6, <2>8, <2>9, <2>10, Zenon DEF BridgeInv, Types
<1> QED BY <1>1, <1>2, Zenon DEF ReceiveDevice

\* The host takes a descriptor: it is the next interface's.
LEMMA ReceiveDescriptorKeeps ==
  ASSUME BridgeInv, ReceiveDescriptor
  PROVE  BridgeInv'
<1>0. /\ UNCHANGED <<paths, cvars, to_client, tablet, asked, delivered, completed>>
      /\ UNCHANGED <<client, sent, cready, produced, unread>> /\ host = "descriptors"
  BY Zenon DEF ReceiveDescriptor, cvars, tablet
<1>1. CASE HostEnds /\ UNCHANGED <<descriptors, counted>>
  BY <1>0, <1>1, HostGoes, Zenon DEF BridgeInv, Types, HostTypes
<1>2. CASE /\ to_host # <<>>
           /\ descriptors' = [descriptors EXCEPT
                                ![Head(to_host).interface] = Head(to_host).payload]
           /\ to_host' = Tail(to_host) /\ counted' = counted + 1
           /\ host' = IF counted' = Len(descriptors) THEN "create" ELSE "descriptors"
           /\ UNCHANGED <<hready, uhid>>
  <2>1. /\ paths \in Nat /\ paths > 0 /\ counted \in Nat /\ uhid = <<>> /\ counted < paths
        /\ Len(descriptors) = paths /\ descriptors \in Seq(Int)
        /\ \A n \in 1 .. counted : descriptors[n] = n
    BY <1>0, Zenon DEF BridgeInv, Types, ClientTypes, HostTypes, Recreated, Early, Late
  <2>2. Head(to_host).interface = counted + 1 /\ Head(to_host).payload = counted + 1
    <3>1. InPlace(to_host[1], counted + 1 + 1)
      BY <1>0, <1>2, Tailed, Zenon DEF BridgeInv, Sequence, Taken, Early
    <3>2. 1 < counted + 1 + 1 /\ counted + 1 + 1 <= paths + 1 /\ counted + 1 + 1 - 1 = counted + 1
      BY <2>1
    <3> QED BY <1>2, <3>1, <3>2, Tailed DEF InPlace
  <2>3. /\ descriptors' \in Seq(Int) /\ Len(descriptors') = paths
        /\ \A n \in 1 .. counted + 1 : descriptors'[n] = n
    BY <1>2, <2>1, <2>2
  <2>4. HostTypes'
    BY <1>0, <1>2, <2>1, <2>3, Tailed DEF BridgeInv, Types, HostTypes
  <2>5. ClientTypes' /\ DeviceTypes'
    BY <1>0, <1>2, Untouched, Zenon
       DEF BridgeInv, Types, ClientTypes, DeviceTypes
  <2>6. Recreated'
    BY <1>0, <1>2, <2>1, <2>3 DEF Recreated, Early, Late, Interfaces
  <2>7. Taken' = Taken + 1 /\ Taken' \in Nat
    BY <1>0, <1>2, <2>1 DEF Taken, Early
  <2>x. /\ host' # "exited" /\ UNCHANGED <<paths, client, sent>> /\ to_host # <<>>
        /\ to_host' = Tail(to_host)
    BY <1>0, <1>2, Zenon
  <2>8. Sequence' /\ Progress' /\ Intact'
    BY <2>7, <2>x, HostTakes, Zenon
  <2>9. InFlight' /\ Arrived'
    BY <1>0, <1>2, TakenUnseen, Zenon
  <2>10. Answered'
    BY <1>0, <2>8, Zenon DEF BridgeInv, Answered, Intact, RepliesMatch
  <2> QED BY <2>4, <2>5, <2>6, <2>8, <2>9, <2>10, Zenon DEF BridgeInv, Types
<1> QED BY <1>1, <1>2, Zenon DEF ReceiveDescriptor

\* UHID_CREATE2 for the next interface, with its own descriptor.
LEMMA CreateEndpointKeeps ==
  ASSUME BridgeInv, CreateEndpoint
  PROVE  BridgeInv'
<1>0. /\ UNCHANGED <<paths, cvars, counted, descriptors, to_client, tablet, asked, delivered,
                     completed>>
      /\ UNCHANGED <<client, sent, cready, produced, unread>> /\ host = "create"
  BY Zenon DEF CreateEndpoint, cvars, tablet
<1>1. CASE HostEnds
  BY <1>0, <1>1, HostGoes, Zenon DEF BridgeInv, Types, HostTypes
<1>2. CASE ~HostEnds
  <2>0. PICK i : i = Len(uhid) + 1
    BY Zenon
  <2>a. PICK e : e = Frame("start", i, 0, 0)
    BY Zenon
  <2>b. PICK d : d = [descriptor |-> descriptors[i], waiting |-> "none", id |-> 0, events |-> <<e>>]
    BY Zenon
  <2>1. /\ uhid' = Append(uhid, d) /\ host' = IF i = Len(descriptors) THEN "poll" ELSE "create"
        /\ UNCHANGED <<to_host, hready>>
    BY <1>2, <2>0, <2>a, <2>b, Zenon DEF CreateEndpoint
  <2>2. /\ paths \in Nat /\ paths > 0 /\ Len(uhid) < paths /\ uhid \in Seq(Endpoint)
        /\ Len(descriptors) = paths /\ \A n \in Interfaces : descriptors[n] = n
        /\ \A n \in DOMAIN uhid : uhid[n].descriptor = n
    BY <1>0, Zenon DEF BridgeInv, Types, ClientTypes, DeviceTypes, Recreated, Early, Late
  <2>3. i \in Interfaces /\ i \in Nat /\ descriptors[i] = i /\ i <= paths
    BY <2>0, <2>2 DEF Interfaces
  <2>4. d \in Endpoint /\ d.descriptor = i
    <3>1. e \in Event
      BY <2>3, <2>a DEF Event, Frame
    <3>2. <<e>> \in Seq(Event)
      BY <3>1
    <3> QED BY <2>3, <2>b, <3>2 DEF Endpoint
  <2>5. /\ uhid' \in Seq(Endpoint) /\ Len(uhid') = i /\ DOMAIN uhid' = 1 .. i
        /\ DOMAIN uhid = 1 .. Len(uhid)
        /\ \A n \in DOMAIN uhid : n \in DOMAIN uhid' /\ uhid'[n] = uhid[n]
        /\ uhid'[i] = d
    BY <2>0, <2>1, <2>2, <2>4
  <2>6. \A n \in DOMAIN uhid' : uhid'[n].descriptor = n
    BY <2>0, <2>2, <2>3, <2>4, <2>5
  <2>7. hready' \subseteq {n \in DOMAIN uhid' : uhid'[n].events # <<>>}
    BY <2>1, <2>5, Zenon DEF BridgeInv, Types, DeviceTypes
  <2>8. HostTypes'
    BY <1>0, <2>1, Zenon DEF BridgeInv, Types, HostTypes
  <2>9. ClientTypes' /\ DeviceTypes'
    BY <1>0, <2>5, <2>7, Untouched, ZenonT(60)
       DEF BridgeInv, Types, ClientTypes, DeviceTypes
  <2>10. Recreated'
    <3>1. Interfaces' = Interfaces
      BY <1>0, Sets, Zenon
    <3> QED BY <1>0, <2>1, <2>2, <2>3, <2>5, <2>6, <3>1 DEF Recreated, Early, Late
  <2>11. Taken' = Taken /\ host' # "exited" /\ host # "exited" /\ host \notin Early
    BY <1>0, <2>1, Zenon DEF Taken, Early
  <2> QED BY <1>0, <2>1, <2>8, <2>9, <2>10, <2>11, HostMoves, Zenon DEF Types
<1> QED BY <1>1, <1>2, Zenon

\* The host leaves or is killed.
LEMMA HostEndsKeeps ==
  ASSUME BridgeInv, HostLeave \/ HostDies
  PROVE  BridgeInv'
BY HostGoes, Zenon DEF HostLeave, HostDies, BridgeInv, Types, HostTypes

\* A step of the host, or of its kernel, that takes no frame.
LEMMA HostLoops ==
  ASSUME BridgeInv, host \in Late, host' \in Late, host' = "create" <=> host = "create",
         UNCHANGED <<paths, client, sent, cready, counted, descriptors, to_host, produced, unread,
                     delivered, completed>>,
         asked' \in [Interfaces -> Int], uhid' \in Seq(Endpoint), Len(uhid') = Len(uhid),
         \A n \in DOMAIN uhid : uhid'[n].descriptor = uhid[n].descriptor,
         hready' \subseteq {n \in DOMAIN uhid' : uhid'[n].events # <<>>},
         to_client' \in Seq(ToClient)
  PROVE  BridgeInv'
<1>1. ClientTypes' /\ DeviceTypes'
  BY Untouched, Zenon DEF BridgeInv, Types, DeviceTypes
<1>2. HostTypes'
  BY Zenon DEF BridgeInv, Types, HostTypes, Late
<1>3. Recreated'
  <2>0. uhid \in Seq(Endpoint)
    BY Zenon DEF BridgeInv, Types, DeviceTypes
  <2>1. DOMAIN uhid' = DOMAIN uhid /\ Interfaces' = Interfaces
    <3>1. DOMAIN uhid' = 1 .. Len(uhid') /\ DOMAIN uhid = 1 .. Len(uhid)
      BY <2>0
    <3> QED BY <3>1, Sets, Zenon
  <2> QED BY <2>1, Zenon DEF BridgeInv, Recreated, Early, Late
<1>4. Taken' = Taken /\ host' # "exited" /\ host # "exited" /\ host \notin Early
  BY Zenon DEF Taken, Early, Late
<1> QED BY <1>1, <1>2, <1>3, <1>4, HostMoves, Zenon DEF Types

\* An endpoint is an interface's, and what the host has when it has one.
LEMMA Endpoints ==
  ASSUME BridgeInv
  PROVE  /\ uhid \in Seq(Endpoint) /\ DOMAIN uhid \subseteq Interfaces
         /\ DOMAIN uhid = 1 .. Len(uhid) /\ uhid # <<>> => host \in Late
         /\ \A i \in DOMAIN uhid :
              /\ uhid[i] \in Endpoint /\ uhid[i].descriptor \in Int /\ uhid[i].id \in Int
              /\ uhid[i].waiting \in Requests \union {"none"} /\ uhid[i].events \in Seq(Event)
              /\ uhid[i] = [descriptor |-> uhid[i].descriptor, waiting |-> uhid[i].waiting,
                            id |-> uhid[i].id, events |-> uhid[i].events]
<1>1. uhid \in Seq(Endpoint) /\ Len(uhid) \in Nat /\ paths \in Nat
  BY DEF BridgeInv, Types, ClientTypes, DeviceTypes
<1>2. uhid # <<>> => host \in Late
  BY Zenon DEF BridgeInv, Recreated
<1>3. Len(uhid) <= paths
  <2>1. CASE uhid = <<>>
    BY <1>1, <2>1
  <2>2. CASE uhid # <<>>
    BY <1>1, <1>2, <2>2 DEF BridgeInv, Recreated, Late
  <2> QED BY <2>1, <2>2, Zenon
<1>4. DOMAIN uhid \subseteq Interfaces /\ DOMAIN uhid = 1 .. Len(uhid)
  BY <1>1, <1>3 DEF Interfaces
<1>5. ASSUME NEW i \in DOMAIN uhid
      PROVE  /\ uhid[i] \in Endpoint /\ uhid[i].descriptor \in Int /\ uhid[i].id \in Int
             /\ uhid[i].waiting \in Requests \union {"none"} /\ uhid[i].events \in Seq(Event)
             /\ uhid[i] = [descriptor |-> uhid[i].descriptor, waiting |-> uhid[i].waiting,
                           id |-> uhid[i].id, events |-> uhid[i].events]
  <2>1. uhid[i] \in Endpoint
    BY <1>1
  <2> QED BY <2>1, Zenon DEF Endpoint
<1> QED BY <1>1, <1>2, <1>4, <1>5, Zenon

\* One endpoint changes, and keeps its descriptor.
LEMMA Replaced ==
  ASSUME BridgeInv, NEW i \in DOMAIN uhid, NEW e \in Endpoint,
         e.descriptor = uhid[i].descriptor, uhid' = [uhid EXCEPT ![i] = e]
  PROVE  /\ uhid' \in Seq(Endpoint) /\ Len(uhid') = Len(uhid) /\ DOMAIN uhid' = DOMAIN uhid
         /\ uhid'[i] = e /\ \A n \in DOMAIN uhid : n # i => uhid'[n] = uhid[n]
         /\ \A n \in DOMAIN uhid : uhid'[n].descriptor = uhid[n].descriptor
BY Endpoints

\* The host has an endpoint only once it has every descriptor.
LEMMA WhenCreated ==
  ASSUME BridgeInv, NEW i \in DOMAIN uhid
  PROVE  host \in Late
<1>1. uhid # <<>>
  OBVIOUS
<1> QED BY <1>1, Zenon DEF BridgeInv, Recreated

\* The kernel gives a request up.
LEMMA TimeoutKeeps ==
  ASSUME BridgeInv, NEW i \in DOMAIN uhid, Timeout(i)
  PROVE  BridgeInv'
<1>0. UNCHANGED <<paths, client, sent, cready, counted, descriptors, to_host, produced, unread,
                  delivered, completed, host, hready, to_client, asked>>
  BY Zenon DEF Timeout, cvars, hvars, net, tablet
<1>1. PICK e : e = [uhid[i] EXCEPT !.waiting = "none"]
  BY Zenon
<1>2. e \in Endpoint /\ e.descriptor = uhid[i].descriptor /\ e.events = uhid[i].events
  BY <1>1, Endpoints, Zenon DEF Endpoint
<1>3. uhid' = [uhid EXCEPT ![i] = e]
  BY <1>1, Zenon DEF Timeout
<1>4. /\ uhid' \in Seq(Endpoint) /\ Len(uhid') = Len(uhid) /\ DOMAIN uhid' = DOMAIN uhid
      /\ uhid'[i] = e /\ \A n \in DOMAIN uhid : n # i => uhid'[n] = uhid[n]
      /\ \A n \in DOMAIN uhid : uhid'[n].descriptor = uhid[n].descriptor
  BY <1>2, <1>3, Replaced, Zenon
<1>5. hready' \subseteq {n \in DOMAIN uhid' : uhid'[n].events # <<>>}
  BY <1>0, <1>2, <1>4, Zenon DEF BridgeInv, Types, DeviceTypes
<1>6. /\ asked' \in [Interfaces -> Int] /\ to_client' \in Seq(ToClient)
  BY <1>0, Zenon DEF BridgeInv, Types, DeviceTypes, ClientTypes
<1>7. host \in Late /\ host' \in Late /\ (host' = "create" <=> host = "create")
  BY <1>0, WhenCreated, Zenon
<1> QED BY <1>0, <1>4, <1>5, <1>6, <1>7, HostLoops, Zenon

\* A program on the host uses an endpoint.
LEMMA AskKeeps ==
  ASSUME BridgeInv, NEW i \in DOMAIN uhid, NEW type \in Requests \union {"output"},
         Ask(i, type)
  PROVE  BridgeInv'
<1>0. UNCHANGED <<paths, client, sent, cready, counted, descriptors, to_host, produced, unread,
                  delivered, completed, host, hready, to_client>>
  BY Zenon DEF Ask, cvars, hvars, net, tablet
<1>1. PICK n \in Int : n = asked'[i] /\ asked' \in [Interfaces -> Int] /\ i \in Interfaces
  <2>1. asked \in [Interfaces -> Int] /\ i \in Interfaces
    BY Endpoints, Zenon DEF BridgeInv, Types, DeviceTypes
  <2>2. asked' = [asked EXCEPT ![i] = @ + 1]
    BY Zenon DEF Ask
  <2> QED BY <2>1, <2>2
<1>2. PICK q : q = IF type \in Requests THEN Frame(type, i, n, 0) ELSE Frame(type, i, 0, 0)
  BY Zenon
<1>3. q \in Event
  <2>1. CASE type \in Requests
    BY <1>1, <1>2, <2>1, Zenon DEF Event, Frame
  <2>2. CASE type \notin Requests
    BY <1>1, <1>2, <2>2 DEF Event, Frame
  <2> QED BY <2>1, <2>2, Zenon
<1>a. PICK u \in Seq(Event) : u = uhid[i].events
  BY Endpoints, Zenon
<1>4. PICK s \in Seq(Event) : s = Append(u, q) /\ s # <<>>
  <2>1. Append(u, q) \in Seq(Event) /\ Len(Append(u, q)) = Len(u) + 1 /\ Len(u) \in Nat
    BY <1>3
  <2>2. Append(u, q) # <<>>
    BY <2>1
  <2> QED BY <2>1, <2>2, Zenon
<1>b. PICK d, w, m : /\ d = uhid[i].descriptor /\ w = uhid[i].waiting /\ m = uhid[i].id
                     /\ uhid[i] = [descriptor |-> d, waiting |-> w, id |-> m, events |-> u]
  BY <1>a, Endpoints, Zenon
<1>5. PICK e : e = IF type \in Requests
                   THEN [descriptor |-> d, waiting |-> type, id |-> n, events |-> s]
                   ELSE [descriptor |-> d, waiting |-> w, id |-> m, events |-> s]
  BY Zenon
<1>6. e \in Endpoint /\ e.descriptor = uhid[i].descriptor /\ e.events = s
  BY <1>1, <1>4, <1>5, <1>b, Endpoints, Zenon DEF Endpoint
<1>7. uhid' = [uhid EXCEPT ![i] = e]
  <2>1. CASE type \in Requests
    <3>1. uhid' = [uhid EXCEPT ![i].waiting = type, ![i].id = n,
                               ![i].events = Append(@, Frame(type, i, n, 0))]
      BY <1>1, <2>1, Zenon DEF Ask
    <3>2. e = [[[uhid[i] EXCEPT !.waiting = type] EXCEPT !.id = n] EXCEPT !.events = s]
      <4>1. [uhid[i] EXCEPT !.waiting = type] =
              [descriptor |-> d, waiting |-> type, id |-> m, events |-> u]
        BY <1>b
      <4>2. PICK a : a = [uhid[i] EXCEPT !.waiting = type]
        BY Zenon
      <4>4. [a EXCEPT !.id = n] = [descriptor |-> d, waiting |-> type, id |-> n, events |-> u]
        <5>1. a = [descriptor |-> d, waiting |-> type, id |-> m, events |-> u]
          BY <4>1, <4>2, Zenon
        <5> QED BY <5>1
      <4>5. PICK b : b = [a EXCEPT !.id = n]
        BY Zenon
      <4>3. [b EXCEPT !.events = s] =
              [descriptor |-> d, waiting |-> type, id |-> n, events |-> s]
        <5>1. b = [descriptor |-> d, waiting |-> type, id |-> n, events |-> u]
          BY <4>4, <4>5, Zenon
        <5> QED BY <5>1
      <4> QED BY <1>5, <2>1, <4>2, <4>3, <4>5, Zenon
    <3> QED BY <1>2, <1>4, <1>a, <2>1, <3>1, <3>2, Zenon
  <2>2. CASE type \notin Requests
    <3>1. uhid' = [uhid EXCEPT ![i].events = Append(@, Frame(type, i, 0, 0))]
      BY <2>2, Zenon DEF Ask
    <3>2. e = [uhid[i] EXCEPT !.events = s]
      BY <1>5, <1>b, <2>2
    <3> QED BY <1>2, <1>4, <1>a, <2>2, <3>1, <3>2, ZenonT(60)
  <2> QED BY <2>1, <2>2, Zenon
<1>8. /\ uhid' \in Seq(Endpoint) /\ Len(uhid') = Len(uhid) /\ DOMAIN uhid' = DOMAIN uhid
      /\ uhid'[i] = e /\ \A k \in DOMAIN uhid : k # i => uhid'[k] = uhid[k]
      /\ \A k \in DOMAIN uhid : uhid'[k].descriptor = uhid[k].descriptor
  BY <1>6, <1>7, Replaced, Zenon
<1>9. hready' \subseteq {k \in DOMAIN uhid' : uhid'[k].events # <<>>}
  BY <1>0, <1>4, <1>6, <1>8, Zenon DEF BridgeInv, Types, DeviceTypes
<1>10. to_client' \in Seq(ToClient)
  BY <1>0, Zenon DEF BridgeInv, Types, ClientTypes
<1>11. host \in Late /\ host' \in Late /\ (host' = "create" <=> host = "create")
  BY <1>0, WhenCreated, Zenon
<1> QED BY <1>0, <1>1, <1>8, <1>9, <1>10, <1>11, HostLoops, ZenonT(60)

\* One event of the first readable endpoint is passed on to the client.
LEMMA HostScanKeeps ==
  ASSUME BridgeInv, HostScan
  PROVE  BridgeInv'
<1>0. /\ UNCHANGED <<paths, client, sent, cready, counted, descriptors, to_host, produced, unread,
                     delivered, completed, asked>>
      /\ host = "scan" /\ host' \in {"poll", "scan", "leave"}
  BY Zenon DEF HostScan, cvars, tablet
<1>a. host \in Late /\ host' \in Late /\ (host' = "create" <=> host = "create")
  BY <1>0, Zenon DEF Late
<1>b. asked' \in [Interfaces -> Int] /\ to_client \in Seq(ToClient)
  BY <1>0, Zenon DEF BridgeInv, Types, DeviceTypes, ClientTypes
<1>1. CASE hready = {} /\ UNCHANGED <<hready, uhid, to_client>>
  <2>1. /\ uhid' \in Seq(Endpoint) /\ Len(uhid') = Len(uhid)
        /\ \A n \in DOMAIN uhid : uhid'[n].descriptor = uhid[n].descriptor
        /\ hready' \subseteq {n \in DOMAIN uhid' : uhid'[n].events # <<>>}
        /\ to_client' \in Seq(ToClient)
    BY <1>1, <1>b, Endpoints, Zenon
  <2> QED BY <1>0, <1>a, <1>b, <2>1, HostLoops, Zenon
<1>2. CASE hready # {}
  <2>1. PICK i \in DOMAIN uhid : i = Least(hready) /\ i \in hready /\ uhid[i].events # <<>>
    <3>1. hready \subseteq {n \in DOMAIN uhid : uhid[n].events # <<>>}
      BY Zenon DEF BridgeInv, Types, DeviceTypes
    <3>2. DOMAIN uhid \subseteq Nat
      BY Endpoints DEF Interfaces
    <3>3. hready \subseteq Nat
      BY <3>1, <3>2, Zenon
    <3>4. Least(hready) \in hready
      BY <1>2, <3>3, LeastIsOne, Zenon
    <3> QED BY <3>1, <3>4, Zenon
  <2>2. PICK v : v = Head(uhid[i].events)
    BY Zenon
  <2>3. PICK s : s = Tail(uhid[i].events)
    BY Zenon
  <2>4. v \in Event /\ s \in Seq(Event)
    BY <2>1, <2>2, <2>3, Endpoints
  <2>5. PICK e : e = [uhid[i] EXCEPT !.events = s]
    BY Zenon
  <2>6. e \in Endpoint /\ e.descriptor = uhid[i].descriptor
    BY <2>4, <2>5, Endpoints, Zenon DEF Endpoint
  <2>7. /\ uhid' = [uhid EXCEPT ![i] = e] /\ hready' = hready \ {i}
        /\ IF v.type = "start" THEN UNCHANGED to_client
           ELSE \E ok \in BOOLEAN : Send(to_client, client, v, ok)
    BY <1>2, <2>1, <2>2, <2>3, <2>5, ZenonT(60) DEF HostScan
  <2>8. /\ uhid' \in Seq(Endpoint) /\ Len(uhid') = Len(uhid) /\ DOMAIN uhid' = DOMAIN uhid
        /\ uhid'[i] = e /\ \A n \in DOMAIN uhid : n # i => uhid'[n] = uhid[n]
        /\ \A n \in DOMAIN uhid : uhid'[n].descriptor = uhid[n].descriptor
    BY <2>6, <2>7, Replaced, Zenon
  <2>9. hready' \subseteq {n \in DOMAIN uhid' : uhid'[n].events # <<>>}
    BY <2>7, <2>8, Zenon DEF BridgeInv, Types, DeviceTypes
  <2>10. to_client' \in Seq(ToClient)
    <3>1. CASE UNCHANGED to_client
      BY <1>b, <3>1, Zenon
    <3>2. CASE v.type # "start" /\ to_client' = Append(to_client, v)
      <4>1. v \in ToClient
        BY <2>4, <3>2, Zenon DEF Event, ToClient
      <4> QED BY <1>b, <3>2, <4>1
    <3> QED BY <2>7, <3>1, <3>2, Zenon DEF Send
  <2> QED BY <1>0, <1>a, <1>b, <2>8, <2>9, <2>10, HostLoops, ZenonT(60)
<1> QED BY <1>1, <1>2, Zenon DEF HostScan

\* poll fails.
LEMMA HostPollFailsKeeps ==
  ASSUME BridgeInv, HostPollFails
  PROVE  BridgeInv'
<1>0. /\ UNCHANGED <<paths, client, sent, cready, counted, descriptors, to_host, produced, unread,
                     delivered, completed, asked, uhid, hready, to_client>>
      /\ host = "poll" /\ host' = "leave"
  BY Zenon DEF HostPollFails, cvars, tablet, net, kernel
<1>1. host \in Late /\ host' \in Late /\ (host' = "create" <=> host = "create")
  BY <1>0, Zenon DEF Late
<1>2. /\ uhid' \in Seq(Endpoint) /\ Len(uhid') = Len(uhid)
      /\ \A n \in DOMAIN uhid : uhid'[n].descriptor = uhid[n].descriptor
      /\ hready' \subseteq {n \in DOMAIN uhid' : uhid'[n].events # <<>>}
      /\ to_client' \in Seq(ToClient) /\ asked' \in [Interfaces -> Int]
  BY <1>0, Zenon DEF BridgeInv, Types, DeviceTypes, ClientTypes
<1> QED BY <1>0, <1>1, <1>2, HostLoops, ZenonT(60)

\* A reply wakes the request it answers, with that request's outcome.
LEMMA Woken ==
  ASSUME BridgeInv, NEW h, Answers(h), h.interface \in DOMAIN uhid, Wake(h)
  PROVE  /\ uhid' \in Seq(Endpoint) /\ Len(uhid') = Len(uhid) /\ DOMAIN uhid' = DOMAIN uhid
         /\ \A n \in DOMAIN uhid : /\ uhid'[n].descriptor = uhid[n].descriptor
                                   /\ uhid'[n].events = uhid[n].events
         /\ RepliesMatch'
<1>0. PICK i \in DOMAIN uhid : i = h.interface
  BY Zenon
<1> DEFINE pending == /\ uhid[i].waiting # "none" /\ Reply(uhid[i].waiting) = h.type
                      /\ uhid[i].id = h.transaction
<1>1. CASE ~pending
  <2>1. UNCHANGED <<uhid, completed>>
    BY <1>0, <1>1, Zenon DEF Wake
  <2> QED BY <2>1, Endpoints, Zenon DEF BridgeInv, Answered, RepliesMatch
<1>2. CASE pending
  <2>1. PICK e : e = [uhid[i] EXCEPT !.waiting = "none"]
    BY Zenon
  <2>2. e \in Endpoint /\ e.descriptor = uhid[i].descriptor /\ e.events = uhid[i].events
    BY <2>1, Endpoints, ZenonT(60) DEF Endpoint
  <2>3. /\ uhid' = [uhid EXCEPT ![i] = e]
        /\ completed' = completed \union {[request |-> <<uhid[i].waiting, i, uhid[i].id>>,
                                           answer |-> h.payload]}
    BY <1>0, <1>2, <2>1, Zenon DEF Wake
  <2>4. /\ uhid' \in Seq(Endpoint) /\ Len(uhid') = Len(uhid) /\ DOMAIN uhid' = DOMAIN uhid
        /\ uhid'[i] = e /\ \A n \in DOMAIN uhid : n # i => uhid'[n] = uhid[n]
        /\ \A n \in DOMAIN uhid : uhid'[n].descriptor = uhid[n].descriptor
    BY <2>2, <2>3, Replaced, Zenon
  <2>5. h.payload = <<uhid[i].waiting, i, uhid[i].id>>
    <3>1. uhid[i].waiting \in Requests
      BY <1>2, Endpoints, ZenonT(60)
    <3> QED BY <1>0, <1>2, <3>1, Zenon DEF Answers
  <2>6. RepliesMatch'
    BY <2>3, <2>5 DEF BridgeInv, Answered, RepliesMatch
  <2>7. \A n \in DOMAIN uhid : uhid'[n].events = uhid[n].events
    BY <2>2, <2>4, Zenon
  <2> QED BY <2>4, <2>6, <2>7, Zenon
<1> QED BY <1>1, <1>2, Zenon

\* The host takes a frame in its loop: input goes to its endpoint, a reply wakes
\* at most the request that it answers.
LEMMA HostServeKeeps ==
  ASSUME BridgeInv, HostServe
  PROVE  BridgeInv'
<1>0. /\ UNCHANGED <<paths, client, sent, cready, counted, descriptors, produced, unread,
                     to_client>>
      /\ host = "poll" /\ host' \in {"scan", "leave"}
      /\ hready' = {i \in DOMAIN uhid : uhid[i].events # <<>>}
  BY Zenon DEF HostServe, Lost, cvars, tablet
<1>a. host \in Late /\ host' \in Late /\ (host' = "create" <=> host = "create")
  BY <1>0, Zenon DEF Late
<1>b. asked \in [Interfaces -> Int] /\ to_client' \in Seq(ToClient)
  BY <1>0, Zenon DEF BridgeInv, Types, DeviceTypes, ClientTypes
<1>1. CASE UNCHANGED <<to_host, kernel>>
  <2>0. UNCHANGED <<to_host, uhid, asked, delivered, completed>>
    BY <1>1, Zenon DEF kernel
  <2>1. /\ uhid' \in Seq(Endpoint) /\ Len(uhid') = Len(uhid)
        /\ \A n \in DOMAIN uhid : uhid'[n].descriptor = uhid[n].descriptor
        /\ hready' \subseteq {n \in DOMAIN uhid' : uhid'[n].events # <<>>}
    BY <1>0, <2>0, Endpoints, Zenon
  <2> QED BY <1>0, <1>a, <1>b, <2>0, <2>1, HostLoops, Zenon
<1>2. CASE /\ to_host # <<>> /\ ~OutOfRange(to_host, DOMAIN uhid)
           /\ to_host' = Tail(to_host) /\ Apply(Head(to_host))
  <2>0. PICK h : h = Head(to_host)
    BY Zenon
  <2>1. Answers(h) /\ (h.type # "detach" => h.interface \in DOMAIN uhid)
    <3>1. Answers(h)
      BY <1>2, <2>0, Tailed, Zenon DEF BridgeInv, Answered, Intact
    <3> QED BY <1>2, <2>0, <3>1, Zenon DEF OutOfRange
  <2>2. /\ UNCHANGED asked
        /\ \/ UNCHANGED delivered
           \/ /\ h.type = "input"
              /\ delivered' = [delivered EXCEPT ![h.interface] = Append(@, h.payload)]
        /\ \/ UNCHANGED <<uhid, completed>>
           \/ h.type # "detach" /\ Wake(h)
    BY <1>2, <2>0, Zenon DEF Apply, kernel, Reply, Requests
  <2>3. /\ uhid' \in Seq(Endpoint) /\ Len(uhid') = Len(uhid) /\ DOMAIN uhid' = DOMAIN uhid
        /\ \A n \in DOMAIN uhid : /\ uhid'[n].descriptor = uhid[n].descriptor
                                  /\ uhid'[n].events = uhid[n].events
        /\ RepliesMatch'
    <3>1. CASE UNCHANGED <<uhid, completed>>
      BY <3>1, Endpoints, Zenon DEF BridgeInv, Answered, RepliesMatch
    <3>2. CASE h.type # "detach" /\ Wake(h)
      BY <2>1, <3>2, Woken, Zenon
    <3> QED BY <2>2, <3>1, <3>2, Zenon
  <2>4. Sequence' /\ Progress' /\ Intact'
    <3>1. Taken = paths + 1 /\ Taken' = Taken /\ Taken' \in Nat /\ host' # "exited"
      BY <1>0 DEF Taken, Early, BridgeInv, Types, ClientTypes
    <3> QED BY <1>0, <1>2, <3>1, HostTakes, ZenonT(60)
  <2>5. InFlight' /\ Arrived' /\ delivered' \in [Interfaces -> Seq(Int \X Int)]
    <3>1. CASE UNCHANGED delivered
      BY <1>0, <1>2, <3>1, TakenUnseen, Zenon
         DEF BridgeInv, Types, DeviceTypes
    <3>2. CASE /\ h.type = "input"
               /\ delivered' = [delivered EXCEPT ![h.interface] = Append(@, h.payload)]
      BY <1>0, <1>2, <2>0, <3>2, TakenDelivered, ZenonT(60)
    <3> QED BY <2>2, <3>1, <3>2, Zenon
  <2>6. hready' \subseteq {n \in DOMAIN uhid' : uhid'[n].events # <<>>}
    BY <1>0, <2>3, Zenon
  <2>7. ClientTypes' /\ DeviceTypes'
    BY <1>0, <1>b, <2>2, <2>3, <2>5, <2>6, Untouched, ZenonT(60)
  <2>8. HostTypes'
    BY <1>0, <1>2, Tailed, Zenon DEF BridgeInv, Types, HostTypes
  <2>9. Recreated'
    <3>1. Interfaces' = Interfaces
      BY <1>0, Sets, Zenon
    <3> QED BY <1>0, <1>a, <2>3, <3>1, Zenon
            DEF BridgeInv, Recreated, Early, Late
  <2> QED BY <2>3, <2>4, <2>5, <2>7, <2>8, <2>9, ZenonT(60)
            DEF BridgeInv, Types, Answered
<1> QED BY <1>1, <1>2, Zenon DEF HostServe

-----------------------------------------------------------------------------

\* The steps of the client before the handshake, its failures, and the unplugged
\* tablet.
LEMMA ClientKeeps ==
  ASSUME BridgeInv, OpenInterface \/ Grab \/ Connect \/ ClientPollFails \/ ClientDies \/ Unplug
  PROVE  BridgeInv'
<1>1. UNCHANGED <<paths, host, hready, counted, descriptors, to_host, produced, unread, uhid,
                 asked, delivered, completed>>
  BY Zenon
     DEF OpenInterface, Grab, Connect, ClientPollFails, ClientDies, Unplug, cvars, hvars,
        net,
     tablet, kernel
<1>2. UNCHANGED sent
  BY Zenon
     DEF OpenInterface, Grab, Connect, ClientPollFails, ClientDies, Unplug, cvars
<1>3. \/ UNCHANGED <<client, to_client, cready>>
      \/ client' = "exited" /\ to_client' = <<>> /\ cready' = {}
      \/ /\ client \in {"open", "grab", "connect", "device"}
         /\ client' \in {"open", "grab", "connect", "device"}
         /\ UNCHANGED <<to_client, cready>>
      \/ client = "poll" /\ client' = "leave" /\ UNCHANGED <<to_client, cready>>
  BY Zenon
     DEF OpenInterface, Grab, Connect, ClientPollFails, ClientDies, Unplug, ClientEnds,
     cvars, net
<1>4. cready \subseteq Interfaces
  BY Zenon DEF BridgeInv, Types, ClientTypes
<1> QED BY <1>1, <1>2, <1>3, <1>4, ClientWaits, Zenon

\* The invariant is inductive: every step of run_client, of run_host, of the
\* kernel and of the tablet keeps it.
THEOREM BridgeStep == BridgeInv /\ [Next]_vars => BridgeInv'
<1> SUFFICES ASSUME BridgeInv, [Next]_vars PROVE BridgeInv'
  BY Zenon
<1>1. CASE ClientStep
  BY <1>1, ClientKeeps, SendDeviceKeeps, SendDescriptorKeeps, ClientServeKeeps,
     ClientScanKeeps,
     ClientLeaveKeeps, Zenon DEF ClientStep
<1>2. CASE HostStep
  BY <1>2, HostOpensKeeps, ReceiveDeviceKeeps, ReceiveDescriptorKeeps, CreateEndpointKeeps,
     HostServeKeeps, HostScanKeeps, HostEndsKeeps, Zenon DEF HostStep
<1>3. CASE Faults
  BY <1>3, ClientKeeps, HostPollFailsKeeps, HostEndsKeeps, Zenon DEF Faults
<1>4. CASE Devices
  BY <1>4, ReportKeeps, TimeoutKeeps, AskKeeps, Zenon DEF Devices
<1>5. CASE UNCHANGED vars
  <2>1. UNCHANGED <<paths, client, host, sent, cready, hready, to_host, to_client, produced,
                    unread, counted, descriptors, uhid, asked, delivered, completed>>
    BY <1>5, Zenon DEF vars, cvars, hvars, net, tablet, kernel
  <2> QED BY <2>1, ClientWaits, Zenon
<1> QED BY <1>1, <1>2, <1>3, <1>4, <1>5, Zenon DEF Next

\* The invariant implies what the bridge promises.
LEMMA BridgeInvGives == BridgeInv => RepliesMatch /\ InputInOrder
<1> SUFFICES ASSUME BridgeInv PROVE RepliesMatch /\ InputInOrder
  BY Zenon
<1>1. RepliesMatch
  BY Zenon DEF BridgeInv, Answered
<1>2. ASSUME NEW i \in Interfaces, host \in {"poll", "scan"}
      PROVE  [n \in DOMAIN uhid |-> uhid[n].descriptor] = [n \in Interfaces |-> n]
  <2>1. DOMAIN uhid = Interfaces
    BY <1>2, Endpoints DEF BridgeInv, Recreated, Interfaces
  <2>2. \A n \in Interfaces : uhid[n].descriptor = n
    BY <2>1, Zenon DEF BridgeInv, Recreated
  <2> QED BY <2>1, <2>2, ZenonT(60)
<1> QED BY <1>1, <1>2, Zenon DEF BridgeInv, Arrived, InputInOrder

-----------------------------------------------------------------------------
(* The theorems.                                                           *)

\* For any number of interfaces, every request that the host's kernel completes
\* was answered by its own ioctl on its own interface, whatever timed out and
\* whatever arrived late.
THEOREM BridgeReplies == SomePaths => (Spec => []RepliesMatch)
<1> SUFFICES ASSUME SomePaths PROVE Spec => []RepliesMatch
  BY Zenon
<1>1. Init => BridgeInv
  BY Starts, Zenon
<1>2. BridgeInv => RepliesMatch
  BY BridgeInvGives, ZenonT(60)
<1> QED BY <1>1, <1>2, BridgeStep, PTL DEF Spec

\* For any number of interfaces, input reaches the endpoint of its own
\* interface, in order and at most once, and only when each interface has an
\* endpoint with its own descriptor.
THEOREM BridgeInput == SomePaths => (Spec => []InputInOrder)
<1> SUFFICES ASSUME SomePaths PROVE Spec => []InputInOrder
  BY Zenon
<1>1. Init => BridgeInv
  BY Starts, Zenon
<1>2. BridgeInv => InputInOrder
  BY BridgeInvGives, Zenon
<1> QED BY <1>1, <1>2, BridgeStep, PTL DEF Spec

\* Both together, BridgeFaithful: run_client and run_host, from the handshake to
\* the last frame, for any number of interfaces.
THEOREM BridgeIsFaithful == SomePaths => (Spec => []BridgeFaithful)
<1>1. RepliesMatch /\ InputInOrder => BridgeFaithful
  BY Zenon DEF BridgeFaithful
<1> QED BY <1>1, BridgeReplies, BridgeInput, PTL

=============================================================================
