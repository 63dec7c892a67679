---------------------------- MODULE WacomBridge ----------------------------
(***************************************************************************)
(* probes/wacom/plank-wacom-raw-bridge.cpp: a client process that reads    *)
(* the HID interfaces of a tablet, a host process that recreates them with *)
(* UHID, and the TCP connection between them.  The tablet and the host's   *)
(* kernel are external.  Socket buffers are unbounded, so a send never     *)
(* blocks; frames come from the two programs only.                         *)
(***************************************************************************)
EXTENDS BridgeState, Functions

CONSTANTS PathCounts,      \* numbers of --hidraw options considered
          MaxInterfaces,   \* interface_count the host accepts (16)
          MaxTraffic       \* bound: reports, requests and outputs together

VARIABLES
  client,            \* where the client process is
  opened,            \* hidraw_fds.size()
  sent,              \* descriptors sent
  cready, hready,    \* device descriptors poll found readable, not yet read
  connected,         \* the connection was made
  to_host, to_client,
  plugged, produced, unread,   \* the tablet and its hidraw queues
  counted, descriptors,        \* what the host received
  running,           \* the host loop's flag
  asked              \* requests and outputs made on each interface

cvars == <<client, opened, sent, cready>>
hvars == <<host, hready, counted, descriptors, running>>
net == <<connected, to_host, to_client>>
tablet == <<plugged, produced, unread>>
kernel == <<uhid, asked, delivered, completed>>
vars == <<paths, cvars, hvars, net, tablet, kernel>>

Quiet == FoldFunction(+, 0, produced) + FoldFunction(+, 0, asked) < MaxTraffic
Least(S) == CHOOSE i \in S : \A j \in S : i <= j

\* type, interface and transaction of the header, and what the payload
\* holds: the device and operation it came from.
Frame(type, interface, transaction, payload) ==
  [type |-> type, interface |-> interface, transaction |-> transaction, payload |-> payload]
Requests == {"get_report", "set_report"}
Reply(type) == IF type = "get_report" THEN "get_report_reply" ELSE "set_report_reply"

Init ==
  /\ paths \in PathCounts
  /\ client = "open" /\ opened = 0 /\ sent = 0 /\ cready = {}
  /\ host = "listen" /\ hready = {} /\ counted = 0 /\ descriptors = <<>> /\ running = TRUE
  /\ connected = FALSE /\ to_host = <<>> /\ to_client = <<>>
  /\ plugged = TRUE /\ produced = [i \in Interfaces |-> 0] /\ unread = produced
  /\ uhid = <<>> /\ asked = produced
  /\ delivered = [i \in Interfaces |-> <<>>] /\ completed = {}

-----------------------------------------------------------------------------
(* The socket.                                                             *)

\* send_frame: with the peer gone the kernel may still take the frame.
Send(channel, peer, frame, ok) ==
  \/ ok /\ channel' = IF peer = "exited" THEN channel ELSE Append(channel, frame)
  \/ ~ok /\ peer = "exited" /\ UNCHANGED channel

\* The next frame names an interface the receiver does not have.
OutOfRange(channel, interfaces) ==
  /\ channel # <<>> /\ Head(channel).type # "detach"
  /\ Head(channel).interface \notin interfaces

\* A process that ends closes its descriptors: what it had not read is gone.
ClientEnds == client' = "exited" /\ to_client' = <<>> /\ cready' = {}
HostEnds == host' = "exited" /\ to_host' = <<>> /\ hready' = {} /\ uhid' = <<>>

-----------------------------------------------------------------------------
(* run_client.                                                             *)

\* Open one interface; an error, or another tablet's interface, ends the
\* client.
OpenInterface ==
  /\ client = "open"
  /\ \/ /\ plugged
        /\ opened' = opened + 1
        /\ client' = IF opened' = paths THEN "grab" ELSE "open"
        /\ UNCHANGED <<to_client, cready>>
     \/ ClientEnds /\ UNCHANGED opened
  /\ UNCHANGED <<paths, sent, hvars, connected, to_host, tablet, kernel>>

Grab ==
  /\ client = "grab"
  /\ \/ plugged /\ client' = "connect" /\ UNCHANGED <<to_client, cready>>
     \/ ClientEnds
  /\ UNCHANGED <<paths, opened, sent, hvars, connected, to_host, tablet, kernel>>

\* connect_tcp succeeds once the host listens, before it accepts.
Connect ==
  /\ client = "connect"
  /\ \/ /\ host = "accept"
        /\ connected' = TRUE /\ client' = "device"
        /\ UNCHANGED <<to_client, cready>>
     \/ ClientEnds /\ UNCHANGED connected
  /\ UNCHANGED <<paths, opened, sent, hvars, to_host, tablet, kernel>>

SendDevice ==
  /\ client = "device"
  /\ \E ok \in BOOLEAN :
       /\ Send(to_host, host, Frame("device", 0, 0, paths), ok)
       /\ IF ok THEN client' = "descriptors" /\ UNCHANGED <<to_client, cready>>
                ELSE ClientEnds
  /\ UNCHANGED <<paths, opened, sent, hvars, connected, tablet, kernel>>

SendDescriptor ==
  /\ client = "descriptors"
  /\ \E ok \in BOOLEAN :
       /\ Send(to_host, host, Frame("descriptor", sent + 1, 0, sent + 1), ok)
       /\ IF ok THEN /\ sent' = sent + 1
                     /\ client' = IF sent' = paths THEN "poll" ELSE "descriptors"
                     /\ UNCHANGED <<to_client, cready>>
                ELSE ClientEnds /\ UNCHANGED sent
  /\ UNCHANGED <<paths, opened, hvars, connected, tablet, kernel>>

\* Mutant: the answer is addressed to the first interface.
AnswerToFirst(frame) ==
  Frame(Reply(frame.type), 1, frame.transaction,
        <<frame.type, frame.interface, frame.transaction>>)

\* The answer to a request: the outcome of its ioctl on its own interface.
Answer(frame) ==
  Frame(Reply(frame.type), frame.interface, frame.transaction,
        <<frame.type, frame.interface, frame.transaction>>)

\* poll returns and the socket is served: a hang-up or the end of the stream
\* ends the loop, an output is only carried out, a request is answered.  An
\* unplugged interface keeps poll returning, without POLLIN.
ClientServe ==
  /\ client = "poll"
  /\ cready' = {i \in Interfaces : unread[i] > 0}
  /\ \/ /\ host = "exited" \/ OutOfRange(to_client, Interfaces)
        /\ client' = "leave" /\ UNCHANGED <<to_client, to_host>>
     \/ /\ to_client = <<>> /\ host # "exited" /\ (cready' # {} \/ ~plugged)
        /\ client' = "scan" /\ UNCHANGED <<to_client, to_host>>
     \/ /\ to_client # <<>> /\ ~OutOfRange(to_client, Interfaces)
        /\ to_client' = Tail(to_client)
        /\ IF Head(to_client).type \in Requests
           THEN \E ok \in BOOLEAN :
                  /\ Send(to_host, host, Answer(Head(to_client)), ok)
                  /\ client' = IF ok THEN "scan" ELSE "leave"
           ELSE client' = "scan" /\ UNCHANGED to_host
  /\ UNCHANGED <<paths, opened, sent, hvars, connected, tablet, kernel>>

\* Mutant: input is sent without its interface's index.
InputFromFirst(i) == Frame("input", 1, 0, <<i, produced[i] - unread[i] + 1>>)

\* An input report with the index of its interface.
InputFrame(i) == Frame("input", i, 0, <<i, produced[i] - unread[i] + 1>>)

\* One report of each readable interface; a failed send skips the others.
ClientScan ==
  /\ client = "scan"
  /\ \/ /\ cready = {} /\ client' = "poll"
        /\ UNCHANGED <<cready, unread, to_host>>
     \/ /\ cready # {}
        /\ LET i == Least(cready) IN \E ok \in BOOLEAN :
             /\ Send(to_host, host, InputFrame(i), ok)
             /\ unread' = [unread EXCEPT ![i] = @ - 1]
             /\ cready' = IF ok THEN cready \ {i} ELSE {}
        /\ UNCHANGED client
  /\ UNCHANGED <<paths, opened, sent, hvars, connected, to_client, plugged, produced, kernel>>

\* poll fails.
ClientPollFails ==
  /\ client = "poll" /\ client' = "leave"
  /\ UNCHANGED <<paths, opened, sent, cready, hvars, net, tablet, kernel>>

\* Announce the end, whatever became of the connection, and release all.
ClientLeave ==
  /\ client = "leave"
  /\ \E ok \in BOOLEAN : Send(to_host, host, Frame("detach", 0, 0, 0), ok)
  /\ ClientEnds
  /\ UNCHANGED <<paths, opened, sent, hvars, connected, tablet, kernel>>

\* The client is killed.
ClientDies ==
  /\ client # "exited" /\ ClientEnds
  /\ UNCHANGED <<paths, opened, sent, hvars, connected, to_host, tablet, kernel>>

-----------------------------------------------------------------------------
(* run_host.                                                               *)

HostListen ==
  /\ host = "listen"
  /\ \/ host' = "accept" /\ UNCHANGED <<to_host, hready, uhid>>
     \/ HostEnds
  /\ UNCHANGED <<paths, cvars, counted, descriptors, running, connected, to_client, tablet,
                 asked, delivered, completed>>

HostAccept ==
  /\ host = "accept" /\ connected
  /\ \/ host' = "device" /\ UNCHANGED <<to_host, hready, uhid>>
     \/ HostEnds
  /\ UNCHANGED <<paths, cvars, counted, descriptors, running, connected, to_client, tablet,
                 asked, delivered, completed>>

\* receive_frame has its answer: a frame, or the end of the stream.
HostHears == to_host # <<>> \/ client = "exited"

ReceiveDevice ==
  /\ host = "device" /\ HostHears
  /\ IF to_host # <<>> /\ Head(to_host).payload \in 1 .. MaxInterfaces
     THEN /\ host' = "descriptors" /\ to_host' = Tail(to_host)
          /\ descriptors' = [i \in 1 .. Head(to_host).payload |-> 0]
          /\ UNCHANGED <<hready, uhid>>
     ELSE HostEnds /\ UNCHANGED descriptors
  /\ UNCHANGED <<paths, cvars, counted, running, connected, to_client, tablet,
                 asked, delivered, completed>>

ReceiveDescriptor ==
  /\ host = "descriptors" /\ HostHears
  /\ IF to_host # <<>> /\ Head(to_host).interface \in DOMAIN descriptors
     THEN /\ descriptors' = [descriptors EXCEPT
                               ![Head(to_host).interface] = Head(to_host).payload]
          /\ to_host' = Tail(to_host) /\ counted' = counted + 1
          /\ host' = IF counted' = Len(descriptors) THEN "create" ELSE "descriptors"
          /\ UNCHANGED <<hready, uhid>>
     ELSE HostEnds /\ UNCHANGED <<descriptors, counted>>
  /\ UNCHANGED <<paths, cvars, running, connected, to_client, tablet,
                 asked, delivered, completed>>

\* UHID_CREATE2 for the next interface; the kernel answers with UHID_START.
CreateEndpoint ==
  /\ host = "create"
  /\ \E ok \in BOOLEAN :
       LET i == Len(uhid) + 1 IN
       IF ok /\ descriptors[i] # 0
       THEN /\ uhid' = Append(uhid, [descriptor |-> descriptors[i], waiting |-> "none", id |-> 0,
                                     events |-> <<Frame("start", i, 0, 0)>>])
            /\ host' = IF i = Len(descriptors) THEN "poll" ELSE "create"
            /\ UNCHANGED <<to_host, hready>>
       ELSE HostEnds
  /\ UNCHANGED <<paths, cvars, counted, descriptors, running, connected, to_client, tablet,
                 asked, delivered, completed>>

\* What the kernel does with a reply: a reply to another request than the
\* pending one is ignored.
Wake(frame) ==
  LET i == frame.interface
      pending == uhid[i].waiting # "none" /\ Reply(uhid[i].waiting) = frame.type
                 /\ uhid[i].id = frame.transaction
  IN /\ uhid' = IF pending THEN [uhid EXCEPT ![i].waiting = "none"] ELSE uhid
     /\ completed' = IF pending
          THEN completed \union {[request |-> <<uhid[i].waiting, i, uhid[i].id>>,
                                  answer |-> frame.payload]}
          ELSE completed

\* One frame of the client; a failed UHID write is ignored.
Apply(frame) ==
  \/ /\ frame.type = "detach"
     /\ running' = FALSE /\ UNCHANGED kernel
  \/ /\ frame.type = "input"
     /\ \/ delivered' = [delivered EXCEPT ![frame.interface] = Append(@, frame.payload)]
        \/ UNCHANGED delivered
     /\ UNCHANGED <<running, uhid, asked, completed>>
  \/ /\ frame.type \in {Reply(r) : r \in Requests}
     /\ \/ Wake(frame)
        \/ UNCHANGED <<uhid, completed>>
     /\ UNCHANGED <<running, asked, delivered>>

\* Mutant: the end of the stream does not end the loop.
LostIgnored == host' = "scan"

\* receive_frame failed: break.
Lost == host' = "leave"

\* poll returns and the socket is served.
HostServe ==
  /\ host = "poll"
  /\ hready' = {i \in DOMAIN uhid : uhid[i].events # <<>>}
  /\ \/ /\ client = "exited" \/ OutOfRange(to_host, DOMAIN uhid)
        /\ Lost
        /\ UNCHANGED <<to_host, running, kernel>>
     \/ /\ to_host = <<>> /\ client # "exited" /\ hready' # {} /\ host' = "scan"
        /\ UNCHANGED <<to_host, running, kernel>>
     \/ /\ to_host # <<>> /\ ~OutOfRange(to_host, DOMAIN uhid)
        /\ to_host' = Tail(to_host) /\ Apply(Head(to_host)) /\ host' = "scan"
  /\ UNCHANGED <<paths, cvars, counted, descriptors, connected, to_client, tablet>>

\* One UHID event of each readable endpoint; requests and outputs go to the
\* client, and nobody looks whether they were sent.
HostScan ==
  /\ host = "scan"
  /\ \/ /\ hready = {} /\ host' = IF running THEN "poll" ELSE "leave"
        /\ UNCHANGED <<hready, uhid, to_client>>
     \/ /\ hready # {}
        /\ LET i == Least(hready)
               event == Head(uhid[i].events)
           IN /\ uhid' = [uhid EXCEPT ![i].events = Tail(@)]
              /\ hready' = hready \ {i}
              /\ IF event.type = "start" THEN UNCHANGED to_client
                 ELSE \E ok \in BOOLEAN : Send(to_client, client, event, ok)
        /\ UNCHANGED host
  /\ UNCHANGED <<paths, cvars, counted, descriptors, running, connected, to_host, tablet,
                 asked, delivered, completed>>

HostPollFails ==
  /\ host = "poll" /\ host' = "leave"
  /\ UNCHANGED <<paths, cvars, hready, counted, descriptors, running, net, tablet, kernel>>

\* UHID_DESTROY for every endpoint, or the same through being killed.
HostLeave ==
  /\ host = "leave" /\ HostEnds
  /\ UNCHANGED <<paths, cvars, counted, descriptors, running, connected, to_client, tablet,
                 asked, delivered, completed>>

HostDies ==
  /\ host # "exited" /\ HostEnds
  /\ UNCHANGED <<paths, cvars, counted, descriptors, running, connected, to_client, tablet,
                 asked, delivered, completed>>

-----------------------------------------------------------------------------
(* The tablet and the host's kernel.                                       *)

Report(i) ==
  /\ plugged /\ i <= opened /\ client # "exited" /\ Quiet
  /\ produced' = [produced EXCEPT ![i] = @ + 1]
  /\ unread' = [unread EXCEPT ![i] = @ + 1]
  /\ UNCHANGED <<paths, cvars, hvars, net, plugged, kernel>>

Unplug ==
  /\ plugged /\ plugged' = FALSE
  /\ UNCHANGED <<paths, cvars, hvars, net, produced, unread, kernel>>

\* A driver or program on the host uses the endpoint: at most one request
\* of an endpoint is pending, outputs are not waited for.
Ask(i, type) ==
  /\ Quiet /\ (type \in Requests => uhid[i].waiting = "none")
  /\ asked' = [asked EXCEPT ![i] = @ + 1]
  /\ uhid' = IF type \in Requests
       THEN [uhid EXCEPT ![i].waiting = type, ![i].id = asked'[i],
                         ![i].events = Append(@, Frame(type, i, asked'[i], 0))]
       ELSE [uhid EXCEPT ![i].events = Append(@, Frame(type, i, 0, 0))]
  /\ UNCHANGED <<paths, cvars, hvars, net, tablet, delivered, completed>>

\* The kernel gives a request up after five seconds.
Timeout(i) ==
  /\ uhid[i].waiting # "none"
  /\ uhid' = [uhid EXCEPT ![i].waiting = "none"]
  /\ UNCHANGED <<paths, cvars, hvars, net, tablet, asked, delivered, completed>>

-----------------------------------------------------------------------------

ClientStep == OpenInterface \/ Grab \/ Connect \/ SendDevice \/ SendDescriptor
              \/ ClientServe \/ ClientScan \/ ClientLeave
HostStep == HostListen \/ HostAccept \/ ReceiveDevice \/ ReceiveDescriptor \/ CreateEndpoint
            \/ HostServe \/ HostScan \/ HostLeave
Faults == ClientPollFails \/ ClientDies \/ HostPollFails \/ HostDies \/ Unplug
Devices ==
  \/ \E i \in Interfaces : Report(i)
  \/ \E i \in DOMAIN uhid : Timeout(i) \/ \E type \in Requests \union {"output"} : Ask(i, type)

Next == ClientStep \/ HostStep \/ Faults \/ Devices

\* Both processes are scheduled.
Spec == Init /\ [][Next]_vars /\ WF_vars(ClientStep) /\ WF_vars(HostStep)

-----------------------------------------------------------------------------
(* Properties.                                                             *)

\* Once connected, the end of either process, orderly or not, ends both, and
\* with them the endpoints and the grab.
OneEnded == connected /\ (client = "exited" \/ host = "exited")
BothEnded == client = "exited" /\ host = "exited" /\ uhid = <<>>
EndsTogether == OneEnded ~> BothEnded

\* protocol/wacom-hid.md: a hot-unplug is destructive and sends
\* tablet-detach, so that the host's endpoints go.
UnplugDetaches == ~plugged ~> (uhid = <<>>)

=============================================================================
