# TLA+ models of the macOS Host, the native transport and the probes

This directory holds specifications of the parts of the repository in which
several processes, threads, queues or messages meet, the TLC configurations that
check them, and proofs for TLAPS. Paths below are relative to the repository.

## 1. The system

A *Host* shares a desktop with a remote *Client*. The repository holds the macOS
Host (`apps/host/macos`), the transport library that Host and Client link
(`protocol/plank-transport`), a vendored QUIC implementation, and probes, scripts,
packaging and documents. The Linux Host and the Client are submodules and are not
part of this tree; what the repository has of them are the *probes* in `probes`,
programs in C++ that establish on real hardware how each will capture, encode,
decode, present and carry a tablet.

On a Mac, launchd runs one *machine* process as root and one *graphical* process
per signed-in session and at the sign-in window.

- The machine process (`session/host-main.m`, `machine`) owns the *registry*
  (`agent-registry.m`): one slot that says which graphical process may share the
  screen.
- A graphical process (`host-main.m`, `graphical`) holds an *agent connection*
  (`agent-connection.m`) to the registry over XPC. While its admission is fresh it
  runs the *host runtime* (`host-runtime.m`).
- The runtime has an *HTTPS control server* (`control/https-auth-server.m`), which
  a Client asks for the server's information, signs in with, and requests a stream
  from. Sign-in is a conversation with the *authentication session*
  (`auth/authentication-session.m`), which has a child process verify the password
  (`account-channel.m`, `account-verifier.m`) and hands out tokens; a launch turns
  a token into the one *stream lease*.
- A stream is a *preview session* (`media/preview-session.m`): screen capture and
  encoder, audio tap and Opus encoder, input events, and a *native endpoint*
  (`plank-transport/src/native_ffi.rs`), a worker thread that runs one QUIC
  connection with video, audio, input and data lanes, driven through a C interface.

Four probes are concurrent programs of their own. The *encoder probe*
(`probes/video/plank-probe-video-pipeline.cpp`) captures with NvFBC, converts with
CUDA and encodes with NVENC in one thread, and writes the bitstream in another; it
simulates a loss and recovers from it. The *Wayland player*
(`plank-probe-client-pipeline.cpp`) and the *KMS player*
(`plank-probe-client-kms.cpp`) decode such a bitstream with GStreamer, whose
streaming thread hands each picture to a display thread, and measure each
picture's way to the screen. The *Wacom bridge*
(`probes/wacom/plank-wacom-raw-bridge.cpp`) is two processes that carry a tablet's
raw HID interfaces from one machine to another.

The full list of parts, with the reason for each that is not modelled, is
`components` in `PROJECT.json`; what can go wrong in each, line by line, is
`hazards`.

## 2. The modules

| Module | Models | State | Actions |
|---|---|---|---|
| `AccountPolicy` | `auth/account-policy.h` | none | which desktop an account may attach to, as operators |
| `AuthenticationSession` | `auth/authentication-session.m` | conversations, tokens, the lease, the running verification, the revocation generation | one per method |
| `AuthenticationSessionProofs` | | | theorems, see section 5 |
| `AgentChannel` | the XPC link between the two processes | request, reply, notice and cut of each link | |
| `AgentConnection` | `session/agent-connection.m` | the fields of `PLANKMacAgentConnection` | start, watch, reply, notice, interruption, bind, retire, exit |
| `AgentRegistry` | `session/agent-registry.m`, `machine` | `_current`, the links with their leases | accept, the three requests, watch, revoke, exit watch, restart |
| `AgentOwnership` | both, the console and the clock | all of the above | |
| `AgentOwnershipProofs` | | | theorems, see section 5 |
| `NativeShared` | `NativeShared` of `native_ffi.rs` | configuration, state, stop flag, positions of the threads | |
| `NativeWorker` | worker thread and the owner's calls | approval flags and their notifications | connect, gates, promote, drain, finish; start, approve, authorize, stop |
| `NativeReceive` | one receive lane and its blocking call | queue, counters, the call's position | arrival, look, wait, wake, copy, remove |
| `NativeEndpoint` | the three threads together | all of the above | |
| `EndpointAndTapProofs` | | | theorems on `NativeEndpoint` and `AudioRing`, see section 5 |
| `ControlServer` | `control/https-auth-server.m` | the requests, the two lanes with the blocks queued on them, `_authBusy`, tokens and lease | accept, receive, deadline, send completion, each kind of block, each part of a handler, stop |
| `HostRuntime` | `session/host-runtime.m` over it | `_stopping`, the stream's state and the blocks on its queue | display work, launch, start, stop, drain, listener failure, shutdown |
| `HostRuntimeProofs` | | | theorems, see section 5 |
| `StreamLife` | what a stream promises to the runtime | its state, whether it holds its lease, whether a callback is owed | start, run, lose, end, ask, drain |
| `StreamState` | the fields of the four classes of a stream | `session`, `capture`, `tap`, `video` | the two `finishStop` |
| `AudioTap` | `media/audio-tap.m`, desktop audio of `screen-capture.m` | | prepare, activate, destroy, answer, failure, stop, restart |
| `ScreenCapture` | `media/screen-capture.m`, `native-video.m`, `video-recovery.h` | | discovery, start, frame in, frame out, encoder built, stop |
| `PreviewSession` | `media/preview-session.m` over them | | start, the three outcomes of a tick, the input worker, stop |
| `PreviewSessionProofs` | | | theorems, see section 5 |
| `RingState` | `drain` of `media/audio-tap.m` | what drain reads and gives to the encoder | none: the promises of `AudioRing` |
| `AudioRing` | `media/audio-tap-buffer.h` and its two users in `audio-tap.m` | the indexes, the blocks, what each side has loaded | one per step between two accesses to shared state |
| `InputState` | `input/input-events.m`, `input/native-input.m` | what is held, the desktop, the lease | none: the promises of `InputEvents` |
| `InputEvents` | `input/input-events.m`, `input/native-input.m` | what is held, the events of the running call, the desktop | packet, delivery, refusal, construction failure, stop, release |
| `InputEventsProofs` | | | theorems, see section 5 |
| `PacketCodecs` | `plank_transport_{setup,control,event,input}.h`, the readers in `input-events.m` and `preview-session.m` | the packet in hand | encoders and decoders as operators on bytes |
| `EncoderState` | the encoder probe | the frames written, dropped and invalidated | none: a promise of `VideoPipeline` |
| `VideoPipeline` | the encoder probe | options, resources held, slots, queue, files | command line, each acquisition, each step of a frame, of the worker and of the teardown |
| `VideoPipelineProofs` | | | theorems, see section 5 |
| `ClientPipeline` | the Wayland player | graphics objects, decoder, slot, feedback, counters | setup, streaming thread, worker, feedback, teardown |
| `ClientKms` | the KMS player | decoder, slot, phase flags, framebuffers, screen | streaming thread, worker, flip, teardown |
| `BridgeState` | the Wacom bridge | the kernel's endpoints, reports and answers | none: the promises of `WacomBridge` |
| `WacomBridge` | the Wacom bridge | both processes, the connection, the tablet, the kernel's endpoints | handshake, serve and scan of each side, deaths, unplug |
| `WacomBridgeProofs` | | | theorems, see section 5 |
| `ProbeMath` | arithmetic of the probes | a task and its result | kernels, row shares, percentiles, mode choice, as operators |

`MC*` modules give the constants their values for TLC. The four small state modules hold
the variables that a part's promises are about, and the promises. The part's module,
`MCParts` and the part's theorems all take them from there, so that the run and the
proof are about the same formula.

### How the code became actions

*Objective-C.* A method that runs on a serial queue or under `@synchronized` is one
action. A method that releases its lock in between is several. `respondForPeer`
has two, because the helper process runs between them without the lock, and
anything, a revocation of everything included, can happen there. A reply of the
registry is handled in two steps, because `reply:operation:` reads the clock, asks
the window server, and only then renews the admission.

*Rust.* Every point at which another thread can act is a step boundary. `wait_pop`
holds the queue lock from its look at the queue until it waits; the copy and the
removal of the received item are two acquisitions of the lock. `stop_endpoint`
reads the state, publishes `Stopping`, raises the flag and notifies, and joins:
four steps. A Tokio `Notify` is modelled by its promise: `notify_one` leaves a
permit, `notify_waiters` reaches only a wait that exists already. That is why the
wait for an approval has three points: load the flag, make the futures, wait.

*Queues.* A block that one serial queue dispatches to another is an entry of a
sequence, with what it captured, and runs when it is at the head. The handlers of
the authentication lane are split where they call into the runtime or take its
lock, since the network lane, the streams and the shutdown go on meanwhile. In a
stream all classes share one queue, so a block is one action, and the methods it
calls are operators on the record `Now` of the four parts: `StopOnQueue` is a
function from such a record to the next, and `FrameEncoded` composes delivery,
completion, replacement and drain in the order of the code. A call that may fail
gives a set of records.

*C++.* A section under a mutex is one action, and so is a call into a driver with
its outcomes. A condition variable is a set `asleep`: a wait whose predicate fails
puts its thread there and a notification takes it out, so a notification that
finds nobody is lost, as in the code. Where the KMS player changes a flag of a
wait without its mutex, the check of the predicate and the falling asleep are two
actions. In the audio ring the stores to shared state are actions of their own and
the order of the acquire and release operations is the order of the actions; the
producer's look at `stopped` and its loads of the two indexes are one action. The
fields of a block are written in two steps, so that a reader could see half of one.
Durations are not kept: where the code compares times, both outcomes are possible.

*Resources.* What a probe holds is a set, the order of a destructor is a sequence,
and each resource has those that it was made from. Every acquisition can fail, and
the teardown begins with whatever is held then.

*Data.* Passwords, names, tokens and addresses are model values. A token is drawn
fresh; two draws never give the same 256-bit value. Clocks are natural numbers
that a `Tick` raises at any time, and time-outs are compared with them as in the
code. Received items are numbered in the order of arrival, since only their order
and their loss matter. A desktop (`PLANKMacGraphicalIdentity`) is a record of the
fields that the policy compares.

*History.* `effect` and the `origin` and `epoch` of records in `AuthenticationSession`,
`epoch` and `revokedAt` of a link, `arrived` and `delivered` of a lane, and
`intact` of the video, `measured`, `out` and `completed` of the probes and `desk`
of the input only record what happened; no guard reads them where the code has
nothing to read.

## 3. What is checked

All runs, with their properties, are in `PROJECT.json`. The type invariant of
`AuthenticationSession` is proved; the `TypeOK` of the other specifications states
the types of their variables for the reader and is not part of a run; that of
`AgentOwnership` is a conjunct of the invariant proved in section 5.

**Authentication** (`Authentication.cfg`). No token, conversation or lease is older than the
last revocation of everything, even one whose verification was running then
(`RevocationIsFinal`). One login gives at most one credential, even when the
response is repeated (`OneLoginOneCredential`). A token is for the desktop that its
account may attach to (`GrantsMatchDesktop`). A token leaves its table only by its
own use, expiry or revocation, or by a later login of the same account and peer
(`TokensLeaveForCause`). A claim never takes over a lease (`NoTakeover`), a lease
that was not activated in time is never activated (`ActivatedInTime`), and a lease
ends only for a cause of its own (`LeaseEndsForCause`). The single verifier comes
free again (`VerifierComesFree`).

Bounds: one of three instances is chosen in the initial state. `tables` has two
accounts, four secrets and a revocation of everything. `lease` has one account and
six secrets, because a lease takes a conversation, a token and a transport token,
and two leases must follow each other. `peers` has a login whose answers and claims
come from its own peer and from another. The limits of the tables are one and two,
so that they are reached. Secrets are interchangeable; they are drawn in the order
of their numbers (`DrawnInOrder`), which, unlike a symmetry, is sound for liveness.

**Ownership of the desktop** (`AgentOwnership.cfg`, `AgentFreshness.cfg`). The slot
stays taken until the process that holds it is gone, whatever that process says
and whatever happens to its link (`SlotOutlivesProcess`). Two processes are never
admitted at once, except across a restart of the machine process, which has
forgotten the first one (`ExclusiveAdmission`). That overlap, and every admission
whose lease has ended, is over within two freshness periods
(`StaleAdmissionEnds`). An admission that ended never comes back
(`AdmissionNeverReturns`). A slot that is no longer used comes free
(`SlotComesFree`).

Bounds: two processes, two links, one restart and one clock step for exclusion; one
process, six clock steps and a freshness of two for the timing, so that an
admission can be granted, renewed from a late reply, and run out twice.

**Native endpoint** (`NativeEndpoint.cfg`). No item arrives before the certificate
is approved and `READY` is not published before the session is authorized
(`Gated`). Nothing changes once the stop call returned (`StopIsFinal`). As many items
arrived as are queued, were delivered or are counted as dropped, and what is delivered
is in order, without repetition, and on a reliable lane without a gap (`LaneAccounts`). A
stop returns where no certificate waits for approval (`StopReturns`). An approval is
not lost between the worker's look and its wait, and the peer's close reaches the
receiver (`NothingMissed`).

Bounds: all usable configurations, each kind of lane, capacity two and four
arrivals, so that a media queue is full and evicts twice.

**Control server and runtime** (`HostRuntime.cfg`). No setup token and no lease
outlives an answer that nobody got (`UndeliveredIsRevoked`): a request can be
cancelled, pass its deadline or fail in the send at every point of its handler, and
the revocation then follows from one of three places. A lease always belongs to a
stream that will end it; an active lease does not expire, so one that is left over
would refuse every later launch. The shutdown lets the stream drain before the
server revokes, also where the launch was under way when it began, and leaves no
token, lease or handler (both in `LeaseOwned`). A launch never takes the place of a
stream that still drains (`NeverReplacedAlive`). The shutdown completes
(`StopCompletes`), the lane comes free (`LaneComesFree`), and a stream ends after its
lease (`StreamFollowsLease`).

Bounds: one of two instances. `kinds` has one login that was answered before, two
further requests of any kind and the shutdown; `launches` has two such logins and
two launches, so that one stream follows another. At most two requests are open at
once instead of eight, so that a third is refused. Requests that are still to come
are interchangeable and connect in the order of their numbers. A request is used
once, so the system comes to rest and deadlock is not checked.

**Stream** (`PreviewSession.cfg`). The endpoint is freed only when the input worker
is out of its receive call, no frame is with the encoder, no encoder is being built
and the tap does not run; and nothing is captured or muted once the capture is
drained, however late the audio system returns from its consent dialog
(`NothingAfterDrain`). No frame crosses a change of the encoder, and outside a
change the session, the encoder and the transport agree on the bitrate
(`OneBitrate`); a request for another bitrate is taken up although others follow it
(`BitrateTaken`). The recovery flag is set exactly while a forced key is being
encoded, and while no key is awaited the peer has every frame that a delta refers to
(`RecoverySound`). The taps of one stream do not overlap (`TapsDoNotOverlap`). The
stream implements `StreamLife` (`ImplementsStreamLife`), with `state` mapped to the
session's state, `held` to its lease being there and `waiting` to a callback being
owed. `HostRuntime` has of a stream what `StreamLife` promises and nothing more, its
fairness for the stream included, so the two models fit together.

Bounds: two bitrates, two frames in flight instead of three, one audio restart
instead of three, a tap slot that is free or still held by an earlier connection.
A stopped session stays so; deadlock is not checked.

**Parts that stand on their own** (`Parts.cfg`, module `MCParts`). A behaviour is a
run of one part, chosen in the initial state with its command line or input.

- A probe that exits with PASS did what it reports (`PassIsEarned`). The encoder
  probe wrote every frame but the simulated loss, in order, and recovered; the
  players presented as many frames as requested, in order. The KMS player times each
  from its own submission whatever the decoder swallowed, since it goes by
  timestamps. The Wayland player goes by the place in a queue: each frame that the
  decoder swallowed or gave out twice moves the stamps behind it by one frame, and
  nothing else moves one. The encoder probe invalidates
  references only after the lost frame left the encoder (`InvalidateAfterLoss`).
- From a failure of any call in any thread, nothing is released before what was made
  from it, and nothing stays held but the sample that a failed worker leaves in its
  slot; an EGL image or texture that a failed import leaves goes with the display or
  the context. Outstanding feedback keeps to its limit. A buffer on the screen is not
  back in the decoder's pool, except the very one that a failing display call gave to
  the screen and released (`abandoned`) (`ResourcesHeld`).
- Every request that the host's kernel completes through the Wacom bridge was
  answered by its own ioctl on its own interface, late replies included; input
  reaches its endpoint in order, once, and only after the whole tablet was recreated
  (`BridgeFaithful`).
- The encoder of the audio tap gets whole blocks, in order and at most once, across
  the wrap of the indexes, and nothing older than an overrun that it noticed
  (`RingDelivers`).
- The input mapper holds exactly what the delivered events left held, whichever event
  of a packet failed, and a stop that delivered its releases leaves nothing
  (`HeldIsReleased`). Once the lease is over no event changes the desktop
  (`OtherDesktopUntouched`).
- What an encoder writes its decoder gives back. Setup and control packets keep to
  the maximum their header declares; event packets exceed theirs by at most the eight
  bytes of the header. An accepted setup, event or mouse packet is byte for byte what
  the encoder writes for the fields reported, and so is a pen packet but for the bytes
  that its action ignores (4 to 7). The control decoder takes any payload;
  what the stream's session acts on (`ReceiveControl`) is something the encoder writes
  (`CodecsAgree`).
- Conversions, shares of rows and the choice of a mode give what is reported. The
  encoder probe's percentiles are nearest ranks; the players and the X11 probe round
  down and report the nearest rank or the one below (`ComputesItsReport`).
- Everything comes to rest (`ComesToRest`). A probe ends, the bridge ends on both
  sides, the ring is emptied. The exception is stated in the property: the KMS
  player's streaming thread can sleep for ever on a phase (`Stranded`) when the
  worker's failure is notified, without the mutex, between its check and its sleep
  (`missed`), or when the decoder swallows or keeps one of the first two frames. A
  failure notified at any other moment reaches the thread.

Bounds: four frames with every loss frame and every feedback delay up to three, both
queue depths, and one command line per refusal. Streams of three frames in each mode
of the Wayland player, of which two or all are requested, and four in one mode; a
decoder that holds two and swallows or repeats at most one (`MaxFaults`). Five frames,
four buffers and a decoder that holds two for the KMS player, so that a buffer is
reused and the streaming thread can wait for the slot while the worker fails. Two interfaces and three paths, so
that one path too many is refused; two reports and two requests. A ring of two slots
with indexes of two bits and five blocks, so that both wrap. At most two keys held, and
two of the pen's three buttons.
The codecs have every size at which a limit or a further byte begins, and the
percentiles the counts around which a rank changes. The programs end, so deadlock
is not checked.

### Findings

Five runs show the code differing from what a document says of it.

- `native_stop`: while a Client waits for the approval of a certificate, a stop
  can be lost and the stop call then waits until the peer closes.
- `native_error_order`: a receive call whose time-out falls together with the end
  of the connection reports the terminal error with a message still queued.
- `native_pinned`: a setup Client with an exact fingerprint is held in
  `PEER_VALIDATION` although the header says that it proceeds.
- `wacom_unplug`: the bridge's client does not notice that the tablet is unplugged,
  and the host keeps its endpoints, although the protocol has it detach them.
- `video_pitch`: the 10-bit conversion ignores the pitch of the surface, so where the
  driver pads the rows the encoder sees another picture.

`findings` in `PROJECT.json` quotes the lines. Some differences need no run of their
own; the passing properties state what the code does.

- `docs/architecture/macos-authentication.md` speaks of 16 unclaimed tokens, and
  `MaximumSetupTokens` in the code is 4.
- `PLANK_TRANSPORT_EVENT_MAX_PACKET_SIZE` is 65535, and the encoder bounds only the
  payload by that, so a packet can have 65543 bytes (`SizesBounded`). The control
  decoder looks at no maximum; the session's buffer of
  `PLANK_TRANSPORT_CONTROL_MAX_PACKET_SIZE` bytes refuses what is longer.
- The p95 and p99 of the players and of the X11 probe can be one rank below those of
  the encoder probe for the same samples (`NearestOrBelow`).
- After a frame that the decoder swallowed or repeated, the Wayland player's latencies
  are those of another frame (`Shift`), and its gate does not depend on them.
- The KMS player releases a buffer that a failing display call may have left on the
  screen (`abandoned`), and can miss one notification of a failure (`missed`).

## 4. Fairness

- Authentication: the helper's result arrives, because `account-channel.m` bounds
  it by a deadline of four seconds, and `respondForPeer` clears its mark in
  `@finally`.
- Ownership: the main queue of a living process serves what XPC delivered, a
  process that was told to go drains and exits, and the kernel reports the exit to
  the watch. Nothing is assumed of time, health checks or the console.
- Native endpoint: threads that can run do; handshakes, promotions and the final
  drain are bounded by time-outs; a stop call that began goes on; `sample_stats`
  looks at the stop flag every second once the lanes run; the receiver calls again
  and not always with a buffer that is too small (the one strong fairness). The
  peer, the network and the owner's approvals owe nothing.
- Control server and runtime: serial queues run what they hold, and handlers return,
  since what they call is bounded by time-outs of its own. Of the stream only what
  `StreamLife` promises. Nothing is assumed of peers, sends or deadlines.
- Stream: the 20 ms timer fires, ScreenCaptureKit, the encoder and an activated tap
  answer, the input call returns within its second. `receiveControls` makes a
  bitrate due 500 ms after the first request even if others follow, so due ticks are
  fair. Nothing is assumed of the preparation of a tap: it may wait for consent for
  ever, and the drain must not depend on it.
- Parts: threads are scheduled, drivers and GStreamer return (`wait_for_flip` gives up
  by itself), the compositor answers an outstanding feedback, the session queue of
  the tap runs. Nothing is assumed of the tablet, of audio callbacks, of input, or
  of a process of the bridge that is killed.

## 5. What is proved

`AuthenticationSessionProofs` proves for `AuthenticationSession`, for every number
of accounts, peers, secrets and every limit and lifetime, what the runs check on
small instances: type correctness and the nine safety properties of that module,
`TokensLeaveForCause`, `NoTakeover` and `LeaseEndsForCause` as properties of steps.
The only assumptions are those that the modules state about their constants.

`RevocationIsFinal` is not inductive by itself: a record that is with the
verification helper may be older than the last revocation. `EpochInv` adds that the
generation a `respondForPeer` call remembers is the one of its record, so that its
comparison after the helper is a comparison of epochs. `OneLoginOneCredential` is
kept because conversations are drawn fresh, which needs `OriginInv`: the origin of
every record and of the lease has been drawn. The bound on the tables needs the
type invariant, that pruning never adds an entry (`PrunedSubset`), and that a
subset of a bounded table is bounded (`SmallerTable`).

Three of its theorems state what no run repeats: type correctness, that the tables
stay within their limits (`TablesBounded`), and that one verification runs at a time
(`OneVerification`).

`AgentOwnershipProofs` proves `SlotOutlivesProcess` and `ExclusiveAdmission` for any
number of processes, links, restarts and any freshness period. Neither is inductive:
what a process is admitted for is known to it only through the replies on its
channel. `OwnershipInv` adds that a generation which a process knows, or which is on
its way to it, belongs to a lease it was given; that a process which never started has
no lease and no request; that no lease is of a later incarnation of the coordinator
than the running one; and that two living processes with leases have them from
different incarnations. A step of a process only has to show that it learns its
generation from its own channel (`Follows`, `Sends`), a step of the coordinator that it
keeps the leases and tells no generation that is not the lease's (`SameLease`,
`Serves`); only `Register` grants and only `MachineRestart` forgets, and each has an
argument of its own.

`EndpointAndTapProofs` proves `Gated`, `StopIsFinal` and `LaneAccounts` for every
configuration, kind of lane and capacity. `GateInv` ties each position of the worker
to the gate it has passed, also between the look at an approval and the wait for it.
`StopInv` says that the owner returns only from a worker that is finished or was never
started. `LaneInv` describes the lane as one sequence, what was delivered followed by
what is queued: it increases, no element exceeds the number of arrivals, and on a
reliable lane it is complete; `CopyInv` keeps this across the gap between the copy and
the removal, where the worker may evict the head of the queue.

`AgentOwnershipProofs` also proves `StaleAdmissionEnds` and `AdmissionNeverReturns`, for
any freshness period and any delay of messages. `FreshInv` adds times to `OwnershipInv`:
with one call at a time, a success that is on its way answers a request sent before
the lease ended; one that is being handled was timed less than a freshness period
after its request; and an admission lasts one more from there. That is where the
factor 2 comes from, and the proof fails if the renewal counts from the moment
`_valid()` returned.

`PreviewSessionProofs` proves `NothingAfterDrain`, `OneBitrate`, `RecoverySound` and
`TapsDoNotOverlap`, type correctness, and that the stream implements the safety part
of `StreamLife` (`StreamImplementsLife`), for every set of bitrates and every limit on
frames in flight and restarts. The methods are operators on the record of the four
parts, so most lemmas are about what an operator does to such a record, and a step is
a composition of them. `StreamInv` has one part for each class of argument: `TapInv`
follows the race of activation and cancellation of a tap; `DrainInv` says who is left
when the capture is drained and when the endpoint is freed; `RateInv` and `RunInv` tie
frames, encoder, session and transport to one bitrate; `KeyInv` says that there is at
most one forced key in flight, without which its return would not clear the flag
exactly; `ChainInv` is the chain of references. `RunInv` and `ChainInv` do not hold
between the operators of one step, so `Full` is the part that each operator keeps and
`Good` what holds between steps.

`HostRuntimeProofs` proves `UndeliveredIsRevoked`, `LeaseOwned`
and `NeverReplacedAlive`, with type correctness, for any number of requests and
connections. The two lanes and the streams touch each other only through queued
blocks, so the proof reads a queue as the set of its blocks and needs their order in
two places only: a request has one block of a kind in a queue (`Distinct`), and no
handler stands behind the revocation of all tokens (`InOrder`). `UndeliveredIsRevoked`
needs that a request is in one place at a time (`TicketInv`), or the answer of one
handler would overwrite what is bound to another's, and that a lease belongs to a
request that is not handled again (`LeaseInv`). `LeaseOwned` needs that nobody takes
the runtime's lock once the shutdown has passed it (`ShutInv`), that whoever launches
holds the lock with no living stream beside it (`LockInv`), and that the last block of
the stop is dispatched only when no handler is left (`EndInv`).

`EndpointAndTapProofs` proves `RingDelivers` of the audio ring, which it has as an
instance `Tap`, for every number of slots and every width of the indexes, as long as
the slots divide the number of index values and are fewer (`RingSizes`: 16 and 2^32 in
the code, 2 and 4 in the run). Indexes that wrap say little by themselves, so `RingInv`
says that there are counts whose remainders they are: R blocks taken, W published, P
seen taken by the producer, T aimed at by a discard, with P <= R <= W <= P + `Slots`.
That the producer looks at a stale read index only means that it finds less room than
there is. The arithmetic needed, that counts less than `Slots` apart have different
slots although the index wraps between them, is proved from division with remainder.

`WacomBridgeProofs` proves `BridgeFaithful` for any number of interfaces, reports and
requests, with either process dying at any point. The assumption is that run_client
has at least one `--hidraw` path (`SomePaths`). The frames to the host come in the order
of the handshake, so `BridgeInv` says of the frame in each place of the connection what
the host has taken when it gets there; of an input frame, that it is newer than what
its endpoint got and than the input frames before it; and of a reply, that it carries
the outcome of the request, interface and number that it names. `Least`, the interface that a
scan of the client or the host serves next, is the least of a set of numbers; that it
exists is proved from the well-foundedness of the order of the natural numbers.

`InputEventsProofs` proves `HeldIsReleased` and `OtherDesktopUntouched` for every set of
keys and buttons, without an assumption on the constants. A packet becomes a plan of
several events, any of which may be refused or may fail to be built, and what the mapper
holds then is what the last delivered one left. So a plan is described by what holds
between any two of its events (`Linked`): each takes the desktop from what the state
before it holds to what its own state holds. Plans are joined in the order of the code,
lift, leave, enter, point, toggle, and `InputInv` says that the rest of a plan is a
plan. After the stop `Releasing` takes its place: the releases that are left name all
that is held, until one is lost.

`VideoPipelineProofs` proves for the encoder probe, for every command line that the
option loop accepts (`SomeOptions`, which the run's command lines satisfy),
`InvalidateAfterLoss` and the encoder's parts of `PassIsEarned` (`PassIsComplete`) and of
`ResourcesHeld` (`NothingOutlivesItsOwner`). `FlowInv` counts the frames that were
written or dropped on purpose: the frame that is drained is the next, the queue has
those after it in order, and main is at most one frame past the queue, with each frame
in its slot. So main takes a slot only when its frame is out, and when the loop is left
without an error all frames are. For `InvalidateAfterLoss` it is this count that turns
the check of `--invalidate-delay-frames` against the queue's depth into the fact that the
loss came out. `HeldInv` says that what is held is closed under what it was made from,
that the setup has acquired its stages up to this one, that the teardown has released
its entries up to this one, and that nothing is held after it, whichever thread failed.

`FreshInv`, `StreamInv`, `Inv` of the runtime, `RingInv`, `BridgeInv`, `InputInv`,
`FlowInv` and `HeldInv` hold in TLC on the instances of the runs; the element types of
sequences that mix kinds of values, which TLC cannot compare, are left to the proof.

Most leaves are proved by Zenon and say so, which keeps a module's proof to a few
minutes: the encoding for the SMT solver becomes slower with every obligation of a
module that uses it, and is given five seconds. What needs arithmetic, sequences or
large case splits is left to the solver.

Only model-checked, because liveness under fairness is beyond the prover:
`SlotComesFree`, `StopCompletes`, `LaneComesFree`, `StreamFollowsLease`,
`BitrateTaken`, `ComesToRest`, the liveness half of `ImplementsStreamLife` and the other
properties of that kind. Only model-checked although they are safety properties: what
the receive call of the native endpoint reports, the parts of `PassIsEarned` and
`ResourcesHeld` that are about the two players, `CodecsAgree`, for which the division of
32-bit values into bytes is not proved yet, and `ComputesItsReport`, which is about
definitions by recursion over samples, for which the provers cannot do the induction.

## 6. Not modelled

The vendored QUIC implementation, TLS, Foundation, XPC, ScreenCaptureKit, the audio
system, CUDA, NVENC, NvFBC, GStreamer, EGL, DRM and UHID appear only through the
outcomes their callers can see. Formatting, logging, statistics and the wording of
replies are left out. A crash of a graphical process is `Exit`; of the machine
process, `MachineRestart`; of a process of the bridge, its death at any point.
Authentication keeps nothing on disk, so a crash of its process is the end of its
state.

In a stream, the disposal of a session that was never started, the exit of the
process after a failed destruction of a tap, and the times of the bitrate's
debounce are left out. In the input mapper, positions, click counts and scrolling
change nothing that is held and are left out. In the bridge a send never blocks. In
the native endpoint a panic of the worker thread is left out; a runtime that cannot be
built is an outcome of `Connect`.

Not modelled at all: the send lanes, the wire format and the rate control of the
transport, and the older tunneled endpoint; the cooldown and the reaping of the
account helper; desktop start and desktop provisioning; display modes; the Opus
packets and the audio clock; the output volume and the posting of single events,
which have no state; the HTTP parser, of which `ControlServer` has the outcomes; the
remaining probes, which call one driver in a straight line and print what it
answered; build and packaging.

## 7. Plan

1. Transport: send lanes and bitrate change of the native endpoint, the tunneled
   endpoint of `lib.rs`, rate control.
2. Smaller machines: verification helper with its cooldown, desktop start, desktop
   provisioning across crashes, the Opus packets and the audio clock.
3. Abstract specifications: exclusive ownership of a desktop, refined by
   `AgentOwnership`; a lossy first-in-first-out lane, refined by `NativeEndpoint`.
4. Proofs for the two players and for the packet codecs.
