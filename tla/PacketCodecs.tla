---------------------------- MODULE PacketCodecs ----------------------------
(***************************************************************************)
(* The packet formats of protocol/plank-transport/include: setup, control  *)
(* and event packets, which have an encoder and a decoder, and the         *)
(* absolute mouse and pen payloads, whose decoder is the host's.  A packet *)
(* is its header's bytes and its total size; setup and event payloads are  *)
(* copied unchanged and are left out, the other payloads are in the head.  *)
(* A control packet is followed to what the stream's session does with it. *)
(***************************************************************************)
EXTENDS Integers, Sequences

CONSTANTS Types, Flags, Statuses, RequestIds,   \* header fields considered
          Sizes,                                \* payload sizes considered
          Values                                \* 32-bit values considered

VARIABLES codec, fields, packet, decoded

vars == <<codec, fields, packet, decoded>>

None == [none |-> TRUE]
Byte == 256

U16(v) == <<(v \div Byte) % Byte, v % Byte>>
U32(v) == U16(v \div 65536) \o U16(v % 65536)
ReadU16(bytes, at) == bytes[at + 1] * Byte + bytes[at + 2]
ReadU32(bytes, at) == ReadU16(bytes, at) * 65536 + ReadU16(bytes, at + 2)

-----------------------------------------------------------------------------
(* Setup packets.                                                          *)

SetupMagic == 1347179313
SetupVersion == 1
SetupHeader == 20
SetupMaximum == 65536
SetupPayloadMaximum == SetupMaximum - SetupHeader
SetupFlags == 0 .. 3

EncodeSetup(f) ==
  IF f.type = 0 \/ f.request_id = 0 \/ f.flags \notin SetupFlags
     \/ f.payload_size > SetupPayloadMaximum
  THEN None
  ELSE [head |-> U32(SetupMagic) \o U16(SetupVersion) \o U16(f.type) \o U16(f.flags)
                 \o U16(f.status) \o U32(f.request_id) \o U32(f.payload_size),
        size |-> SetupHeader + f.payload_size]

\* Mutant: any size that holds the payload is taken.
DecodeSetupLoose(p) ==
  IF p.size < SetupHeader \/ p.size > SetupMaximum \/ ReadU32(p.head, 0) # SetupMagic
     \/ ReadU16(p.head, 4) # SetupVersion \/ ReadU16(p.head, 6) = 0
     \/ ReadU32(p.head, 12) = 0 \/ ReadU16(p.head, 8) \notin SetupFlags
     \/ p.size < SetupHeader + ReadU32(p.head, 16)
  THEN None
  ELSE [type |-> ReadU16(p.head, 6), flags |-> ReadU16(p.head, 8),
        status |-> ReadU16(p.head, 10), request_id |-> ReadU32(p.head, 12),
        payload_size |-> ReadU32(p.head, 16)]

DecodeSetup(p) ==
  IF p.size < SetupHeader \/ p.size > SetupMaximum \/ ReadU32(p.head, 0) # SetupMagic
     \/ ReadU16(p.head, 4) # SetupVersion \/ ReadU16(p.head, 6) = 0
     \/ ReadU32(p.head, 12) = 0 \/ ReadU16(p.head, 8) \notin SetupFlags
     \/ ReadU32(p.head, 16) > SetupPayloadMaximum
     \/ p.size # SetupHeader + ReadU32(p.head, 16)
  THEN None
  ELSE [type |-> ReadU16(p.head, 6), flags |-> ReadU16(p.head, 8),
        status |-> ReadU16(p.head, 10), request_id |-> ReadU32(p.head, 12),
        payload_size |-> ReadU32(p.head, 16)]

-----------------------------------------------------------------------------
(* Control and event packets share a header: magic, type, payload size.    *)

ControlMagic == 1347175473
ControlMaximum == 20
EventMagic == 1347175729
EventMaximum == 65535
Header == 8

Short(magic, type, size) == U32(magic) \o U16(type) \o U16(size)

\* The values, four bytes each.
Payload(values) ==
  [i \in 1 .. 4 * Len(values) |-> U32(values[(i - 1) \div 4 + 1])[((i - 1) % 4) + 1]]

EncodeControl(f) ==
  IF Len(f.values) > 3 THEN None
  ELSE [head |-> Short(ControlMagic, f.type, 4 * Len(f.values)) \o Payload(f.values),
        size |-> Header + 4 * Len(f.values)]

\* The payload may have any size that the header names, beyond ControlMaximum too.
DecodeControl(p) ==
  IF p.size < Header \/ ReadU32(p.head, 0) # ControlMagic
     \/ p.size # Header + ReadU16(p.head, 6)
  THEN None
  ELSE [type |-> ReadU16(p.head, 4), payload |-> SubSeq(p.head, Header + 1, p.size)]

ClientDisconnect == 1
RequestIdr == 3
InvalidateReferenceFrames == 4
SetVideoBitrate == 5

\* Mutant: an invalidation may carry more than the two frame numbers.
ReceiveControlLoose(p) ==
  LET d == DecodeControl(p)
      value(i) == ReadU32(d.payload, 4 * (i - 1))
      is(type, size) == d.type = type /\ Len(d.payload) = size
  IN IF p.size > ControlMaximum \/ d = None THEN "stop"
     ELSE IF \/ is(RequestIdr, 0)
             \/ d.type = InvalidateReferenceFrames /\ Len(d.payload) >= 8 /\ value(1) <= value(2)
     THEN "key"
     ELSE IF is(SetVideoBitrate, 4) /\ value(1) \in 10000 .. 150000 THEN "bitrate"
     ELSE "stop"

\* What the session makes of a control packet: its buffer has ControlMaximum
\* bytes, each type it knows has one size, and anything else ends the stream.
ReceiveControl(p) ==
  LET d == DecodeControl(p)
      value(i) == ReadU32(d.payload, 4 * (i - 1))
      is(type, size) == d.type = type /\ Len(d.payload) = size
  IN IF p.size > ControlMaximum \/ d = None \/ is(ClientDisconnect, 0) THEN "stop"
     ELSE IF \/ is(RequestIdr, 0)
             \/ is(InvalidateReferenceFrames, 8) /\ value(1) <= value(2)
     THEN "key"
     ELSE IF is(SetVideoBitrate, 4) /\ value(1) \in 10000 .. 150000 THEN "bitrate"
     ELSE "stop"

\* Mutant: the size is truncated before it is checked.
EncodeEventTruncated(f) ==
  [head |-> Short(EventMagic, f.type, f.payload_size % 65536),
   size |-> Header + f.payload_size]

\* The bound is on the payload; EventMaximum, declared for the packet, is not
\* looked at.
EncodeEvent(f) ==
  IF f.payload_size > 65535 THEN None
  ELSE [head |-> Short(EventMagic, f.type, f.payload_size), size |-> Header + f.payload_size]

DecodeEvent(p) ==
  IF p.size < Header \/ ReadU32(p.head, 0) # EventMagic
     \/ p.size # Header + ReadU16(p.head, 6)
  THEN None
  ELSE [type |-> ReadU16(p.head, 4), payload_size |-> ReadU16(p.head, 6)]

-----------------------------------------------------------------------------
(* Input payloads.                                                         *)

EncodeMouse(f) ==
  [head |-> U16(f.x) \o U16(f.y) \o U16(f.maximum_x) \o U16(f.maximum_y), size |-> 8]

\* The host's reading of it.
DecodeMouse(p) ==
  LET x == ReadU16(p.head, 0)
      y == ReadU16(p.head, 2)
      mx == ReadU16(p.head, 4)
      my == ReadU16(p.head, 6)
  IN IF p.size # 8 \/ mx = 0 \/ my = 0 \/ x > mx \/ y > my THEN None
     ELSE [x |-> x, y |-> y, maximum_x |-> mx, maximum_y |-> my]

\* A float travels as the four bytes of its representation.
EncodePen(f) ==
  [head |-> <<f.event_type, f.tool_type, f.buttons, f.tilt>> \o U16(f.rotation) \o <<0, 0>>
            \o f.x \o f.y \o f.pressure \o f.major \o f.minor \o U32(0),
   size |-> 32]

Zero == <<0, 0, 0, 0>>
One == <<63, 128, 0, 0>>
\* The representations of the numbers from 0 to 1, negative zero among them.
InUnit(f) ==
  \/ f[1] < 63 \/ f = <<128, 0, 0, 0>>
  \/ f[1] = 63 /\ (f[2] < 128 \/ f = One)

\* Mutant: the reserved bytes are not looked at.
DecodePenUnreserved(p) ==
  LET float(at) == SubSeq(p.head, at + 1, at + 4)
      rotation == ReadU16(p.head, 4)
  IN IF \/ p.size # 32 \/ p.head[1] > 7
        \/ p.head[2] \notin 1 .. 2 \/ p.head[3] > 7
        \/ \E at \in {8, 12, 16, 20, 24} : ~InUnit(float(at))
        \/ p.head[4] > 90 /\ p.head[4] # 255
        \/ rotation > 359 /\ rotation # 65535
     THEN None
     ELSE [event_type |-> p.head[1], tool_type |-> p.head[2], buttons |-> p.head[3],
           tilt |-> p.head[4], rotation |-> rotation, x |-> float(8), y |-> float(12),
           pressure |-> float(16), major |-> float(20), minor |-> float(24)]

\* The host's reading of it: a leaving pen (4, 6, 7) has no fields, a change
\* of buttons (5) no position.
DecodePen(p) ==
  LET action == p.head[1]
      float(at) == SubSeq(p.head, at + 1, at + 4)
      rotation == ReadU16(p.head, 4)
  IN IF \/ p.size # 32
        \/ action > 7 \/ p.head[7] # 0 \/ p.head[8] # 0 \/ SubSeq(p.head, 29, 32) # Zero
        \/ /\ action \notin {4, 6, 7}
           /\ p.head[2] \notin 1 .. 2 \/ p.head[3] > 7
        \/ /\ action \notin {4, 5, 6, 7}
           /\ \/ \E at \in {8, 12, 16, 20, 24} : ~InUnit(float(at))
              \/ p.head[4] > 90 /\ p.head[4] # 255
              \/ rotation > 359 /\ rotation # 65535
     THEN None
     ELSE IF action \in {4, 6, 7} THEN [event_type |-> action]
     ELSE IF action = 5
     THEN [event_type |-> action, tool_type |-> p.head[2], buttons |-> p.head[3]]
     ELSE [event_type |-> action, tool_type |-> p.head[2], buttons |-> p.head[3],
           tilt |-> p.head[4], rotation |-> rotation, x |-> float(8), y |-> float(12),
           pressure |-> float(16), major |-> float(20), minor |-> float(24)]

-----------------------------------------------------------------------------
(* A sender encodes; the packet may reach the decoder damaged.             *)

Encode(c, f) ==
  CASE c = "setup" -> EncodeSetup(f) [] c = "control" -> EncodeControl(f)
    [] c = "event" -> EncodeEvent(f) [] c = "mouse" -> EncodeMouse(f)
    [] c = "pen" -> EncodePen(f)
Decode(c, p) ==
  CASE c = "setup" -> DecodeSetup(p) [] c = "control" -> DecodeControl(p)
    [] c = "event" -> DecodeEvent(p) [] c = "mouse" -> DecodeMouse(p)
    [] c = "pen" -> DecodePen(p)

\* What the program may encode: a mouse inside its maxima, a pen in range.
Inputs ==
  [setup |-> [type : Types, flags : Flags, status : Statuses, request_id : RequestIds,
              payload_size : Sizes],
   control |-> [type : {ClientDisconnect, RequestIdr, InvalidateReferenceFrames,
                        SetVideoBitrate, 65535},
                values : UNION {[1 .. n -> Values] : n \in 0 .. 4}],
   event |-> [type : Types, payload_size : Sizes],
   mouse |-> {m \in [x : Types, y : Types, maximum_x : Types, maximum_y : Types] :
                m.maximum_x > 0 /\ m.maximum_y > 0
                /\ m.x <= m.maximum_x /\ m.y <= m.maximum_y},
   pen |-> [event_type : 0 .. 7, tool_type : 1 .. 2, buttons : {0, 5}, tilt : {0, 90, 255},
            rotation : {0, 359, 65535}, x : {Zero, One}, y : {<<62, 128, 1, 2>>},
            pressure : {<<63, 127, 255, 255>>}, major : {Zero}, minor : {One}]]

\* The bytes of a packet whose head is all of it, at another size.
Resized(p, n) ==
  [head |-> [i \in 1 .. n |-> IF i \in DOMAIN p.head THEN p.head[i] ELSE 1], size |-> n]

\* One byte of the head, or the size, changed on the way.
Damaged(c, p) ==
  {[p EXCEPT !.head[i] = b] : i \in DOMAIN p.head, b \in {0, 1, 127}}
  \union {IF c \in {"setup", "event"} THEN [p EXCEPT !.size = n] ELSE Resized(p, n) :
             n \in {p.size - 1, p.size + 1}}

\* A packet whose header agrees with a size that no encoder writes: one byte
\* over the limit, and for control also one that is no number of values.
Overlong(c, p) ==
  CASE c = "setup" ->
         {[head |-> SubSeq(p.head, 1, 16) \o U32(SetupPayloadMaximum + 1),
           size |-> SetupMaximum + 1]}
    [] c = "control" ->
         {[Resized(p, Header + n) EXCEPT !.head[7] = 0, !.head[8] = n] : n \in {6, 10, 13}}
    [] OTHER -> {}

Init == codec \in DOMAIN Inputs /\ fields \in Inputs[codec] /\ packet = None /\ decoded = None

Send ==
  /\ packet = None /\ Encode(codec, fields) # None
  /\ packet' = Encode(codec, fields) /\ decoded' = Decode(codec, packet')
  /\ UNCHANGED <<codec, fields>>

SendDamaged ==
  /\ packet = None
  /\ LET p == Encode(codec, fields)
     IN p # None /\ packet' \in Damaged(codec, p) \union Overlong(codec, p)
  /\ decoded' = Decode(codec, packet')
  /\ UNCHANGED <<codec, fields>>

Next == Send \/ SendDamaged

Spec == Init /\ [][Next]_vars

-----------------------------------------------------------------------------
(* Properties.                                                             *)

\* What an encoder of plank-transport writes its decoder gives back, field
\* for field, for every payload size that the encoder takes.
RoundTrip ==
  (packet # None /\ packet = Encode(codec, fields)) =>
    /\ decoded # None
    /\ codec = "control" =>
         decoded.type = fields.type /\ decoded.payload = Payload(fields.values)
    /\ codec # "control" => \A k \in DOMAIN decoded : decoded[k] = fields[k]

\* Setup and control packets keep to the MAX_PACKET_SIZE of their headers.
\* Event packets do not: they exceed theirs by up to the size of the header.
SizesBounded ==
  (packet # None /\ packet = Encode(codec, fields)) =>
    /\ codec = "setup" => packet.size <= SetupMaximum
    /\ codec = "control" => packet.size <= ControlMaximum
    /\ codec = "event" => packet.size <= EventMaximum + Header

\* The bytes of a pen packet to which its action gives no meaning.
Meaningless(action) ==
  CASE action \in {4, 6, 7} -> 2 .. 6 \union 9 .. 28
    [] action = 5 -> 4 .. 6 \union 9 .. 28
    [] OTHER -> {}

\* What is accepted means one thing: a setup, event or mouse packet is, byte
\* for byte, what the encoder writes for the fields the decoder reports, and a
\* pen packet is but for the bytes that its action ignores.  A control packet
\* is its type and payload, at whatever size; where the session acts on it, it
\* is one that the encoder writes.  So a packet damaged in one byte, cut short
\* or overlong is refused or is another well-formed packet.
AcceptedReencodes ==
  (packet # None /\ decoded # None) =>
    CASE codec = "control" ->
           LET values == [i \in 1 .. Len(decoded.payload) \div 4 |->
                            ReadU32(decoded.payload, 4 * (i - 1))]
           IN /\ packet.head = Short(ControlMagic, decoded.type, Len(decoded.payload))
                                \o decoded.payload
              /\ ReceiveControl(packet) # "stop" =>
                   packet = EncodeControl([type |-> decoded.type, values |-> values])
      [] codec = "pen" ->
           LET written == EncodePen([k \in DOMAIN fields |->
                                       IF k \in DOMAIN decoded THEN decoded[k] ELSE fields[k]])
           IN /\ packet.size = written.size
              /\ \A i \in 1 .. 32 \ Meaningless(decoded.event_type) :
                   packet.head[i] = written.head[i]
      [] OTHER -> Encode(codec, decoded) = packet

\* All three: encoders, decoders and the session agree on the packets.
CodecsAgree == RoundTrip /\ SizesBounded /\ AcceptedReencodes

=============================================================================
