---------------------------- MODULE InputEvents ----------------------------
(***************************************************************************)
(* Remote input on the macOS host: PLANKMacInputEvents turns packets into  *)
(* events and keeps what is held, PLANKMacNativeInput delivers each event  *)
(* under the stream's authority, which can end between any two of them.    *)
(* Positions, click counts, scrolling and the owner's monotonic clock are  *)
(* left out.                                                               *)
(***************************************************************************)
EXTENDS InputState, Integers, Sequences, FiniteSets, Functions

CONSTANTS Keys,          \* plain keys
          ModifierKeys,  \* keys of one modifier flag
          Buttons,       \* mouse buttons
          PenBits,       \* pen buttons: some of the bits 1, 2 and 4
          MaxHeld        \* bound: things held at once

VARIABLES
  latched,   \* _state.stopped
  stopped,   \* PLANKMacNativeInput's _stopped
  plan,      \* events of the running call not yet delivered, with the state of each
  valid, ready   \* validity(); the endpoint is READY

vars == <<state, latched, stopped, plan, stopping, whole, lease, valid, ready, desk>>
authority == <<lease, valid, ready>>

CapsLock == "caps"
Shift == "shift"
AllKeys == Keys \union ModifierKeys \union {CapsLock}
Modifier(key) == IF key \in ModifierKeys THEN {Shift} ELSE {}

Released == [near |-> FALSE, down |-> FALSE, tool |-> 0, buttons |-> {}]
Init ==
  /\ state \in {[keys |-> {}, buttons |-> {}, flags |-> f, repeat |-> NoKey,
                 pen |-> Released] : f \in {{}, {Alpha}}}
  /\ latched = FALSE /\ stopped = FALSE /\ plan = <<>> /\ stopping = "no" /\ whole = TRUE
  /\ lease = TRUE /\ valid = TRUE /\ ready = TRUE /\ desk = {}

\* An event, and the state that is kept once it is delivered.
Event(op, what, next) == [op |-> op, what |-> what, next |-> next]

-----------------------------------------------------------------------------
(* One packet.                                                             *)

Button(s, button, down) ==
  IF (button \in s.buttons) = down THEN <<>>
  ELSE IF down
  THEN <<Event("press", <<"button", button>>, [s EXCEPT !.buttons = @ \union {button}])>>
  ELSE <<Event("release", <<"button", button>>, [s EXCEPT !.buttons = @ \ {button}])>>

\* The flags that a key event leaves: the wire's, the latch, and the key's own
\* while any key of that flag is held.
KeyFlags(s, key, down, wire) ==
  LET own == Modifier(key)
      heldElsewhere == \E k \in s.keys \ {key} : Modifier(k) = own
      flags == wire \union (s.flags \intersect {Alpha})
      after == IF down \/ heldElsewhere THEN flags \union own ELSE flags \ own
  IN IF key = CapsLock /\ down
     THEN (after \ {Alpha}) \union ({Alpha} \ after) ELSE after

\* Mutant: the key that repeats goes on when it is released.
KeyRepeatKept(s, key, down, wire, repeats) ==
  IF ~down /\ key \notin s.keys THEN <<>>
  ELSE IF down /\ key \in s.keys /\ key \notin Keys THEN <<>>
  ELSE <<Event(IF ~down THEN "release" ELSE IF key \in s.keys THEN "move" ELSE "press",
               <<"key", key>>,
               [s EXCEPT !.keys = IF down THEN @ \union {key} ELSE @ \ {key},
                         !.flags = KeyFlags(s, key, down, wire),
                         !.repeat = IF down /\ key \notin s.keys /\ key \in Keys
                                    THEN IF repeats THEN key ELSE NoKey ELSE @])>>

\* A held plain key repeats without a change; the newest one owns repetition.
Key(s, key, down, wire, repeats) ==
  IF ~down /\ key \notin s.keys THEN <<>>
  ELSE IF down /\ key \in s.keys /\ key \notin Keys THEN <<>>
  ELSE <<Event(IF ~down THEN "release" ELSE IF key \in s.keys THEN "move" ELSE "press",
               <<"key", key>>,
               [s EXCEPT !.keys = IF down THEN @ \union {key} ELSE @ \ {key},
                         !.flags = KeyFlags(s, key, down, wire),
                         !.repeat = IF ~down /\ key = @ THEN NoKey
                                    ELSE IF down /\ key \notin s.keys /\ key \in Keys
                                    THEN IF repeats THEN key ELSE NoKey ELSE @])>>

\* The state that some events leave, delivered in s.
After(s, events) == IF events = <<>> THEN s ELSE events[Len(events)].next

\* Some events, and those of the next stage from the state they leave.
Then(s, events, Stage(_)) == events \o Stage(After(s, events))

\* The pen button of one bit, if it is one of toggled.
Toggle(s, toggled, bit) ==
  IF bit \notin toggled THEN <<>>
  ELSE IF bit \in s.pen.buttons
  THEN <<Event("release", <<"penButton", bit>>, [s EXCEPT !.pen.buttons = @ \ {bit}])>>
  ELSE <<Event("press", <<"penButton", bit>>, [s EXCEPT !.pen.buttons = @ \union {bit}])>>

\* Every bit of toggled in turn.
ToggleButtons(s, toggled) ==
  Then(s, Toggle(s, toggled, 1),
       LAMBDA s1 : Then(s1, Toggle(s1, toggled, 2), LAMBDA s2 : Toggle(s2, toggled, 4)))

LiftTip(s) ==
  IF s.pen.down THEN <<Event("release", <<"tip", 0>>, [s EXCEPT !.pen.down = FALSE])>> ELSE <<>>

LeaveProximity(s) ==
  IF s.pen.near THEN <<Event("release", <<"near", 0>>, [s EXCEPT !.pen.near = FALSE])>> ELSE <<>>

\* Its buttons, its tip, its proximity, in that order.
ReleasePen(s) ==
  Then(s, ToggleButtons(s, s.pen.buttons),
       LAMBDA s1 : Then(s1, LiftTip(s1), LeaveProximity))

EnterProximity(s, tool) ==
  IF s.pen.near THEN <<>>
  ELSE <<Event("press", <<"near", 0>>,
               [s EXCEPT !.pen = [near |-> TRUE, down |-> FALSE, tool |-> tool,
                                  buttons |-> {}]])>>

\* The tip touches, lifts or moves; a button event has no point.
Point(s, action) ==
  LET down == action \in {1, 3}
      op == IF down = s.pen.down THEN "move" ELSE IF down THEN "press" ELSE "release"
  IN IF action = 5 THEN <<>>
     ELSE <<Event(op, <<"tip", 0>>, [s EXCEPT !.pen.down = down])>>

ChangeButtons(s, buttons) ==
  ToggleButtons(s, (s.pen.buttons \ buttons) \union (buttons \ s.pen.buttons))

Leaving(action) == action \in {4, 6, 7}

\* A tool that leaves or gives way to another is released; then the tool
\* enters, points and has its buttons, except when it left or was never near.
Pen(s, action, tool, buttons) ==
  Then(s, IF Leaving(action) \/ (s.pen.near /\ s.pen.tool # tool) THEN ReleasePen(s) ELSE <<>>,
       LAMBDA s1 :
         IF Leaving(action) \/ (action = 5 /\ ~s1.pen.near) THEN <<>>
         ELSE Then(s1, EnterProximity(s1, tool),
                   LAMBDA s2 : Then(s2, Point(s2, action),
                                    LAMBDA s3 : ChangeButtons(s3, buttons))))

Repeat(s) == IF s.repeat = NoKey THEN <<>> ELSE <<Event("move", <<"key", s.repeat>>, s)>>

Possible(s) ==
  {Button(s, b, down) : b \in Buttons, down \in BOOLEAN}
  \union {Key(s, k, down, wire, repeats) :
            k \in AllKeys, down \in BOOLEAN, wire \in {{}, {Shift}}, repeats \in BOOLEAN}
  \union {Pen(s, action, tool, buttons) :
            action \in 0 .. 7, tool \in 1 .. 2, buttons \in SUBSET PenBits}
  \union {Repeat(s)}

\* The packets considered.
Packets(s) ==
  {events \in Possible(s) : \A i \in DOMAIN events : Cardinality(Held(events[i].next)) <= MaxHeld}

-----------------------------------------------------------------------------
(* PLANKMacNativeInput.                                                    *)

Authorized == lease /\ valid /\ ready
Idle == plan = <<>> /\ stopping = "no" /\ ~stopped

\* consumeType and repeatAtTime: the packet's events are worked out; a mapper
\* that has latched, or authority that is gone, ends the input.
Consume ==
  /\ Idle
  /\ IF Authorized /\ ~latched
     THEN plan' \in Packets(state) /\ UNCHANGED stopped
     ELSE stopped' = TRUE /\ UNCHANGED plan
  /\ UNCHANGED <<state, latched, stopping, whole, authority, desk>>

Apply(event) ==
  CASE event.op = "press" -> desk \union {event.what}
    [] event.op = "release" -> desk \ {event.what}
    [] OTHER -> desk

\* Mutant: the packet's state is kept although the event was refused.
DeliverWithoutRollback ==
  /\ plan # <<>> /\ stopping = "no"
  /\ state' = Head(plan).next
  /\ IF Authorized
     THEN desk' = Apply(Head(plan)) /\ plan' = Tail(plan) /\ UNCHANGED stopped
     ELSE plan' = <<>> /\ stopped' = TRUE /\ UNCHANGED desk
  /\ UNCHANGED <<latched, stopping, whole, authority>>

\* deliverAuthorized, under the lock of the sessions; what was not delivered is
\* not kept.
Deliver ==
  /\ plan # <<>> /\ stopping = "no"
  /\ IF Authorized
     THEN /\ desk' = Apply(Head(plan)) /\ state' = Head(plan).next /\ plan' = Tail(plan)
          /\ UNCHANGED stopped
     ELSE plan' = <<>> /\ stopped' = TRUE /\ UNCHANGED <<state, desk>>
  /\ UNCHANGED <<latched, stopping, whole, authority>>

\* No event could be built: the mapper latches and the input ends.
BuildFails ==
  /\ plan # <<>> /\ stopping = "no"
  /\ latched' = TRUE /\ stopped' = TRUE /\ plan' = <<>>
  /\ UNCHANGED <<state, stopping, whole, authority, desk>>

\* The members of a set, one after the other.
Listed(S) == CHOOSE f \in Bijection(1 .. Cardinality(S), S) : TRUE

\* Mutant: the pen is not released.
ReleasesWithoutPen(s) ==
  LET up(kind, held) == [i \in 1 .. Len(held) |-> Event("release", <<kind, held[i]>>, s)]
  IN up("key", Listed(s.keys)) \o up("button", Listed(s.buttons))

\* stopAndCopyReleaseEvents: the pen, the keys, the buttons.
Releases(s) ==
  LET up(kind, held) == [i \in 1 .. Len(held) |-> Event("release", <<kind, held[i]>>, s)]
  IN ReleasePen(s) \o up("key", Listed(s.keys)) \o up("button", Listed(s.buttons))

Without(events, i) == SubSeq(events, 1, i - 1) \o SubSeq(events, i + 1, Len(events))

\* stop, between two packets: the mapper forgets what it held, and one of the
\* releases may fail to be built.
Stop ==
  /\ plan = <<>> /\ stopping = "no"
  /\ stopped' = TRUE /\ latched' = TRUE /\ stopping' = "yes"
  /\ \E built \in {Releases(state)}
                  \union {Without(Releases(state), i) : i \in DOMAIN Releases(state)} :
       plan' = built /\ whole' = (built = Releases(state))
  /\ state' = [state EXCEPT !.keys = {}, !.buttons = {}, !.repeat = NoKey,
                            !.flags = @ \intersect {Alpha},
                            !.pen = [@ EXCEPT !.near = FALSE, !.down = FALSE, !.buttons = {}]]
  /\ UNCHANGED <<authority, desk>>

\* Mutant: the lease is not looked at again.
DeliverReleaseUnchecked ==
  /\ stopping = "yes" /\ plan # <<>>
  /\ plan' = Tail(plan)
  /\ IF valid THEN desk' = Apply(Head(plan)) /\ UNCHANGED whole
              ELSE whole' = FALSE /\ UNCHANGED desk
  /\ UNCHANGED <<state, latched, stopped, stopping, authority>>

\* One release; the end of the lease ends the loop.
DeliverRelease ==
  /\ stopping = "yes" /\ plan # <<>>
  /\ plan' = IF lease THEN Tail(plan) ELSE <<>>
  /\ IF lease /\ valid THEN desk' = Apply(Head(plan)) /\ UNCHANGED whole
                       ELSE whole' = FALSE /\ UNCHANGED desk
  /\ UNCHANGED <<state, latched, stopped, stopping, authority>>

StopReturns ==
  /\ stopping = "yes" /\ plan = <<>> /\ stopping' = "over"
  /\ UNCHANGED <<state, latched, stopped, plan, whole, authority, desk>>

-----------------------------------------------------------------------------
(* The lease and the endpoint end once; validity comes and goes.           *)

LeaseEnds == lease /\ lease' = FALSE
             /\ UNCHANGED <<state, latched, stopped, plan, stopping, whole, valid, ready, desk>>
EndpointEnds == ready /\ ready' = FALSE
                /\ UNCHANGED <<state, latched, stopped, plan, stopping, whole, lease, valid, desk>>
ValidityChanges == valid' = ~valid
                   /\ UNCHANGED <<state, latched, stopped, plan, stopping, whole, lease, ready,
                                  desk>>

Next ==
  \/ Consume \/ Deliver \/ BuildFails \/ Stop \/ DeliverRelease \/ StopReturns
  \/ LeaseEnds \/ EndpointEnds \/ ValidityChanges

Spec == Init /\ [][Next]_vars

=============================================================================
