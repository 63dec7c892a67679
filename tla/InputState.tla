----------------------------- MODULE InputState ------------------------------
(***************************************************************************)
(* What the input mapper (InputEvents) holds and what its events have left *)
(* on the desktop, and what it promises about the two.                     *)
(***************************************************************************)
VARIABLES
  state,     \* the mapper's _state and _pen
  stopping,  \* no | yes | over: the one stop call
  whole,     \* every release of the stop call was built and delivered
  lease,     \* the lease stands
  desk       \* what the delivered events have left held on the desktop

Alpha == "alpha"
NoKey == "none"

\* What a state holds.
Held(s) ==
  {<<"key", k>> : k \in s.keys} \union {<<"button", b>> : b \in s.buttons}
  \union {<<"penButton", b>> : b \in s.pen.buttons}
  \union (IF s.pen.down THEN {<<"tip", 0>>} ELSE {})
  \union (IF s.pen.near THEN {<<"near", 0>>} ELSE {})

\* Until it stops the mapper holds exactly what the delivered events pressed
\* and did not release, whichever event of a packet was refused or not built;
\* a pen that touches or presses a button is near, and a repeating key is held.
HeldWasDelivered ==
  /\ stopping = "no" => desk = Held(state)
  /\ (state.pen.down \/ state.pen.buttons # {}) => state.pen.near
  /\ state.repeat # NoKey => state.repeat \in state.keys

\* A stop whose releases were all built and delivered leaves nothing held on
\* the desktop, no modifier flag and no repeating key.
StopReleasesAll ==
  stopping = "over" =>
    /\ whole => desk = {}
    /\ Held(state) = {} /\ state.repeat = NoKey /\ state.flags \subseteq {Alpha}

\* Both: what is held was delivered until PLANKMacNativeInput's stop, and
\* nothing after it.
HeldIsReleased == HeldWasDelivered /\ StopReleasesAll

\* Once the lease is over no event, a release of the stop call included,
\* changes the desktop, which may be another session's by then.
OtherDesktopUntouched == [][~lease => desk' = desk]_<<lease, desk>>

=============================================================================
