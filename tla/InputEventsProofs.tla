-------------------------- MODULE InputEventsProofs ---------------------------
(***************************************************************************)
(* The macOS host's remote input (module InputEvents), for every set of    *)
(* keys, buttons and pen buttons.                                          *)
(*                                                                         *)
(* A packet's events are delivered one by one and any of them may be       *)
(* refused, so the proof follows the plan: each event takes the desktop    *)
(* from what the state before it holds to what its own state holds.  Plans *)
(* are joined stage by stage, as the code joins them, and the rest of a    *)
(* plan is a plan again.  The stop's releases name all that is held.       *)
(***************************************************************************)
EXTENDS InputEvents, FiniteSetTheorems, TLAPS

-----------------------------------------------------------------------------
(* States, events and plans.                                               *)

\* A pen as the mapper keeps it.
PenState == [near : BOOLEAN, down : BOOLEAN, tool : 0 .. 2, buttons : SUBSET {1, 2, 4}]

\* What the mapper keeps.
State ==
  [keys : SUBSET AllKeys, buttons : SUBSET Buttons, flags : SUBSET {Shift, Alpha},
   repeat : AllKeys \union {NoKey}, pen : PenState]

\* What an event can be about.
Whats == {"key", "button", "penButton", "tip", "near"} \X (AllKeys \union Buttons \union {0, 1, 2, 4})

\* The events of a plan.
Events == [op : {"press", "release", "move"}, what : Whats, next : State]

\* A state that the mapper can be in: a pen that touches or presses a button is
\* near, and a repeating key is held.
Good(s) ==
  /\ s \in State
  /\ IsFiniteSet(s.keys) /\ IsFiniteSet(s.buttons)
  /\ (s.pen.down \/ s.pen.buttons # {}) => s.pen.near
  /\ s.repeat # NoKey => s.repeat \in s.keys

\* What is held on the desktop after an event: Apply, for any desktop.
Effect(event, held) ==
  CASE event.op = "press" -> held \union {event.what}
    [] event.op = "release" -> held \ {event.what}
    [] OTHER -> held

\* An event that keeps a good state and changes on the desktop what it changes
\* in the state.
Step(s, event) == Good(event.next) /\ Held(event.next) = Effect(event, Held(s))

\* The state in which event i of a plan is delivered.
Before(s, events, i) == IF i = 1 THEN s ELSE events[i - 1].next

\* Every event of a plan is such a step from the state that the one before it
\* leaves.
Linked(s, events) ==
  events \in Seq(Events) /\ \A i \in 1 .. Len(events) : Step(Before(s, events, i), events[i])

\* No event is needed to stay.
LEMMA LinkedNone ==
  ASSUME NEW s
  PROVE  Linked(s, <<>>) /\ After(s, <<>>) = s
  BY DEF Linked, After

\* One event is a plan.
LEMMA LinkedOne ==
  ASSUME NEW s, NEW event \in Events, Step(s, event)
  PROVE  Linked(s, <<event>>) /\ After(s, <<event>>) = event.next
<1>1. /\ <<event>> \in Seq(Events) /\ Len(<<event>>) = 1 /\ <<event>>[1] = event
      /\ <<event>> # <<>>
  OBVIOUS
<1>2. Linked(s, <<event>>)
  <2>1. SUFFICES ASSUME NEW i \in 1 .. 1 PROVE Step(Before(s, <<event>>, i), <<event>>[i])
    BY <1>1, Zenon DEF Linked
  <2>2. i = 1
    OBVIOUS
  <2> QED BY <1>1, <2>2, Zenon DEF Before
<1>3. After(s, <<event>>) = event.next
  BY <1>1, Zenon DEF After
<1> QED BY <1>2, <1>3, Zenon

\* A plan may go on with another one from the state that it leaves.
LEMMA LinkedJoin ==
  ASSUME NEW s, NEW e1, NEW e2, Linked(s, e1), Linked(After(s, e1), e2)
  PROVE  Linked(s, e1 \o e2) /\ After(s, e1 \o e2) = After(After(s, e1), e2)
<1>1. e1 \in Seq(Events) /\ e2 \in Seq(Events)
  BY Zenon DEF Linked
<1>2. CASE e1 = <<>>
  <2>1. e1 \o e2 = e2
    BY <1>1, <1>2
  <2>2. After(s, e1) = s
    BY <1>2, Zenon DEF After
  <2> QED BY <2>1, <2>2, Zenon
<1>3. CASE e2 = <<>>
  <2>1. e1 \o e2 = e1
    BY <1>1, <1>3
  <2>2. After(After(s, e1), e2) = After(s, e1)
    BY <1>3, Zenon DEF After
  <2> QED BY <2>1, <2>2, Zenon
<1>4. CASE e1 # <<>> /\ e2 # <<>>
  <2> DEFINE e == e1 \o e2
  <2>1. PICK n \in Nat : n = Len(e1) /\ n > 0
    BY <1>1, <1>4
  <2>2. PICK m \in Nat : m = Len(e2) /\ m > 0
    BY <1>1, <1>4
  <2>3. /\ e \in Seq(Events) /\ Len(e) = n + m
        /\ \A i \in 1 .. n : e[i] = e1[i]
        /\ \A i \in 1 .. m : e[n + i] = e2[i]
    BY <1>1, <2>1, <2>2
  <2>4. After(s, e1) = e1[n].next
    BY <1>4, <2>1, Zenon DEF After
  <2> HIDE DEF e
  <2>5. ASSUME NEW i \in 1 .. n + m PROVE Step(Before(s, e, i), e[i])
    <3>1. CASE i <= n
      <4>1. e[i] = e1[i] /\ (i # 1 => e[i - 1] = e1[i - 1])
        BY <2>3, <3>1
      <4>2. Before(s, e, i) = Before(s, e1, i)
        BY <4>1, Zenon DEF Before
      <4>3. Step(Before(s, e1, i), e1[i])
        BY <2>1, <3>1 DEF Linked
      <4> QED BY <4>1, <4>2, <4>3, Zenon
    <3>2. CASE i > n
      <4>1. PICK j \in 1 .. m : i = n + j
        <5>1. i - n \in 1 .. m /\ i = n + (i - n)
          BY <3>2
        <5> QED BY <5>1, Zenon
      <4>2. e[i] = e2[j]
        BY <2>3, <4>1, Zenon
      <4>3. Before(s, e, i) = Before(After(s, e1), e2, j)
        <5>1. CASE j = 1
          <6>1. i - 1 = n /\ i # 1
            BY <4>1, <5>1, <2>1
          <6>2. e[n] = e1[n]
            BY <2>3, <2>1
          <6>3. Before(s, e, i) = e[n].next
            BY <6>1, Zenon DEF Before
          <6>4. Before(After(s, e1), e2, j) = After(s, e1)
            BY <5>1, Zenon DEF Before
          <6> QED BY <6>2, <6>3, <6>4, <2>4, Zenon
        <5>2. CASE j # 1
          <6>1. i # 1 /\ j - 1 \in 1 .. m /\ i - 1 = n + (j - 1)
            BY <4>1, <5>2, <2>1
          <6>2. e[i - 1] = e2[j - 1]
            BY <6>1, <2>3, Zenon
          <6> QED BY <6>1, <6>2, <5>2, Zenon DEF Before
        <5> QED BY <5>1, <5>2, Zenon
      <4>4. Step(Before(After(s, e1), e2, j), e2[j])
        BY <2>2, Zenon DEF Linked
      <4> QED BY <4>2, <4>3, <4>4, Zenon
    <3> QED BY <3>1, <3>2
  <2>6. Linked(s, e)
    BY <2>3, <2>5, Zenon DEF Linked
  <2>7. After(s, e) = After(After(s, e1), e2)
    <3>1. e # <<>> /\ e[n + m] = e2[m]
      BY <2>3, <2>1, <2>2
    <3>2. After(s, e) = e[n + m].next
      BY <3>1, <2>3, Zenon DEF After
    <3>3. After(After(s, e1), e2) = e2[m].next
      BY <1>4, <2>2, Zenon DEF After
    <3> QED BY <3>1, <3>2, <3>3, Zenon
  <2> QED BY <2>6, <2>7, Zenon DEF e
<1> QED BY <1>2, <1>3, <1>4, Zenon

\* When the first event is delivered the others are a plan from its state.
LEMMA LinkedTail ==
  ASSUME NEW s, NEW events, Linked(s, events), events # <<>>
  PROVE  /\ Head(events) \in Events /\ Step(s, Head(events))
         /\ Linked(Head(events).next, Tail(events))
<1>1. PICK n \in Nat : n = Len(events) /\ n > 0 /\ events \in Seq(Events)
  BY DEF Linked
<1> DEFINE rest == Tail(events)
<1>2. /\ Head(events) = events[1] /\ events[1] \in Events
      /\ rest \in Seq(Events) /\ Len(rest) = n - 1
      /\ \A i \in 1 .. n - 1 : rest[i] = events[i + 1]
  BY <1>1
<1> HIDE DEF rest
<1>3. \A i \in 1 .. n : Step(Before(s, events, i), events[i])
  BY <1>1, Zenon DEF Linked
<1>4. Step(s, events[1])
  <2>1. Before(s, events, 1) = s
    BY Zenon DEF Before
  <2>2. 1 \in 1 .. n
    BY <1>1
  <2> QED BY <2>1, <2>2, <1>3, Zenon
<1>5. ASSUME NEW i \in 1 .. n - 1 PROVE Step(Before(events[1].next, rest, i), rest[i])
  <2>1. i + 1 \in 1 .. n /\ i + 1 # 1 /\ (i + 1) - 1 = i
    BY <1>1
  <2>2. rest[i] = events[i + 1] /\ (i # 1 => rest[i - 1] = events[i])
    BY <1>2
  <2>3. Before(events[1].next, rest, i) = events[i].next
    BY <2>2, Zenon DEF Before
  <2>4. Before(s, events, i + 1) = events[i].next
    BY <2>1, Zenon DEF Before
  <2> QED BY <2>1, <2>2, <2>3, <2>4, <1>3, Zenon
<1> QED BY <1>2, <1>4, <1>5, Zenon DEF Linked, rest

\* A plan leaves a good state.
LEMMA LinkedGood ==
  ASSUME NEW s, NEW events, Good(s), Linked(s, events)
  PROVE  Good(After(s, events))
<1>1. CASE events = <<>>
  BY <1>1, Zenon DEF After
<1>2. CASE events # <<>>
  <2>1. PICK n \in Nat : n = Len(events) /\ n > 0
    BY <1>2 DEF Linked
  <2>2. Step(Before(s, events, n), events[n])
    BY <2>1 DEF Linked
  <2>3. After(s, events) = events[n].next
    BY <2>1, <1>2, Zenon DEF After
  <2> QED BY <2>2, <2>3, Zenon DEF Step
<1> QED BY <1>1, <1>2, Zenon

-----------------------------------------------------------------------------
(* What an event changes.                                                  *)

\* What is held, one kind after the other.
LEMMA HeldAre ==
  ASSUME NEW s, s.pen.down \in BOOLEAN, s.pen.near \in BOOLEAN, NEW y
  PROVE  y \in Held(s) <=>
           \/ \E k \in s.keys : y = <<"key", k>>
           \/ \E b \in s.buttons : y = <<"button", b>>
           \/ \E b \in s.pen.buttons : y = <<"penButton", b>>
           \/ s.pen.down /\ y = <<"tip", 0>>
           \/ s.pen.near /\ y = <<"near", 0>>
  BY Zenon DEF Held

\* A press that adds what it names is a plan.
LEMMA PressLinked ==
  ASSUME NEW s, NEW what \in Whats, NEW next, Good(next), Held(next) = Held(s) \union {what}
  PROVE  /\ Linked(s, <<Event("press", what, next)>>)
         /\ After(s, <<Event("press", what, next)>>) = next
<1> DEFINE event == Event("press", what, next)
<1>1. event \in Events /\ event.next = next /\ event.op = "press" /\ event.what = what
  BY Zenon DEF Event, Events, Good
<1> HIDE DEF event
<1>2. Step(s, event)
  BY <1>1, Zenon DEF Step, Effect
<1>3. Linked(s, <<event>>) /\ After(s, <<event>>) = next
  BY <1>1, <1>2, LinkedOne, Zenon
<1> QED BY <1>3, Zenon DEF event

\* A release that takes away what it names is a plan.
LEMMA ReleaseLinked ==
  ASSUME NEW s, NEW what \in Whats, NEW next, Good(next), Held(next) = Held(s) \ {what}
  PROVE  /\ Linked(s, <<Event("release", what, next)>>)
         /\ After(s, <<Event("release", what, next)>>) = next
<1> DEFINE event == Event("release", what, next)
<1>1. event \in Events /\ event.next = next /\ event.op = "release" /\ event.what = what
  BY Zenon DEF Event, Events, Good
<1> HIDE DEF event
<1>2. Step(s, event)
  BY <1>1, Zenon DEF Step, Effect
<1>3. Linked(s, <<event>>) /\ After(s, <<event>>) = next
  BY <1>1, <1>2, LinkedOne, Zenon
<1> QED BY <1>3, Zenon DEF event

\* A move that changes nothing held is a plan.
LEMMA MoveLinked ==
  ASSUME NEW s, NEW what \in Whats, NEW next, Good(next), Held(next) = Held(s)
  PROVE  /\ Linked(s, <<Event("move", what, next)>>)
         /\ After(s, <<Event("move", what, next)>>) = next
<1> DEFINE event == Event("move", what, next)
<1>1. event \in Events /\ event.next = next /\ event.op = "move" /\ event.what = what
  BY Zenon DEF Event, Events, Good
<1> HIDE DEF event
<1>2. Step(s, event)
  BY <1>1, Zenon DEF Step, Effect
<1>3. Linked(s, <<event>>) /\ After(s, <<event>>) = next
  BY <1>1, <1>2, LinkedOne, Zenon
<1> QED BY <1>3, Zenon DEF event

\* The types of what a state holds.
LEMMA PenIs ==
  ASSUME NEW s \in State
  PROVE  /\ s.pen \in PenState /\ s.pen.near \in BOOLEAN /\ s.pen.down \in BOOLEAN
         /\ s.pen.tool \in 0 .. 2 /\ s.pen.buttons \in SUBSET {1, 2, 4}
         /\ s.keys \in SUBSET AllKeys /\ s.buttons \in SUBSET Buttons
         /\ s.flags \in SUBSET {Shift, Alpha} /\ s.repeat \in AllKeys \union {NoKey}
  BY Zenon DEF State, PenState

\* A key more is one thing more held.
LEMMA KeyPressed ==
  ASSUME NEW s \in State, NEW next, NEW x,
         next.keys = s.keys \union {x}, next.buttons = s.buttons, next.pen = s.pen
  PROVE  Held(next) = Held(s) \union {<<"key", x>>}
<1>1. s.pen.down \in BOOLEAN /\ s.pen.near \in BOOLEAN
  BY PenIs, Zenon
<1>2. ASSUME NEW y PROVE y \in Held(next) <=> y \in Held(s) \/ y = <<"key", x>>
  BY <1>1, HeldAre
<1> QED BY <1>2, Zenon

\* A key less is one thing less held.
LEMMA KeyReleased ==
  ASSUME NEW s \in State, NEW next, NEW x,
         next.keys = s.keys \ {x}, next.buttons = s.buttons, next.pen = s.pen
  PROVE  Held(next) = Held(s) \ {<<"key", x>>}
<1>1. s.pen.down \in BOOLEAN /\ s.pen.near \in BOOLEAN
  BY PenIs, Zenon
<1>2. ASSUME NEW y PROVE y \in Held(next) <=> y \in Held(s) /\ y # <<"key", x>>
  BY <1>1, HeldAre
<1> QED BY <1>2, Zenon

\* A mouse button more is one thing more held.
LEMMA ButtonPressed ==
  ASSUME NEW s \in State, NEW next, NEW x,
         next.keys = s.keys, next.buttons = s.buttons \union {x}, next.pen = s.pen
  PROVE  Held(next) = Held(s) \union {<<"button", x>>}
<1>1. s.pen.down \in BOOLEAN /\ s.pen.near \in BOOLEAN
  BY PenIs, Zenon
<1>2. ASSUME NEW y PROVE y \in Held(next) <=> y \in Held(s) \/ y = <<"button", x>>
  BY <1>1, HeldAre
<1> QED BY <1>2, Zenon

\* A mouse button less is one thing less held.
LEMMA ButtonReleased ==
  ASSUME NEW s \in State, NEW next, NEW x,
         next.keys = s.keys, next.buttons = s.buttons \ {x}, next.pen = s.pen
  PROVE  Held(next) = Held(s) \ {<<"button", x>>}
<1>1. s.pen.down \in BOOLEAN /\ s.pen.near \in BOOLEAN
  BY PenIs, Zenon
<1>2. ASSUME NEW y PROVE y \in Held(next) <=> y \in Held(s) /\ y # <<"button", x>>
  BY <1>1, HeldAre
<1> QED BY <1>2, Zenon

\* A pen button more is one thing more held.
LEMMA PenButtonPressed ==
  ASSUME NEW s \in State, NEW next, NEW x,
         next.keys = s.keys, next.buttons = s.buttons, next.pen.near = s.pen.near, next.pen.down = s.pen.down,
         next.pen.buttons = s.pen.buttons \union {x}
  PROVE  Held(next) = Held(s) \union {<<"penButton", x>>}
<1>1. s.pen.down \in BOOLEAN /\ s.pen.near \in BOOLEAN
  BY PenIs, Zenon
<1>2. ASSUME NEW y PROVE y \in Held(next) <=> y \in Held(s) \/ y = <<"penButton", x>>
  BY <1>1, HeldAre
<1> QED BY <1>2, Zenon

\* A pen button less is one thing less held.
LEMMA PenButtonReleased ==
  ASSUME NEW s \in State, NEW next, NEW x,
         next.keys = s.keys, next.buttons = s.buttons, next.pen.near = s.pen.near, next.pen.down = s.pen.down,
         next.pen.buttons = s.pen.buttons \ {x}
  PROVE  Held(next) = Held(s) \ {<<"penButton", x>>}
<1>1. s.pen.down \in BOOLEAN /\ s.pen.near \in BOOLEAN
  BY PenIs, Zenon
<1>2. ASSUME NEW y PROVE y \in Held(next) <=> y \in Held(s) /\ y # <<"penButton", x>>
  BY <1>1, HeldAre
<1> QED BY <1>2, Zenon

\* A tip that touches is held.
LEMMA TipPressed ==
  ASSUME NEW s \in State, NEW next,
         next.keys = s.keys, next.buttons = s.buttons, next.pen.buttons = s.pen.buttons,
         next.pen.near = s.pen.near, next.pen.down = TRUE
  PROVE  Held(next) = Held(s) \union {<<"tip", 0>>}
<1>1. s.pen.down \in BOOLEAN /\ s.pen.near \in BOOLEAN
  BY PenIs, Zenon
<1>0. next.pen.down \in BOOLEAN /\ next.pen.near \in BOOLEAN /\ next.pen.down
  BY <1>1, Zenon
<1>2. ASSUME NEW y PROVE y \in Held(next) <=> y \in Held(s) \/ y = <<"tip", 0>>
  <2> DEFINE other == \/ \E k \in s.keys : y = <<"key", k>>
                      \/ \E b \in s.buttons : y = <<"button", b>>
                      \/ \E b \in s.pen.buttons : y = <<"penButton", b>>
                      \/ s.pen.near /\ y = <<"near", 0>>
  <2>1. other => y # <<"tip", 0>>
    OBVIOUS
  <2>2. y \in Held(s) <=> other \/ (s.pen.down /\ y = <<"tip", 0>>)
    BY Zenon DEF Held
  <2>3. y \in Held(next) <=> y = <<"tip", 0>> \/ other
    BY <1>0, Zenon DEF Held
  <2> HIDE DEF other
  <2> QED BY <2>1, <2>2, <2>3, Zenon
<1> QED BY <1>2, Zenon

\* A tip that is lifted is not held.
LEMMA TipReleased ==
  ASSUME NEW s \in State, NEW next,
         next.keys = s.keys, next.buttons = s.buttons, next.pen.buttons = s.pen.buttons,
         next.pen.near = s.pen.near, next.pen.down = FALSE
  PROVE  Held(next) = Held(s) \ {<<"tip", 0>>}
<1>1. s.pen.down \in BOOLEAN /\ s.pen.near \in BOOLEAN
  BY PenIs, Zenon
<1>0. next.pen.down \in BOOLEAN /\ next.pen.near \in BOOLEAN /\ ~next.pen.down
  BY <1>1, Zenon
<1>2. ASSUME NEW y PROVE y \in Held(next) <=> y \in Held(s) /\ y # <<"tip", 0>>
  <2> DEFINE other == \/ \E k \in s.keys : y = <<"key", k>>
                      \/ \E b \in s.buttons : y = <<"button", b>>
                      \/ \E b \in s.pen.buttons : y = <<"penButton", b>>
                      \/ s.pen.near /\ y = <<"near", 0>>
  <2>1. other => y # <<"tip", 0>>
    OBVIOUS
  <2>2. y \in Held(s) <=> other \/ (s.pen.down /\ y = <<"tip", 0>>)
    BY Zenon DEF Held
  <2>3. y \in Held(next) <=> other
    BY <1>0, Zenon DEF Held
  <2> HIDE DEF other
  <2> QED BY <2>1, <2>2, <2>3, Zenon
<1> QED BY <1>2, Zenon

\* A pen that enters is held near.
LEMMA PenEntered ==
  ASSUME NEW s \in State, NEW next,
         next.keys = s.keys, next.buttons = s.buttons, next.pen.buttons = s.pen.buttons,
         next.pen.down = s.pen.down, next.pen.near = TRUE
  PROVE  Held(next) = Held(s) \union {<<"near", 0>>}
<1>1. s.pen.down \in BOOLEAN /\ s.pen.near \in BOOLEAN
  BY PenIs, Zenon
<1>0. next.pen.down \in BOOLEAN /\ next.pen.near \in BOOLEAN /\ next.pen.near
  BY <1>1, Zenon
<1>2. ASSUME NEW y PROVE y \in Held(next) <=> y \in Held(s) \/ y = <<"near", 0>>
  <2> DEFINE other == \/ \E k \in s.keys : y = <<"key", k>>
                      \/ \E b \in s.buttons : y = <<"button", b>>
                      \/ \E b \in s.pen.buttons : y = <<"penButton", b>>
                      \/ s.pen.down /\ y = <<"tip", 0>>
  <2>1. other => y # <<"near", 0>>
    OBVIOUS
  <2>2. y \in Held(s) <=> other \/ (s.pen.near /\ y = <<"near", 0>>)
    BY Zenon DEF Held
  <2>3. y \in Held(next) <=> y = <<"near", 0>> \/ other
    BY <1>0, Zenon DEF Held
  <2> HIDE DEF other
  <2> QED BY <2>1, <2>2, <2>3, Zenon
<1> QED BY <1>2, Zenon

\* A pen that leaves is not held.
LEMMA PenLeft ==
  ASSUME NEW s \in State, NEW next,
         next.keys = s.keys, next.buttons = s.buttons, next.pen.buttons = s.pen.buttons,
         next.pen.down = s.pen.down, next.pen.near = FALSE
  PROVE  Held(next) = Held(s) \ {<<"near", 0>>}
<1>1. s.pen.down \in BOOLEAN /\ s.pen.near \in BOOLEAN
  BY PenIs, Zenon
<1>0. next.pen.down \in BOOLEAN /\ next.pen.near \in BOOLEAN /\ ~next.pen.near
  BY <1>1, Zenon
<1>2. ASSUME NEW y PROVE y \in Held(next) <=> y \in Held(s) /\ y # <<"near", 0>>
  <2> DEFINE other == \/ \E k \in s.keys : y = <<"key", k>>
                      \/ \E b \in s.buttons : y = <<"button", b>>
                      \/ \E b \in s.pen.buttons : y = <<"penButton", b>>
                      \/ s.pen.down /\ y = <<"tip", 0>>
  <2>1. other => y # <<"near", 0>>
    OBVIOUS
  <2>2. y \in Held(s) <=> other \/ (s.pen.near /\ y = <<"near", 0>>)
    BY Zenon DEF Held
  <2>3. y \in Held(next) <=> other
    BY <1>0, Zenon DEF Held
  <2> HIDE DEF other
  <2> QED BY <2>1, <2>2, <2>3, Zenon
<1> QED BY <1>2, Zenon

-----------------------------------------------------------------------------
(* Every packet is a plan.                                                 *)

\* A mouse button's packet is a plan.
LEMMA ButtonLinked ==
  ASSUME NEW s, Good(s), NEW b \in Buttons, NEW down \in BOOLEAN
  PROVE  Linked(s, Button(s, b, down))
<1>1. CASE (b \in s.buttons) = down
  <2>1. Button(s, b, down) = <<>>
    BY <1>1, Zenon DEF Button
  <2> QED BY <2>1, LinkedNone, Zenon
<1>2. CASE (b \in s.buttons) # down /\ down
  <2> DEFINE next == [s EXCEPT !.buttons = s.buttons \union {b}]
  <2>1. Button(s, b, down) = <<Event("press", <<"button", b>>, next)>>
    BY <1>2, Zenon DEF Button
  <2>2. s \in State
    BY Zenon DEF Good
  <2>3. /\ next \in State /\ next.keys = s.keys /\ next.pen = s.pen /\ next.repeat = s.repeat
        /\ next.buttons = s.buttons \union {b}
    BY <2>2, Zenon DEF State
  <2> HIDE DEF next
  <2>4. Good(next)
    BY <2>3, FS_AddElement DEF Good
  <2>6. Held(next) = Held(s) \union {<<"button", b>>}
    BY <2>2, <2>3, ButtonPressed
  <2>7. <<"button", b>> \in Whats
    BY Zenon DEF Whats
  <2> QED BY <2>1, <2>4, <2>6, <2>7, PressLinked, Zenon
<1>3. CASE (b \in s.buttons) # down /\ ~down
  <2> DEFINE next == [s EXCEPT !.buttons = s.buttons \ {b}]
  <2>1. Button(s, b, down) = <<Event("release", <<"button", b>>, next)>>
    BY <1>3, Zenon DEF Button
  <2>2. s \in State
    BY Zenon DEF Good
  <2>3. /\ next \in State /\ next.keys = s.keys /\ next.pen = s.pen /\ next.repeat = s.repeat
        /\ next.buttons = s.buttons \ {b}
    BY <2>2, Zenon DEF State
  <2> HIDE DEF next
  <2>4. Good(next)
    BY <2>3, FS_RemoveElement DEF Good
  <2>6. Held(next) = Held(s) \ {<<"button", b>>}
    BY <2>2, <2>3, ButtonReleased, ZenonT(60)
  <2>7. <<"button", b>> \in Whats
    BY Zenon DEF Whats
  <2> QED BY <2>1, <2>4, <2>6, <2>7, ReleaseLinked
<1> QED BY <1>1, <1>2, <1>3, Zenon

\* A key event leaves flags that the mapper knows.
LEMMA FlagsAre ==
  ASSUME NEW s \in State, NEW key, NEW down \in BOOLEAN, NEW wire \in {{}, {Shift}}
  PROVE  KeyFlags(s, key, down, wire) \in SUBSET {Shift, Alpha}
<1> DEFINE own == Modifier(key)
           heldElsewhere == \E k \in s.keys \ {key} : Modifier(k) = own
           flags == wire \union (s.flags \intersect {Alpha})
           after == IF down \/ heldElsewhere THEN flags \union own ELSE flags \ own
<1>1. own \in SUBSET {Shift, Alpha} /\ flags \in SUBSET {Shift, Alpha}
  BY Zenon DEF Modifier
<1> HIDE DEF own, flags, heldElsewhere
<1>2. after \in SUBSET {Shift, Alpha}
  BY <1>1, Zenon
<1> HIDE DEF after
<1>3. (after \ {Alpha}) \union ({Alpha} \ after) \in SUBSET {Shift, Alpha}
  BY <1>2, Zenon
<1> QED BY <1>2, <1>3, Zenon DEF KeyFlags, after, heldElsewhere, flags, own

\* A key's packet is a plan: released, repeated or pressed.
LEMMA KeyLinked ==
  ASSUME NEW s, Good(s), NEW key \in AllKeys, NEW down \in BOOLEAN, NEW wire \in {{}, {Shift}},
         NEW repeats \in BOOLEAN
  PROVE  Linked(s, Key(s, key, down, wire, repeats))
<1>0. s \in State /\ <<"key", key>> \in Whats
  BY Zenon DEF Good, Whats
<1> DEFINE flags == KeyFlags(s, key, down, wire)
<1>1. flags \in SUBSET {Shift, Alpha}
  BY <1>0, FlagsAre, Zenon
<1> HIDE DEF flags
<1>2. CASE (~down /\ key \notin s.keys) \/ (down /\ key \in s.keys /\ key \notin Keys)
  <2>1. Key(s, key, down, wire, repeats) = <<>>
    BY <1>2, Zenon DEF Key
  <2> QED BY <2>1, LinkedNone, Zenon
<1>3. CASE ~down /\ key \in s.keys
  <2> DEFINE next == [s EXCEPT !.keys = s.keys \ {key}, !.flags = flags,
                               !.repeat = IF key = s.repeat THEN NoKey ELSE s.repeat]
  <2>1. Key(s, key, down, wire, repeats) = <<Event("release", <<"key", key>>, next)>>
    BY <1>3, Zenon DEF Key, flags
  <2>2. /\ next \in State /\ next.keys = s.keys \ {key} /\ next.pen = s.pen
        /\ next.buttons = s.buttons
        /\ next.repeat = IF key = s.repeat THEN NoKey ELSE s.repeat
    BY <1>0, <1>1, Zenon DEF State
  <2> HIDE DEF next
  <2>3. Good(next)
    BY <2>2, FS_RemoveElement, SMTT(60) DEF Good
  <2>4. Held(next) = Held(s) \ {<<"key", key>>}
    BY <1>0, <2>2, KeyReleased, Zenon
  <2> QED BY <1>0, <2>1, <2>3, <2>4, ReleaseLinked
<1>4. CASE down /\ key \in s.keys /\ key \in Keys
  <2> DEFINE next == [s EXCEPT !.keys = s.keys \union {key}, !.flags = flags, !.repeat = s.repeat]
  <2>1. Key(s, key, down, wire, repeats) = <<Event("move", <<"key", key>>, next)>>
    BY <1>4, Zenon DEF Key, flags
  <2>2. /\ next \in State /\ next.keys = s.keys /\ next.pen = s.pen
        /\ next.buttons = s.buttons /\ next.repeat = s.repeat
    BY <1>0, <1>1, <1>4, Zenon DEF State
  <2> HIDE DEF next
  <2>3. Good(next)
    BY <2>2, Zenon DEF Good
  <2>4. Held(next) = Held(s)
    BY <2>2, Zenon DEF Held
  <2> QED BY <1>0, <2>1, <2>3, <2>4, MoveLinked, Zenon
<1>5. CASE down /\ key \notin s.keys
  <2> DEFINE repeat == IF key \in Keys THEN IF repeats THEN key ELSE NoKey ELSE s.repeat
             next == [s EXCEPT !.keys = s.keys \union {key}, !.flags = flags, !.repeat = repeat]
  <2>1. Key(s, key, down, wire, repeats) = <<Event("press", <<"key", key>>, next)>>
    BY <1>5, Zenon DEF Key, flags
  <2>2. repeat \in AllKeys \union {NoKey} /\ (repeat = key \/ repeat = NoKey \/ repeat = s.repeat)
    BY <1>0, PenIs, Zenon
  <2> HIDE DEF repeat
  <2>3. /\ next \in State /\ next.keys = s.keys \union {key} /\ next.pen = s.pen
        /\ next.buttons = s.buttons /\ next.repeat = repeat
    BY <1>0, <1>1, <2>2, Zenon DEF State
  <2> HIDE DEF next
  <2>4. Good(next)
    BY <2>2, <2>3, FS_AddElement DEF Good
  <2>5. Held(next) = Held(s) \union {<<"key", key>>}
    BY <1>0, <2>3, KeyPressed
  <2> QED BY <1>0, <2>1, <2>4, <2>5, PressLinked, ZenonT(60)
<1> QED BY <1>2, <1>3, <1>4, <1>5, Zenon

\* The pen buttons after one bit.
Toggled(buttons, toggled, bit) ==
  IF bit \notin toggled THEN buttons
  ELSE IF bit \in buttons THEN buttons \ {bit} ELSE buttons \union {bit}

\* Only the pen's buttons have changed.
SameButButtons(s, next, buttons) ==
  next.pen.near = s.pen.near /\ next.pen.down = s.pen.down /\ next.pen.buttons = buttons

\* One bit is a plan, for a pen that is near.
LEMMA ToggleLinked ==
  ASSUME NEW s, Good(s), NEW toggled, NEW bit \in {1, 2, 4}, bit \in toggled => s.pen.near
  PROVE  /\ Linked(s, Toggle(s, toggled, bit))
         /\ Good(After(s, Toggle(s, toggled, bit)))
         /\ SameButButtons(s, After(s, Toggle(s, toggled, bit)),
                           Toggled(s.pen.buttons, toggled, bit))
<1>0. s \in State /\ <<"penButton", bit>> \in Whats
  BY Zenon DEF Good, Whats
<1>1. CASE bit \notin toggled
  <2>1. Toggle(s, toggled, bit) = <<>>
    BY <1>1, Zenon DEF Toggle
  <2>2. Toggled(s.pen.buttons, toggled, bit) = s.pen.buttons
    BY <1>1, Zenon DEF Toggled
  <2> QED BY <2>1, <2>2, LinkedNone, Zenon DEF SameButButtons
<1>2. CASE bit \in toggled /\ bit \in s.pen.buttons
  <2> DEFINE next == [s EXCEPT !.pen.buttons = s.pen.buttons \ {bit}]
  <2>1. Toggle(s, toggled, bit) = <<Event("release", <<"penButton", bit>>, next)>>
    BY <1>2, Zenon DEF Toggle
  <2>2. /\ next \in State /\ next.keys = s.keys /\ next.buttons = s.buttons
        /\ next.repeat = s.repeat /\ next.pen.near = s.pen.near /\ next.pen.down = s.pen.down
        /\ next.pen.buttons = s.pen.buttons \ {bit}
    BY <1>0, Zenon DEF State, PenState
  <2> HIDE DEF next
  <2>3. Good(next)
    BY <1>2, <2>2, Zenon DEF Good
  <2>4. Held(next) = Held(s) \ {<<"penButton", bit>>}
    BY <1>0, <2>2, PenButtonReleased, ZenonT(60)
  <2>5. SameButButtons(s, next, Toggled(s.pen.buttons, toggled, bit))
    BY <1>2, <2>2, Zenon DEF SameButButtons, Toggled
  <2>6. /\ Linked(s, Toggle(s, toggled, bit)) /\ After(s, Toggle(s, toggled, bit)) = next
    BY <1>0, <2>1, <2>3, <2>4, ReleaseLinked
  <2> QED BY <2>3, <2>5, <2>6, Zenon
<1>3. CASE bit \in toggled /\ bit \notin s.pen.buttons
  <2> DEFINE next == [s EXCEPT !.pen.buttons = s.pen.buttons \union {bit}]
  <2>1. Toggle(s, toggled, bit) = <<Event("press", <<"penButton", bit>>, next)>>
    BY <1>3, Zenon DEF Toggle
  <2>2. /\ next \in State /\ next.keys = s.keys /\ next.buttons = s.buttons
        /\ next.repeat = s.repeat /\ next.pen.near = s.pen.near /\ next.pen.down = s.pen.down
        /\ next.pen.buttons = s.pen.buttons \union {bit}
    BY <1>0, Zenon DEF State, PenState
  <2> HIDE DEF next
  <2>3. Good(next)
    BY <1>3, <2>2, Zenon DEF Good
  <2>4. Held(next) = Held(s) \union {<<"penButton", bit>>}
    BY <1>0, <2>2, PenButtonPressed, ZenonT(60)
  <2>5. SameButButtons(s, next, Toggled(s.pen.buttons, toggled, bit))
    BY <1>3, <2>2, Zenon DEF SameButButtons, Toggled
  <2>6. /\ Linked(s, Toggle(s, toggled, bit)) /\ After(s, Toggle(s, toggled, bit)) = next
    BY <1>0, <2>1, <2>3, <2>4, PressLinked
  <2> QED BY <2>3, <2>5, <2>6, Zenon
<1> QED BY <1>1, <1>2, <1>3, Zenon

\* The three bits are a plan; all the bits that are held leave no button.
LEMMA ToggleButtonsLinked ==
  ASSUME NEW s, Good(s), NEW toggled, toggled # {} => s.pen.near
  PROVE  LET after == After(s, ToggleButtons(s, toggled))
         IN  /\ Linked(s, ToggleButtons(s, toggled)) /\ Good(after)
             /\ after.pen.near = s.pen.near /\ after.pen.down = s.pen.down
             /\ toggled = s.pen.buttons => after.pen.buttons = {}
<1> DEFINE e1 == Toggle(s, toggled, 1)
           s1 == After(s, e1)
           e2 == Toggle(s1, toggled, 2)
           s2 == After(s1, e2)
           e3 == Toggle(s2, toggled, 4)
           s3 == After(s2, e3)
<1>1. ToggleButtons(s, toggled) = e1 \o (e2 \o e3)
  BY Zenon DEF ToggleButtons, Then
<1>2. Linked(s, e1) /\ Good(s1) /\ SameButButtons(s, s1, Toggled(s.pen.buttons, toggled, 1))
  BY ToggleLinked, Zenon
<1> HIDE DEF e1, s1
<1>3. Linked(s1, e2) /\ Good(s2) /\ SameButButtons(s1, s2, Toggled(s1.pen.buttons, toggled, 2))
  BY <1>2, ToggleLinked, ZenonT(60) DEF SameButButtons
<1> HIDE DEF e2, s2
<1>4. Linked(s2, e3) /\ Good(s3) /\ SameButButtons(s2, s3, Toggled(s2.pen.buttons, toggled, 4))
  BY <1>2, <1>3, ToggleLinked, ZenonT(60) DEF SameButButtons
<1> HIDE DEF e3, s3
<1>5. Linked(s1, e2 \o e3) /\ After(s1, e2 \o e3) = s3
  BY <1>3, <1>4, LinkedJoin DEF s2, s3
<1>6. Linked(s, e1 \o (e2 \o e3)) /\ After(s, e1 \o (e2 \o e3)) = s3
  BY <1>2, <1>5, LinkedJoin DEF s1
<1>7. s3.pen.near = s.pen.near /\ s3.pen.down = s.pen.down
  BY <1>2, <1>3, <1>4, Zenon DEF SameButButtons
<1>8. ASSUME toggled = s.pen.buttons PROVE s3.pen.buttons = {}
  <2>1. s.pen.buttons \subseteq {1, 2, 4}
    BY PenIs, Zenon DEF Good
  <2>2. s1.pen.buttons = s.pen.buttons \ {1}
    BY <1>2, <1>8, Zenon DEF SameButButtons, Toggled
  <2>3. s2.pen.buttons = s1.pen.buttons \ {2}
    BY <1>3, <1>8, <2>2 DEF SameButButtons, Toggled
  <2>4. s3.pen.buttons = s2.pen.buttons \ {4}
    BY <1>4, <1>8, <2>2, <2>3 DEF SameButButtons, Toggled
  <2> QED BY <2>1, <2>2, <2>3, <2>4, Zenon
<1> QED BY <1>1, <1>4, <1>6, <1>7, <1>8, Zenon

\* Lifting the tip is a plan.
LEMMA LiftTipLinked ==
  ASSUME NEW s, Good(s)
  PROVE  LET after == After(s, LiftTip(s))
         IN  /\ Linked(s, LiftTip(s)) /\ Good(after)
             /\ after.pen.near = s.pen.near /\ after.pen.down = FALSE
             /\ after.pen.buttons = s.pen.buttons
<1>0. s \in State /\ s.pen.down \in BOOLEAN /\ <<"tip", 0>> \in Whats
  BY PenIs, Zenon DEF Good, Whats
<1>1. CASE ~s.pen.down
  <2>1. LiftTip(s) = <<>>
    BY <1>1, Zenon DEF LiftTip
  <2> QED BY <1>0, <1>1, <2>1, LinkedNone, Zenon
<1>2. CASE s.pen.down
  <2> DEFINE next == [s EXCEPT !.pen.down = FALSE]
  <2>1. LiftTip(s) = <<Event("release", <<"tip", 0>>, next)>>
    BY <1>2, Zenon DEF LiftTip
  <2>2. /\ next \in State /\ next.keys = s.keys /\ next.buttons = s.buttons
        /\ next.repeat = s.repeat /\ next.pen.near = s.pen.near /\ next.pen.down = FALSE
        /\ next.pen.buttons = s.pen.buttons
    BY <1>0, Zenon DEF State, PenState
  <2> HIDE DEF next
  <2>3. Good(next)
    BY <2>2, Zenon DEF Good
  <2>4. Held(next) = Held(s) \ {<<"tip", 0>>}
    BY <1>0, <2>2, TipReleased, Zenon
  <2>5. Linked(s, LiftTip(s)) /\ After(s, LiftTip(s)) = next
    BY <1>0, <2>1, <2>3, <2>4, ReleaseLinked
  <2> QED BY <2>2, <2>3, <2>5, Zenon
<1> QED BY <1>1, <1>2, Zenon

\* Leaving is a plan for a pen that neither touches nor presses a button.
LEMMA LeaveProximityLinked ==
  ASSUME NEW s, Good(s), s.pen.down = FALSE, s.pen.buttons = {}
  PROVE  LET after == After(s, LeaveProximity(s))
         IN  Linked(s, LeaveProximity(s)) /\ Good(after) /\ after.pen.near = FALSE
<1>0. s \in State /\ s.pen.near \in BOOLEAN /\ <<"near", 0>> \in Whats
  BY PenIs, Zenon DEF Good, Whats
<1>1. CASE ~s.pen.near
  <2>1. LeaveProximity(s) = <<>>
    BY <1>1, Zenon DEF LeaveProximity
  <2> QED BY <1>0, <1>1, <2>1, LinkedNone, Zenon
<1>2. CASE s.pen.near
  <2> DEFINE next == [s EXCEPT !.pen.near = FALSE]
  <2>1. LeaveProximity(s) = <<Event("release", <<"near", 0>>, next)>>
    BY <1>2, Zenon DEF LeaveProximity
  <2>2. /\ next \in State /\ next.keys = s.keys /\ next.buttons = s.buttons
        /\ next.repeat = s.repeat /\ next.pen.near = FALSE /\ next.pen.down = s.pen.down
        /\ next.pen.buttons = s.pen.buttons
    BY <1>0, Zenon DEF State, PenState
  <2> HIDE DEF next
  <2>3. Good(next)
    BY <2>2, Zenon DEF Good
  <2>4. Held(next) = Held(s) \ {<<"near", 0>>}
    BY <1>0, <2>2, PenLeft, Zenon
  <2>5. Linked(s, LeaveProximity(s)) /\ After(s, LeaveProximity(s)) = next
    BY <1>0, <2>1, <2>3, <2>4, ReleaseLinked
  <2> QED BY <2>2, <2>3, <2>5, Zenon
<1> QED BY <1>1, <1>2, Zenon

\* Releasing the pen is a plan: buttons first, proximity last.
LEMMA ReleasePenLinked ==
  ASSUME NEW s, Good(s)
  PROVE  Linked(s, ReleasePen(s)) /\ Good(After(s, ReleasePen(s)))
<1> DEFINE e1 == ToggleButtons(s, s.pen.buttons)
           s1 == After(s, e1)
           e2 == LiftTip(s1)
           s2 == After(s1, e2)
           e3 == LeaveProximity(s2)
           s3 == After(s2, e3)
<1>1. ReleasePen(s) = e1 \o (e2 \o e3)
  BY Zenon DEF ReleasePen, Then
<1>2. Linked(s, e1) /\ Good(s1) /\ s1.pen.buttons = {}
  BY ToggleButtonsLinked, Zenon DEF Good
<1> HIDE DEF e1, s1
<1>3. Linked(s1, e2) /\ Good(s2) /\ s2.pen.down = FALSE /\ s2.pen.buttons = {}
  BY <1>2, LiftTipLinked, Zenon
<1> HIDE DEF e2, s2
<1>4. Linked(s2, e3) /\ Good(s3)
  BY <1>3, LeaveProximityLinked, Zenon
<1> HIDE DEF e3, s3
<1>5. Linked(s1, e2 \o e3) /\ After(s1, e2 \o e3) = s3
  BY <1>3, <1>4, LinkedJoin DEF s2, s3
<1>6. Linked(s, e1 \o (e2 \o e3)) /\ After(s, e1 \o (e2 \o e3)) = s3
  BY <1>2, <1>5, LinkedJoin DEF s1
<1> QED BY <1>1, <1>4, <1>6, Zenon

\* Entering is a plan, and the pen is near after it.
LEMMA EnterProximityLinked ==
  ASSUME NEW s, Good(s), NEW tool \in 1 .. 2
  PROVE  LET after == After(s, EnterProximity(s, tool))
         IN  Linked(s, EnterProximity(s, tool)) /\ Good(after) /\ after.pen.near = TRUE
<1>0. s \in State /\ s.pen.near \in BOOLEAN /\ s.pen.down \in BOOLEAN /\ <<"near", 0>> \in Whats
  BY PenIs, Zenon DEF Good, Whats
<1>1. CASE s.pen.near
  <2>1. EnterProximity(s, tool) = <<>>
    BY <1>1, Zenon DEF EnterProximity
  <2> QED BY <1>0, <1>1, <2>1, LinkedNone, Zenon
<1>2. CASE ~s.pen.near
  <2> DEFINE pen == [near |-> TRUE, down |-> FALSE, tool |-> tool, buttons |-> {}]
             next == [s EXCEPT !.pen = pen]
  <2>1. EnterProximity(s, tool) = <<Event("press", <<"near", 0>>, next)>>
    BY <1>2, Zenon DEF EnterProximity
  <2>2. s.pen.down = FALSE /\ s.pen.buttons = {}
    BY <1>0, <1>2, Zenon DEF Good
  <2>3. pen \in PenState
    BY DEF PenState
  <2>4. /\ next \in State /\ next.keys = s.keys /\ next.buttons = s.buttons
        /\ next.repeat = s.repeat /\ next.pen.near = TRUE /\ next.pen.down = FALSE
        /\ next.pen.buttons = {}
    BY <1>0, <2>3, Zenon DEF State
  <2> HIDE DEF next
  <2>5. Good(next)
    BY <2>4, Zenon DEF Good
  <2>6. Held(next) = Held(s) \union {<<"near", 0>>}
    BY <1>0, <2>2, <2>4, PenEntered, Zenon
  <2>7. Linked(s, EnterProximity(s, tool)) /\ After(s, EnterProximity(s, tool)) = next
    BY <1>0, <2>1, <2>5, <2>6, PressLinked
  <2> QED BY <2>4, <2>5, <2>7, Zenon
<1> QED BY <1>1, <1>2, Zenon

\* Touching, lifting or moving is a plan for a pen that is near.
LEMMA PointLinked ==
  ASSUME NEW s, Good(s), NEW action, s.pen.near = TRUE
  PROVE  LET after == After(s, Point(s, action))
         IN  Linked(s, Point(s, action)) /\ Good(after) /\ after.pen.near = TRUE
<1>0. s \in State /\ s.pen.down \in BOOLEAN /\ <<"tip", 0>> \in Whats
  BY PenIs, Zenon DEF Good, Whats
<1>1. CASE action = 5
  <2>1. Point(s, action) = <<>>
    BY <1>1, Zenon DEF Point
  <2> QED BY <2>1, LinkedNone, Zenon
<1>2. CASE action # 5
  <2> DEFINE down == action \in {1, 3}
             next == [s EXCEPT !.pen.down = down]
             op == IF down = s.pen.down THEN "move" ELSE IF down THEN "press" ELSE "release"
  <2>1. Point(s, action) = <<Event(op, <<"tip", 0>>, next)>>
    BY <1>2, Zenon DEF Point
  <2>0. down \in BOOLEAN
    OBVIOUS
  <2> HIDE DEF down
  <2>2. /\ next \in State /\ next.keys = s.keys /\ next.buttons = s.buttons
        /\ next.repeat = s.repeat /\ next.pen.near = TRUE /\ next.pen.down = down
        /\ next.pen.buttons = s.pen.buttons
    BY <1>0, <2>0, Zenon DEF State, PenState
  <2> HIDE DEF next
  <2>3. Good(next)
    BY <2>2, Zenon DEF Good
  <2>4. Linked(s, Point(s, action)) /\ After(s, Point(s, action)) = next
    <3>1. CASE down = s.pen.down
      <4>1. Held(next) = Held(s)
        BY <2>2, <3>1, Zenon DEF Held
      <4>2. op = "move"
        BY <3>1, Zenon
      <4> QED BY <1>0, <2>1, <2>3, <4>1, <4>2, MoveLinked
    <3>2. CASE down # s.pen.down /\ down = TRUE
      <4>1. Held(next) = Held(s) \union {<<"tip", 0>>}
        BY <1>0, <2>2, <3>2, TipPressed, Zenon
      <4>2. op = "press"
        BY <3>2, Zenon
      <4> QED BY <1>0, <2>1, <2>3, <4>1, <4>2, PressLinked
    <3>3. CASE down # s.pen.down /\ down = FALSE
      <4>1. Held(next) = Held(s) \ {<<"tip", 0>>}
        BY <1>0, <2>2, <3>3, TipReleased, Zenon
      <4>2. op = "release"
        BY <3>3, Zenon
      <4> QED BY <1>0, <2>1, <2>3, <4>1, <4>2, ReleaseLinked
    <3> QED BY <2>0, <3>1, <3>2, <3>3, Zenon
  <2> QED BY <2>2, <2>3, <2>4, Zenon
<1> QED BY <1>1, <1>2, Zenon

\* A pen's packet is a plan, for every action, tool and set of buttons.
LEMMA PenLinked ==
  ASSUME NEW s, Good(s), NEW action, NEW tool \in 1 .. 2, NEW buttons
  PROVE  Linked(s, Pen(s, action, tool, buttons))
<1> DEFINE e1 == IF Leaving(action) \/ (s.pen.near /\ s.pen.tool # tool) THEN ReleasePen(s) ELSE <<>>
           s1 == After(s, e1)
           e2 == EnterProximity(s1, tool)
           s2 == After(s1, e2)
           e3 == Point(s2, action)
           s3 == After(s2, e3)
           e4 == ChangeButtons(s3, buttons)
           rest == IF Leaving(action) \/ (action = 5 /\ ~s1.pen.near) THEN <<>>
                   ELSE e2 \o (e3 \o e4)
<1>1. Pen(s, action, tool, buttons) = e1 \o rest
  BY Zenon DEF Pen, Then
<1>2. Linked(s, e1) /\ Good(s1)
  <2>1. CASE e1 = ReleasePen(s)
    BY <2>1, ReleasePenLinked, Zenon
  <2>2. CASE e1 = <<>>
    BY <2>2, LinkedNone
  <2> QED BY <2>1, <2>2, Zenon
<1> HIDE DEF e1, s1
<1>3. Linked(s1, e2) /\ Good(s2) /\ s2.pen.near = TRUE
  BY <1>2, EnterProximityLinked, Zenon
<1> HIDE DEF e2, s2
<1>4. Linked(s2, e3) /\ Good(s3) /\ s3.pen.near = TRUE
  BY <1>3, PointLinked, Zenon
<1> HIDE DEF e3, s3
<1>5. Linked(s3, e4)
  BY <1>4, ToggleButtonsLinked, Zenon DEF ChangeButtons
<1> HIDE DEF e4
<1>6. Linked(s2, e3 \o e4)
  BY <1>4, <1>5, LinkedJoin, Zenon DEF s3
<1>7. Linked(s1, e2 \o (e3 \o e4))
  BY <1>3, <1>6, LinkedJoin, Zenon DEF s2
<1>8. Linked(s1, rest)
  BY <1>7, LinkedNone, Zenon
<1> HIDE DEF rest
<1> QED BY <1>1, <1>2, <1>8, LinkedJoin, Zenon DEF s1

\* A repetition is a plan: the key is held.
LEMMA RepeatLinked ==
  ASSUME NEW s, Good(s)
  PROVE  Linked(s, Repeat(s))
<1>1. CASE s.repeat = NoKey
  <2>1. Repeat(s) = <<>>
    BY <1>1, Zenon DEF Repeat
  <2> QED BY <2>1, LinkedNone, Zenon
<1>2. CASE s.repeat # NoKey
  <2>1. Repeat(s) = <<Event("move", <<"key", s.repeat>>, s)>>
    BY <1>2, Zenon DEF Repeat
  <2>2. <<"key", s.repeat>> \in Whats
    BY <1>2, PenIs, Zenon DEF Good, Whats
  <2> QED BY <2>1, <2>2, MoveLinked, Zenon
<1> QED BY <1>1, <1>2, Zenon

\* Every packet is a plan.
LEMMA PacketsLinked ==
  ASSUME NEW s, Good(s), NEW events \in Packets(s)
  PROVE  Linked(s, events)
<1> DEFINE clicks == {Button(s, b, down) : b \in Buttons, down \in BOOLEAN}
           strokes == {Key(s, k, down, wire, repeats) :
                         k \in AllKeys, down \in BOOLEAN, wire \in {{}, {Shift}},
                         repeats \in BOOLEAN}
           pens == {Pen(s, action, tool, buttons) :
                      action \in 0 .. 7, tool \in 1 .. 2, buttons \in SUBSET PenBits}
<1>1. events \in clicks \union strokes \union pens \union {Repeat(s)}
  BY DEF Packets, Possible
<1>2. ASSUME events \in clicks PROVE Linked(s, events)
  <2>1. PICK b \in Buttons, down \in BOOLEAN : events = Button(s, b, down)
    BY <1>2
  <2> QED BY <2>1, ButtonLinked, Zenon
<1>3. ASSUME events \in strokes PROVE Linked(s, events)
  <2>1. PICK k \in AllKeys, down \in BOOLEAN, wire \in {{}, {Shift}}, repeats \in BOOLEAN :
           events = Key(s, k, down, wire, repeats)
    BY <1>3
  <2> QED BY <2>1, KeyLinked, Zenon
<1>4. ASSUME events \in pens PROVE Linked(s, events)
  <2>1. PICK action \in 0 .. 7, tool \in 1 .. 2, buttons \in SUBSET PenBits :
           events = Pen(s, action, tool, buttons)
    BY <1>4
  <2> QED BY <2>1, PenLinked, Zenon
<1> HIDE DEF clicks, strokes, pens
<1> QED BY <1>1, <1>2, <1>3, <1>4, RepeatLinked, Zenon

-----------------------------------------------------------------------------
(* The releases of the stop call.                                          *)

\* A finite set as a sequence has each of its members somewhere.
LEMMA ListedCovers ==
  ASSUME NEW S, IsFiniteSet(S)
  PROVE  Listed(S) \in Seq(S) /\ \A x \in S : \E i \in 1 .. Len(Listed(S)) : Listed(S)[i] = x
<1>1. PICK n \in Nat : n = Cardinality(S)
  BY FS_CardinalityType, Zenon
<1>2. Bijection(1 .. n, S) # {}
  BY <1>1, FS_CardinalityType, Zenon DEF ExistsBijection
<1> DEFINE f == Listed(S)
<1>3. f \in Bijection(1 .. n, S)
  BY <1>1, <1>2, Zenon DEF Listed
<1> HIDE DEF f
<1>4. f \in [1 .. n -> S] /\ \A x \in S : \E i \in 1 .. n : f[i] = x
  BY <1>3, Zenon DEF Bijection, Surjection
<1>5. f \in Seq(S) /\ Len(f) = n
  BY <1>4
<1> QED BY <1>4, <1>5, Zenon DEF f

\* What some events are about.
Names(events) == {events[i].what : i \in 1 .. Len(events)}

\* Only releases.
AllReleases(events) == \A i \in 1 .. Len(events) : events[i].op = "release"

\* Releases joined are releases of both.
LEMMA JoinNames ==
  ASSUME NEW e1 \in Seq(Events), NEW e2 \in Seq(Events), AllReleases(e1), AllReleases(e2)
  PROVE  /\ e1 \o e2 \in Seq(Events) /\ AllReleases(e1 \o e2)
         /\ Names(e1) \subseteq Names(e1 \o e2) /\ Names(e2) \subseteq Names(e1 \o e2)
<1> DEFINE e == e1 \o e2
<1>1. PICK n \in Nat, m \in Nat : n = Len(e1) /\ m = Len(e2)
  OBVIOUS
<1>2. /\ e \in Seq(Events) /\ Len(e) = n + m
      /\ \A i \in 1 .. n : e[i] = e1[i]
      /\ \A i \in 1 .. m : e[n + i] = e2[i]
  BY <1>1
<1> HIDE DEF e
<1>3. ASSUME NEW i \in 1 .. n + m PROVE e[i].op = "release"
  <2>1. CASE i \in 1 .. n
    BY <1>1, <1>2, <2>1, Zenon DEF AllReleases
  <2>2. CASE i \notin 1 .. n
    <3>1. i - n \in 1 .. m /\ i = n + (i - n)
      BY <2>2
    <3>2. e[i] = e2[i - n]
      BY <1>2, <3>1, Zenon
    <3> QED BY <1>1, <3>1, <3>2, Zenon DEF AllReleases
  <2> QED BY <2>1, <2>2, Zenon
<1>4. ASSUME NEW i \in 1 .. n PROVE e1[i].what \in Names(e)
  <2>1. i \in 1 .. n + m /\ e[i] = e1[i]
    BY <1>2
  <2> QED BY <1>2, <2>1, Zenon DEF Names
<1>5. ASSUME NEW i \in 1 .. m PROVE e2[i].what \in Names(e)
  <2>1. n + i \in 1 .. n + m /\ e[n + i] = e2[i]
    BY <1>2
  <2> QED BY <1>2, <2>1, Zenon DEF Names
<1>6. AllReleases(e)
  BY <1>2, <1>3, Zenon DEF AllReleases
<1>7. Names(e1) \subseteq Names(e)
  BY <1>1, <1>4, Zenon DEF Names
<1>8. Names(e2) \subseteq Names(e)
  BY <1>1, <1>5, Zenon DEF Names
<1> QED BY <1>2, <1>6, <1>7, <1>8, Zenon DEF e

\* No release, and one.
LEMMA NoneAndOne ==
  ASSUME NEW what, NEW next
  PROVE  /\ AllReleases(<<>>) /\ Names(<<>>) = {}
         /\ AllReleases(<<Event("release", what, next)>>)
         /\ what \in Names(<<Event("release", what, next)>>)
  BY DEF AllReleases, Names, Event

\* Toggling a bit that is held releases it.
LEMMA ToggleReleases ==
  ASSUME NEW s, NEW toggled, NEW bit, bit \in toggled => bit \in s.pen.buttons
  PROVE  /\ AllReleases(Toggle(s, toggled, bit))
         /\ bit \in toggled => <<"penButton", bit>> \in Names(Toggle(s, toggled, bit))
<1>1. CASE bit \notin toggled
  <2>1. Toggle(s, toggled, bit) = <<>>
    BY <1>1, Zenon DEF Toggle
  <2> QED BY <1>1, <2>1, NoneAndOne, Zenon
<1>2. CASE bit \in toggled
  <2>1. PICK next : Toggle(s, toggled, bit) = <<Event("release", <<"penButton", bit>>, next)>>
    BY <1>2, Zenon DEF Toggle
  <2> QED BY <2>1, NoneAndOne, Zenon
<1> QED BY <1>1, <1>2, Zenon

\* Lifting the tip releases it.
LEMMA LiftTipReleases ==
  ASSUME NEW s
  PROVE  AllReleases(LiftTip(s)) /\ (s.pen.down => <<"tip", 0>> \in Names(LiftTip(s)))
<1>1. CASE ~s.pen.down
  <2>1. LiftTip(s) = <<>>
    BY <1>1, Zenon DEF LiftTip
  <2> QED BY <1>1, <2>1, NoneAndOne, Zenon
<1>2. CASE s.pen.down
  <2>1. PICK next : LiftTip(s) = <<Event("release", <<"tip", 0>>, next)>>
    BY <1>2, Zenon DEF LiftTip
  <2> QED BY <2>1, NoneAndOne, Zenon
<1> QED BY <1>1, <1>2, Zenon

\* Leaving releases the proximity.
LEMMA LeaveProximityReleases ==
  ASSUME NEW s
  PROVE  /\ AllReleases(LeaveProximity(s))
         /\ s.pen.near => <<"near", 0>> \in Names(LeaveProximity(s))
<1>1. CASE ~s.pen.near
  <2>1. LeaveProximity(s) = <<>>
    BY <1>1, Zenon DEF LeaveProximity
  <2> QED BY <1>1, <2>1, NoneAndOne, Zenon
<1>2. CASE s.pen.near
  <2>1. PICK next : LeaveProximity(s) = <<Event("release", <<"near", 0>>, next)>>
    BY <1>2, Zenon DEF LeaveProximity
  <2> QED BY <2>1, NoneAndOne, Zenon
<1> QED BY <1>1, <1>2, Zenon

\* Toggling the held bits releases every pen button.
LEMMA ButtonsReleased ==
  ASSUME NEW s, Good(s)
  PROVE  LET e == ToggleButtons(s, s.pen.buttons)
         IN  /\ e \in Seq(Events) /\ AllReleases(e)
             /\ \A b \in s.pen.buttons : <<"penButton", b>> \in Names(e)
<1>0. s.pen.buttons \subseteq {1, 2, 4} /\ (s.pen.buttons # {} => s.pen.near)
  BY PenIs, Zenon DEF Good
<1> DEFINE held == s.pen.buttons
           e1 == Toggle(s, held, 1)
           s1 == After(s, e1)
           e2 == Toggle(s1, held, 2)
           s2 == After(s1, e2)
           e3 == Toggle(s2, held, 4)
<1>1. ToggleButtons(s, s.pen.buttons) = e1 \o (e2 \o e3)
  BY Zenon DEF ToggleButtons, Then
<1>2. Linked(s, e1) /\ Good(s1) /\ SameButButtons(s, s1, Toggled(held, held, 1))
  BY <1>0, ToggleLinked, Zenon
<1>3. AllReleases(e1) /\ (1 \in held => <<"penButton", 1>> \in Names(e1))
  BY ToggleReleases, Zenon
<1> HIDE DEF e1, s1
<1>4. s1.pen.near = s.pen.near /\ s1.pen.buttons = held \ {1}
  BY <1>2, Zenon DEF SameButButtons, Toggled
<1>5. Linked(s1, e2) /\ Good(s2) /\ SameButButtons(s1, s2, Toggled(s1.pen.buttons, held, 2))
  BY <1>0, <1>2, <1>4, ToggleLinked, ZenonT(60)
<1>6. AllReleases(e2) /\ (2 \in held => <<"penButton", 2>> \in Names(e2))
  BY <1>4, ToggleReleases
<1> HIDE DEF e2, s2
<1>7. s2.pen.near = s.pen.near /\ s2.pen.buttons = (held \ {1}) \ {2}
  BY <1>4, <1>5 DEF SameButButtons, Toggled
<1>8. Linked(s2, e3)
  BY <1>0, <1>5, <1>7, ToggleLinked, Zenon
<1>9. AllReleases(e3) /\ (4 \in held => <<"penButton", 4>> \in Names(e3))
  BY <1>7, ToggleReleases
<1> HIDE DEF e3
<1>10. e1 \in Seq(Events) /\ e2 \in Seq(Events) /\ e3 \in Seq(Events)
  BY <1>2, <1>5, <1>8, Zenon DEF Linked
<1>11. /\ e2 \o e3 \in Seq(Events) /\ AllReleases(e2 \o e3)
       /\ Names(e2) \subseteq Names(e2 \o e3) /\ Names(e3) \subseteq Names(e2 \o e3)
  BY <1>6, <1>9, <1>10, JoinNames, Zenon
<1> DEFINE rest == e2 \o e3
<1> HIDE DEF rest
<1>12. /\ e1 \o rest \in Seq(Events) /\ AllReleases(e1 \o rest)
       /\ Names(e1) \subseteq Names(e1 \o rest) /\ Names(rest) \subseteq Names(e1 \o rest)
  BY <1>3, <1>10, <1>11, JoinNames, Zenon DEF rest
<1>13. ASSUME NEW b \in held PROVE <<"penButton", b>> \in Names(e1 \o rest)
  BY <1>0, <1>3, <1>6, <1>9, <1>11, <1>12, ZenonT(60) DEF rest
<1> QED BY <1>1, <1>12, <1>13, Zenon DEF rest

\* ReleasePen releases all that the pen holds.
LEMMA PenReleased ==
  ASSUME NEW s, Good(s)
  PROVE  LET e == ReleasePen(s)
         IN  /\ e \in Seq(Events) /\ AllReleases(e)
             /\ \A b \in s.pen.buttons : <<"penButton", b>> \in Names(e)
             /\ s.pen.down => <<"tip", 0>> \in Names(e)
             /\ s.pen.near => <<"near", 0>> \in Names(e)
<1> DEFINE e1 == ToggleButtons(s, s.pen.buttons)
           s1 == After(s, e1)
           e2 == LiftTip(s1)
           s2 == After(s1, e2)
           e3 == LeaveProximity(s2)
<1>1. ReleasePen(s) = e1 \o (e2 \o e3)
  BY Zenon DEF ReleasePen, Then
<1>2. Good(s1) /\ s1.pen.near = s.pen.near /\ s1.pen.down = s.pen.down /\ s1.pen.buttons = {}
  BY ToggleButtonsLinked, Zenon DEF Good
<1>3. /\ e1 \in Seq(Events) /\ AllReleases(e1)
      /\ \A b \in s.pen.buttons : <<"penButton", b>> \in Names(e1)
  BY ButtonsReleased, Zenon
<1> HIDE DEF e1, s1
<1>4. /\ Linked(s1, e2) /\ Good(s2) /\ s2.pen.near = s.pen.near
      /\ s2.pen.down = FALSE /\ s2.pen.buttons = {}
  BY <1>2, LiftTipLinked, Zenon
<1>5. AllReleases(e2) /\ (s.pen.down => <<"tip", 0>> \in Names(e2))
  BY <1>2, LiftTipReleases, Zenon
<1> HIDE DEF e2, s2
<1>6. Linked(s2, e3)
  BY <1>4, LeaveProximityLinked, Zenon
<1>7. AllReleases(e3) /\ (s.pen.near => <<"near", 0>> \in Names(e3))
  BY <1>4, LeaveProximityReleases, Zenon
<1> HIDE DEF e3
<1>8. e2 \in Seq(Events) /\ e3 \in Seq(Events)
  BY <1>4, <1>6, Zenon DEF Linked
<1>9. /\ e2 \o e3 \in Seq(Events) /\ AllReleases(e2 \o e3)
      /\ Names(e2) \subseteq Names(e2 \o e3) /\ Names(e3) \subseteq Names(e2 \o e3)
  BY <1>5, <1>7, <1>8, JoinNames, Zenon
<1> DEFINE rest == e2 \o e3
<1> HIDE DEF rest
<1>10. /\ e1 \o rest \in Seq(Events) /\ AllReleases(e1 \o rest)
       /\ Names(e1) \subseteq Names(e1 \o rest) /\ Names(rest) \subseteq Names(e1 \o rest)
  BY <1>3, <1>9, JoinNames, Zenon DEF rest
<1>11. /\ \A b \in s.pen.buttons : <<"penButton", b>> \in Names(e1 \o rest)
       /\ s.pen.down => <<"tip", 0>> \in Names(e1 \o rest)
       /\ s.pen.near => <<"near", 0>> \in Names(e1 \o rest)
  BY <1>3, <1>5, <1>7, <1>9, <1>10, ZenonT(60) DEF rest
<1> QED BY <1>1, <1>10, <1>11, Zenon DEF rest

\* A release for each member of a sequence.
Ups(kind, held, s) == [i \in 1 .. Len(held) |-> Event("release", <<kind, held[i]>>, s)]

\* The releases of a finite set name each of its members.
LEMMA UpsRelease ==
  ASSUME NEW s \in State, NEW S, IsFiniteSet(S), NEW kind, \A x \in S : <<kind, x>> \in Whats
  PROVE  LET e == Ups(kind, Listed(S), s)
         IN  /\ e \in Seq(Events) /\ AllReleases(e)
             /\ \A x \in S : <<kind, x>> \in Names(e)
<1> DEFINE f == Listed(S)
           e == Ups(kind, f, s)
<1>1. f \in Seq(S) /\ \A x \in S : \E i \in 1 .. Len(f) : f[i] = x
  BY ListedCovers, Zenon
<1>2. PICK n \in Nat : n = Len(f)
  BY <1>1
<1> HIDE DEF f
<1>3. ASSUME NEW i \in 1 .. n
      PROVE  /\ Event("release", <<kind, f[i]>>, s) \in Events
             /\ Event("release", <<kind, f[i]>>, s).op = "release"
             /\ Event("release", <<kind, f[i]>>, s).what = <<kind, f[i]>>
  BY <1>1, <1>2 DEF Event, Events
<1>4. /\ e = [i \in 1 .. n |-> Event("release", <<kind, f[i]>>, s)]
  BY <1>2, Zenon DEF Ups
<1> HIDE DEF e
<1>5. /\ e \in Seq(Events) /\ Len(e) = n
      /\ \A i \in 1 .. n : e[i].op = "release" /\ e[i].what = <<kind, f[i]>>
  <2>1. e \in [1 .. n -> Events]
    BY <1>3, <1>4, Zenon
  <2>2. ASSUME NEW i \in 1 .. n PROVE e[i].op = "release" /\ e[i].what = <<kind, f[i]>>
    <3>1. e[i] = Event("release", <<kind, f[i]>>, s)
      BY <1>4, Zenon
    <3> QED BY <1>3, <3>1, Zenon
  <2> QED BY <2>1, <2>2
<1>6. AllReleases(e)
  BY <1>5, Zenon DEF AllReleases
<1>7. ASSUME NEW x \in S PROVE <<kind, x>> \in Names(e)
  <2>1. PICK i \in 1 .. n : f[i] = x
    BY <1>1, <1>2, Zenon
  <2>2. e[i].what = <<kind, x>>
    BY <1>5, <2>1, Zenon
  <2> QED BY <1>5, <2>2, Zenon DEF Names
<1> QED BY <1>5, <1>6, <1>7, Zenon DEF e, f

\* The events release everything that is held.
Releasing(held, events) ==
  events \in Seq(Events) /\ AllReleases(events) /\ held \subseteq Names(events)

\* The stop call's releases are of everything that the mapper holds.
LEMMA ReleasesRelease ==
  ASSUME NEW s, Good(s)
  PROVE  Releasing(Held(s), Releases(s))
<1> DEFINE e1 == ReleasePen(s)
           e2 == Ups("key", Listed(s.keys), s)
           e3 == Ups("button", Listed(s.buttons), s)
<1>1. Releases(s) = (e1 \o e2) \o e3
  BY Zenon DEF Releases, Ups
<1>2. /\ e1 \in Seq(Events) /\ AllReleases(e1)
      /\ \A b \in s.pen.buttons : <<"penButton", b>> \in Names(e1)
      /\ s.pen.down => <<"tip", 0>> \in Names(e1)
      /\ s.pen.near => <<"near", 0>> \in Names(e1)
  BY PenReleased, Zenon
<1>3. s \in State /\ IsFiniteSet(s.keys) /\ IsFiniteSet(s.buttons)
  BY Zenon DEF Good
<1>4. s.keys \subseteq AllKeys /\ s.buttons \subseteq Buttons
      /\ s.pen.down \in BOOLEAN /\ s.pen.near \in BOOLEAN
  BY <1>3, PenIs, Zenon
<1>5. /\ e2 \in Seq(Events) /\ AllReleases(e2)
      /\ \A k \in s.keys : <<"key", k>> \in Names(e2)
  <2>1. \A k \in s.keys : <<"key", k>> \in Whats
    BY <1>4, Zenon DEF Whats
  <2> QED BY <1>3, <2>1, UpsRelease, Zenon
<1>6. /\ e3 \in Seq(Events) /\ AllReleases(e3)
      /\ \A b \in s.buttons : <<"button", b>> \in Names(e3)
  <2>1. \A b \in s.buttons : <<"button", b>> \in Whats
    BY <1>4, Zenon DEF Whats
  <2> QED BY <1>3, <2>1, UpsRelease, Zenon
<1> HIDE DEF e1, e2, e3
<1> DEFINE first == e1 \o e2
<1>7. /\ first \in Seq(Events) /\ AllReleases(first)
      /\ Names(e1) \subseteq Names(first) /\ Names(e2) \subseteq Names(first)
  BY <1>2, <1>5, JoinNames, Zenon
<1> HIDE DEF first
<1>8. /\ first \o e3 \in Seq(Events) /\ AllReleases(first \o e3)
      /\ Names(first) \subseteq Names(first \o e3) /\ Names(e3) \subseteq Names(first \o e3)
  BY <1>6, <1>7, JoinNames, Zenon
<1>9. ASSUME NEW y \in Held(s) PROVE y \in Names(first \o e3)
  <2>1. \/ \E k \in s.keys : y = <<"key", k>>
        \/ \E b \in s.buttons : y = <<"button", b>>
        \/ \E b \in s.pen.buttons : y = <<"penButton", b>>
        \/ s.pen.down /\ y = <<"tip", 0>>
        \/ s.pen.near /\ y = <<"near", 0>>
    BY Zenon DEF Held
  <2> QED BY <1>2, <1>5, <1>6, <1>7, <1>8, <2>1, ZenonT(60)
<1> QED BY <1>1, <1>8, <1>9, Zenon DEF Releasing, first

\* When the first release is delivered the others release the rest.
LEMMA ReleasingTail ==
  ASSUME NEW held, NEW events, Releasing(held, events), events # <<>>
  PROVE  /\ Head(events).op = "release"
         /\ Releasing(held \ {Head(events).what}, Tail(events))
<1>1. PICK n \in Nat : n = Len(events) /\ n > 0 /\ events \in Seq(Events)
  BY DEF Releasing
<1> DEFINE rest == Tail(events)
<1>2. /\ Head(events) = events[1] /\ rest \in Seq(Events) /\ Len(rest) = n - 1
      /\ \A i \in 1 .. n - 1 : rest[i] = events[i + 1]
  BY <1>1
<1> HIDE DEF rest
<1>3. \A i \in 1 .. n : events[i].op = "release"
  BY <1>1, Zenon DEF Releasing, AllReleases
<1>4. AllReleases(rest)
  <2>1. ASSUME NEW i \in 1 .. n - 1 PROVE rest[i].op = "release"
    <3>1. i + 1 \in 1 .. n
      BY <1>1
    <3> QED BY <1>2, <1>3, <3>1, Zenon
  <2> QED BY <1>2, <2>1, Zenon DEF AllReleases
<1>5. ASSUME NEW x \in held, x # events[1].what PROVE x \in Names(rest)
  <2>1. PICK i \in 1 .. n : x = events[i].what
    BY <1>1, Zenon DEF Releasing, Names
  <2>2. i # 1
    BY <2>1, <1>5, Zenon
  <2>3. i - 1 \in 1 .. n - 1 /\ (i - 1) + 1 = i
    BY <2>2, <1>1
  <2>4. rest[i - 1] = events[i]
    BY <1>2, <2>3, ZenonT(60)
  <2> QED BY <1>2, <2>1, <2>3, <2>4, ZenonT(60) DEF Names
<1>6. Head(events).op = "release"
  BY <1>1, <1>2, <1>3
<1> QED BY <1>2, <1>4, <1>5, <1>6, ZenonT(60) DEF Releasing, rest

-----------------------------------------------------------------------------
(* The invariant.                                                          *)

\* The invariant.  Until the stop the desktop holds what the mapper holds, and
\* the plan links it to every state that may follow; after it the mapper holds
\* nothing and, while no release was lost, those that are left release all that
\* the desktop holds.
InputInv ==
  /\ Good(state)
  /\ stopping \in {"no", "yes", "over"}
  /\ stopping = "no" => desk = Held(state) /\ Linked(state, plan)
  /\ stopping # "no" =>
       /\ Held(state) = {} /\ state.repeat = NoKey /\ state.flags \subseteq {Alpha}
       /\ whole => Releasing(desk, plan)
  /\ stopping = "over" => plan = <<>>

\* It holds at the start.
LEMMA InputStarts == Init => InputInv
<1> SUFFICES ASSUME Init PROVE InputInv
  BY Zenon
<1>1. PICK f \in {{}, {Alpha}} :
        state = [keys |-> {}, buttons |-> {}, flags |-> f, repeat |-> NoKey, pen |-> Released]
  BY ZenonT(60) DEF Init
<1>2. Released \in PenState /\ Released.near = FALSE /\ Released.down = FALSE
      /\ Released.buttons = {}
  BY DEF Released, PenState
<1>3. /\ state \in State /\ state.keys = {} /\ state.buttons = {} /\ state.repeat = NoKey
      /\ state.pen = Released
  BY <1>1, <1>2, Zenon DEF State
<1>4. Good(state)
  BY <1>2, <1>3, FS_EmptySet, ZenonT(60) DEF Good
<1>5. Held(state) = {}
  BY <1>2, <1>3, ZenonT(60) DEF Held
<1>6. plan = <<>> /\ desk = {} /\ stopping = "no"
  BY Zenon DEF Init
<1> QED BY <1>4, <1>5, <1>6, LinkedNone, Zenon DEF InputInv

\* Delivering an event keeps it, and refusing one too.
LEMMA InputDeliver ==
  ASSUME InputInv, Deliver
  PROVE  InputInv'
<1>1. plan # <<>> /\ stopping = "no" /\ stopping' = "no"
  BY Zenon DEF Deliver
<1>2. Good(state) /\ desk = Held(state) /\ Linked(state, plan)
  BY <1>1, Zenon DEF InputInv
<1>3. CASE Authorized
  <2> DEFINE event == Head(plan)
  <2>1. Step(state, event) /\ Linked(event.next, Tail(plan))
    BY <1>1, <1>2, LinkedTail, ZenonT(60)
  <2>2. desk' = Effect(event, desk) /\ state' = event.next /\ plan' = Tail(plan)
    BY <1>3, Zenon DEF Deliver, Apply, Effect
  <2> HIDE DEF event
  <2>3. Good(state') /\ desk' = Held(state') /\ Linked(state', plan')
    BY <1>2, <2>1, <2>2, ZenonT(60) DEF Step
  <2> QED BY <1>1, <2>3, Zenon DEF InputInv
<1>4. CASE ~Authorized
  <2>1. plan' = <<>> /\ state' = state /\ desk' = desk
    BY <1>4, Zenon DEF Deliver
  <2>2. Good(state') /\ desk' = Held(state') /\ Linked(state', plan')
    BY <1>2, <2>1, LinkedNone, ZenonT(60)
  <2> QED BY <1>1, <2>2, Zenon DEF InputInv
<1> QED BY <1>3, <1>4, Zenon

\* Working out a packet keeps it.
LEMMA InputConsume ==
  ASSUME InputInv, Consume
  PROVE  InputInv'
<1>1. stopping = "no" /\ stopping' = "no" /\ state' = state /\ desk' = desk
  BY Zenon DEF Consume, Idle
<1>2. Good(state) /\ desk = Held(state) /\ Linked(state, plan)
  BY <1>1, Zenon DEF InputInv
<1>3. Linked(state, plan')
  <2>1. plan' \in Packets(state) \/ plan' = plan
    BY Zenon DEF Consume
  <2> QED BY <1>2, <2>1, PacketsLinked, Zenon
<1>4. Good(state') /\ desk' = Held(state') /\ Linked(state', plan')
  BY <1>1, <1>2, <1>3, ZenonT(60)
<1> QED BY <1>1, <1>4, ZenonT(60) DEF InputInv

\* The stop call keeps it, whichever release could not be built.
LEMMA InputStop ==
  ASSUME InputInv, Stop
  PROVE  InputInv'
<1>1. stopping = "no" /\ stopping' = "yes" /\ desk' = desk
  BY Zenon DEF Stop
<1>2. Good(state) /\ desk = Held(state)
  BY <1>1, Zenon DEF InputInv
<1>3. whole' => plan' = Releases(state)
  BY Zenon DEF Stop
<1>4. whole' => Releasing(desk', plan')
  <2>1. Releasing(Held(state), Releases(state))
    BY <1>2, ReleasesRelease, Zenon
  <2> QED BY <1>1, <1>2, <1>3, <2>1, ZenonT(60)
<1> DEFINE next == [state EXCEPT !.keys = {}, !.buttons = {}, !.repeat = NoKey,
                                 !.flags = state.flags \intersect {Alpha},
                                 !.pen = [state.pen EXCEPT !.near = FALSE, !.down = FALSE,
                                                           !.buttons = {}]]
<1>5. state' = next
  BY Zenon DEF Stop
<1>6. state \in State
  BY <1>2, Zenon DEF Good
<1>7. /\ next \in State /\ next.keys = {} /\ next.buttons = {} /\ next.repeat = NoKey
      /\ next.flags \subseteq {Alpha} /\ next.pen.near = FALSE /\ next.pen.down = FALSE
      /\ next.pen.buttons = {}
  BY <1>6, Zenon DEF State, PenState
<1> HIDE DEF next
<1>8. Good(next) /\ Held(next) = {}
  BY <1>7, FS_EmptySet, Zenon DEF Good, Held
<1>9. /\ Good(state') /\ Held(state') = {} /\ state'.repeat = NoKey
      /\ state'.flags \subseteq {Alpha}
  BY <1>5, <1>7, <1>8, ZenonT(60)
<1> QED BY <1>1, <1>4, <1>9, ZenonT(60) DEF InputInv

\* A release keeps it, delivered or lost.
LEMMA InputDeliverRelease ==
  ASSUME InputInv, DeliverRelease
  PROVE  InputInv'
<1>1. stopping = "yes" /\ plan # <<>> /\ stopping' = "yes" /\ state' = state
  BY Zenon DEF DeliverRelease
<1>2. /\ Good(state) /\ Held(state) = {} /\ state.repeat = NoKey
      /\ state.flags \subseteq {Alpha}
      /\ whole => Releasing(desk, plan)
  BY <1>1, Zenon DEF InputInv
<1>3. ASSUME whole' PROVE Releasing(desk', plan')
  <2>1. lease /\ valid /\ whole
    BY <1>3, Zenon DEF DeliverRelease
  <2>2. plan' = Tail(plan) /\ desk' = Effect(Head(plan), desk)
    BY <2>1, Zenon DEF DeliverRelease, Apply, Effect
  <2>3. Head(plan).op = "release" /\ Releasing(desk \ {Head(plan).what}, Tail(plan))
    BY <1>1, <1>2, <2>1, ReleasingTail, ZenonT(60)
  <2>4. Effect(Head(plan), desk) = desk \ {Head(plan).what}
    BY <2>3, Zenon DEF Effect
  <2> QED BY <2>2, <2>3, <2>4, Zenon
<1>4. /\ Good(state') /\ Held(state') = {} /\ state'.repeat = NoKey
      /\ state'.flags \subseteq {Alpha}
  BY <1>1, <1>2, Zenon
<1> QED BY <1>1, <1>3, <1>4, Zenon DEF InputInv

\* Every step keeps it.
LEMMA InputNext == InputInv /\ [Next]_vars => InputInv'
<1> SUFFICES ASSUME InputInv, [Next]_vars PROVE InputInv'
  BY Zenon
<1>1. CASE BuildFails
  <2>1. /\ stopping = "no" /\ stopping' = "no" /\ state' = state /\ desk' = desk /\ plan' = <<>>
    BY <1>1, Zenon DEF BuildFails
  <2>2. Good(state') /\ desk' = Held(state') /\ Linked(state', plan')
    BY <2>1, LinkedNone, Zenon DEF InputInv
  <2> QED BY <2>1, <2>2, Zenon DEF InputInv
<1>2. CASE StopReturns
  BY <1>2, Zenon DEF StopReturns, InputInv
<1>3. CASE LeaseEnds \/ EndpointEnds \/ ValidityChanges \/ UNCHANGED vars
  BY <1>3 DEF LeaseEnds, EndpointEnds, ValidityChanges, vars, InputInv
<1> QED BY <1>1, <1>2, <1>3, InputConsume, InputDeliver, InputStop, InputDeliverRelease,
           ZenonT(60)
           DEF Next

\* What the mapper holds is what the delivered events left held, whichever event
\* of a packet was refused or could not be built, and a stop that delivers all
\* its releases leaves nothing held: deliverAuthorized and
\* stopAndCopyReleaseEvents, for every set of keys and buttons.
THEOREM InputIsReleased == Spec => []HeldIsReleased
<1>1. InputInv => HeldIsReleased
  <2>1. ASSUME InputInv, stopping = "over", whole PROVE desk = {}
    <3>1. desk \subseteq Names(<<>>)
      BY <2>1, Zenon DEF InputInv, Releasing
    <3> QED BY <3>1, NoneAndOne, Zenon
  <2> QED BY <2>1, Zenon
            DEF InputInv, Good, HeldIsReleased, HeldWasDelivered, StopReleasesAll
<1> QED BY <1>1, InputStarts, InputNext, PTL DEF Spec

\* Once the lease is over no event changes the desktop: the checks of
\* deliverAuthorized and of the stop call's loop, for every set of keys and
\* buttons.
THEOREM LeaseGuardsTheDesktop == Spec => OtherDesktopUntouched
<1>1. [Next]_vars => [~lease => desk' = desk]_<<lease, desk>>
  BY Zenon
     DEF Next, Consume, Deliver, BuildFails, Stop, DeliverRelease, StopReturns, LeaseEnds,
         EndpointEnds, ValidityChanges, Authorized, authority, vars
<1> QED BY <1>1, PTL DEF Spec, OtherDesktopUntouched

=============================================================================
