------------------------------ MODULE StreamLife ------------------------------
(***************************************************************************)
(* What a stream (PLANKMacPreviewSession) promises to the runtime that     *)
(* owns it: the order of its states, that its lease is gone as soon as it  *)
(* begins to stop, that it stops when the lease is lost, and that a stop   *)
(* comes to its end and answers whoever waits for it.                      *)
(***************************************************************************)
VARIABLES
  state,    \* PLANKMacPreviewState
  held,     \* it holds its lease
  waiting   \* a stop callback is owed

life == <<state, held, waiting>>

Init == state = "Prepared" /\ held = TRUE /\ waiting = FALSE

Start == state = "Prepared" /\ state' = "Connecting" /\ UNCHANGED <<held, waiting>>

\* Also when the lease has just been lost: the next look at it ends the stream.
Run == state = "Connecting" /\ state' = "Streaming" /\ UNCHANGED <<held, waiting>>

\* The authentication session ends the lease.
Lose == held /\ held' = FALSE /\ UNCHANGED <<state, waiting>>

\* It stops, by itself or asked to; with nothing to drain it is over at once.
End ==
  /\ state \in {"Prepared", "Connecting", "Streaming"}
  /\ held' = FALSE
  /\ \/ state' = "Stopping" /\ waiting' \in BOOLEAN
     \/ state' = "Stopped" /\ waiting' = FALSE

\* Asked to stop once more while it drains.
Ask == state = "Stopping" /\ waiting' = TRUE /\ UNCHANGED <<state, held>>

Drain == state = "Stopping" /\ state' = "Stopped" /\ waiting' = FALSE /\ UNCHANGED held

Next == Start \/ Run \/ Lose \/ End \/ Ask \/ Drain

Spec == Init /\ [][Next]_life

\* It owes its end: it stops, or its lease is lost.
Ends == state = "Stopping" \/ (state \in {"Connecting", "Streaming"} /\ ~held)

\* A stream that was started stops once its lease is lost, and drains once it stops.
LivelySpec == Spec /\ (Ends ~> state = "Stopped")
==============================================================================
