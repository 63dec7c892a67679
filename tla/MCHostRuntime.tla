----------------------------- MODULE MCHostRuntime -----------------------------
(***************************************************************************)
(* HostRuntime for TLC.  Requests are numbers here, and connect in their   *)
(* order: connections that are still to come are interchangeable.  The     *)
(* instance is chosen in the initial state: `kinds', two requests of any   *)
(* kind and the shutdown after one login, or `launches', two launches      *)
(* after two logins.                                                       *)
(***************************************************************************)
EXTENDS HostRuntime

VARIABLE shape

mcVars == <<vars, shape>>

AfterTwoLogins == INSTANCE HostRuntime WITH LoggedIn <- {1, 2}

MCInit ==
  \/ shape = "kinds" /\ Init
  \/ shape = "launches" /\ AfterTwoLogins!Init

ConnectInOrder ==
  \A r, q \in Requests : r < q /\ req[r].conn = "absent" => req[q].conn = "absent"

\* Only arrivals, a failing listener and the shutdown are kept from happening.
InShape ==
  /\ ConnectInOrder
  /\ shape = "kinds" => req[4].conn = "absent"
  /\ shape = "launches" =>
     /\ ~stopping /\ ~failed
     /\ \A i \in DOMAIN authQ : authQ[i].job = "handle" => authQ[i].kind = "launch"

MCFairSpec == MCInit /\ [][Next /\ UNCHANGED shape /\ InShape']_mcVars /\ Fairness
==============================================================================
