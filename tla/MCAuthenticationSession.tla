----------------------- MODULE MCAuthenticationSession -----------------------
(***************************************************************************)
(* AuthenticationSession on three small instances, chosen in the initial   *)
(* state: `tables', two accounts and a revocation; `lease', one account    *)
(* with the secrets of two whole logins; `peers', a login whose answers    *)
(* and claims come from its own peer and from another.  The scopes are a   *)
(* desktop, the login window and none.                                     *)
(***************************************************************************)
EXTENDS AuthenticationSession

CONSTANTS alice, bob, p1

VARIABLE shape

mcVars == <<vars, shape>>

MCScopes ==
  {NoScope,
   [active |-> TRUE, generation |-> 1, account |-> alice, phase |-> "Desktop"],
   [active |-> TRUE, generation |-> 1, account |-> NoAccount, phase |-> "SignIn"]}

\* The secrets are numbers here, drawn in their order: a random value has no
\* property but that it is new, so which new one is drawn is immaterial.
DrawnInOrder == \A new \in drawn' \ drawn, left \in Secrets \ drawn' : new < left

\* The bounds of the instance.  A locked section that draws a secret or adds a
\* record can also refuse, so no call is stopped by them.
InShape ==
  \/ /\ shape = "tables"
     /\ Cardinality(drawn) <= 4
     /\ \A r \in pending : r.peer = p1
  \/ /\ shape = "lease"
     /\ scope.phase # "SignIn"
     /\ revocationGeneration = 0
     /\ Cardinality(pending) <= 1
     /\ \A r \in pending : r.user = alice /\ r.peer = p1
  \/ /\ shape = "peers"
     /\ Cardinality(drawn) <= 3
     /\ \A r \in pending : r.user = alice

MCInit == Init /\ shape \in {"tables", "lease", "peers"} /\ InShape

MCNext == Next /\ UNCHANGED shape /\ DrawnInOrder /\ InShape'

MCFairSpec ==
  MCInit /\ [][MCNext]_mcVars /\ WF_vars(Verifies) /\ WF_vars(Releases)
==============================================================================
