---------------------------- MODULE AgentOwnership ----------------------------
(***************************************************************************)
(* The machine coordinator and the graphical Host processes together: who  *)
(* may capture the screen and post input, while sessions switch, processes *)
(* stall or die, messages are late, and the coordinator itself restarts.   *)
(***************************************************************************)
EXTENDS AgentRegistry, AgentConnection

connVars == <<process, conn>>
registryVars == <<current, link, granted, epoch>>
vars == <<now, valid, visible, chan, process, conn, current, link, granted, epoch>>

Init ==
  /\ now = 0
  /\ valid = [a \in Agents |-> TRUE]
  /\ visible = Agents
  /\ chan = [a \in Agents |-> NewChannel]
  /\ process = [a \in Agents |-> "absent"]
  /\ conn = [a \in Agents |-> NewConnection]
  /\ current = NoAgent
  /\ link = [a \in Agents |-> NewLink]
  /\ granted = 0
  /\ epoch = 0

\* The agent's XPC peer is gone: it cancelled its connection, or exited.
PeerGone(a) == process[a] = "exited" \/ conn[a].state \in Terminal

AgentStep(a) ==
  /\ \/ Launch(a)
     \/ AgentWatch(a)
     \/ ReceiveReply(a)
     \/ FinishReply(a)
     \/ ReceiveNotice(a)
     \/ ReceiveCut(a)
     \/ BindGraphicalScope(a)
     \/ Retire(a)
     \/ Exit(a)
  /\ UNCHANGED registryVars

RegistryStep ==
  /\ \/ \E a \in Agents :
          \/ Accept(a)
          \/ Register(a)
          \/ Check(a)
          \/ Retired(a)
          \/ LinkLost(a, PeerGone(a))
          \/ ExitWatch(a, process[a] = "exited")
     \/ RegistryWatch
     \/ RevokeCurrent
     \/ \E clean \in BOOLEAN : MachineRestart(clean)
  /\ UNCHANGED connVars

(***************************************************************************)
(* The console.  The machine and the process observe it separately, so     *)
(* they may disagree for a while; the process's own authority is latched.  *)
(***************************************************************************)
ConsoleSwitch(a) ==
  /\ visible' = IF a \in visible THEN visible \ {a} ELSE visible \cup {a}
  /\ UNCHANGED <<now, valid, chan, connVars, registryVars>>

ScopeRevoked(a) ==
  /\ valid[a]
  /\ valid' = [valid EXCEPT ![a] = FALSE]
  /\ UNCHANGED <<now, visible, chan, connVars, registryVars>>

Tick ==
  /\ now < MaxNow
  /\ now' = now + 1
  /\ UNCHANGED <<valid, visible, chan, connVars, registryVars>>

Next ==
  \/ \E a \in Agents : AgentStep(a) \/ ConsoleSwitch(a) \/ ScopeRevoked(a)
  \/ RegistryStep
  \/ Tick

Spec == Init /\ [][Next]_vars

(***************************************************************************)
(* Fairness: the process's main queue serves what XPC delivered, its owner *)
(* finishes draining and exits once it is told to, and the kernel reports  *)
(* the exit.  Nothing is assumed about time or about the health checks.    *)
(***************************************************************************)
Served(handler) == handler /\ UNCHANGED registryVars
Drained(a) == conn[a].state \in Terminal \cup {"Retiring"} /\ Exit(a) /\ UNCHANGED registryVars
Released(a) == ExitWatch(a, process[a] = "exited") /\ UNCHANGED connVars

FairSpec ==
  /\ Spec
  /\ \A a \in Agents :
       /\ WF_vars(Served(ReceiveNotice(a)))
       /\ WF_vars(Served(ReceiveCut(a)))
       /\ WF_vars(Served(FinishReply(a)))
       /\ WF_vars(Drained(a))
       /\ WF_vars(Released(a))

-----------------------------------------------------------------------------
\* Every variable has its type.
TypeOK ==
  /\ now \in Nat
  /\ valid \in [Agents -> BOOLEAN]
  /\ visible \subseteq Agents
  /\ chan \in [Agents -> Channel]
  /\ process \in [Agents -> {"absent", "running", "exited"}]
  /\ conn \in [Agents -> Connection]
  /\ current \in Agents \cup {NoAgent}
  /\ link \in [Agents -> Link]
  /\ granted \in Nat
  /\ epoch \in Nat

\* The slot outlives the process: a graphical process that was given a lease by
\* the running coordinator owns the slot until the process itself is gone;
\* neither its retirement message nor the loss of its connection frees it.
SlotOutlivesProcess ==
  \A a \in Agents :
    process[a] = "running" /\ link[a].generation # 0 /\ link[a].epoch = epoch
      => current = a

\* Exclusive ownership: no two graphical processes have capture and input
\* admission at the same time, unless the coordinator restarted in between and
\* lost its record of the first (then StaleAdmissionEnds bounds the overlap).
ExclusiveAdmission ==
  \A a, b \in Agents :
    Admitted(a) /\ Admitted(b) /\ a # b => link[a].epoch # link[b].epoch

\* A revoked lease cannot outlast two freshness periods: one for a success reply
\* that was sent before the revocation, one for the admission it renewed.
\* Holds also when the notification is lost or the IPC queue is stalled.
StaleAdmissionEnds ==
  \A a \in Agents :
    Admitted(a) /\ ~link[a].active => now < link[a].revokedAt + 2 * Freshness

\* Admission never comes back: once a process that became Ready is not admitted
\* (revoked, expired, out of scope), no late reply (reply) and no restored scope
\* (bindGraphicalScope) readmits it.
AdmissionNeverReturns ==
  [][\A a \in Agents :
       conn[a].state # "Connecting" /\ ~Admitted(a) => ~Admitted(a)']_vars

\* The slot comes free: a lease that was revoked, or whose process is gone, is
\* replaced in the end, so that the next desktop's agent can register.  (A lease
\* whose exit watch could not be armed is excepted: machine() keeps it blocked.)
SlotComesFree ==
  \A a \in Agents :
    (current = a /\ link[a].watched /\ (~link[a].active \/ process[a] = "exited"))
      ~> current # a

==============================================================================
