------------------------ MODULE AuthenticationSession ------------------------
(***************************************************************************)
(* PLANKMacAuthenticationSession (apps/host/macos/auth/                    *)
(* authentication-session.m): password conversations, setup tokens and the *)
(* single stream lease of one graphical Host process.                      *)
(*                                                                         *)
(* Every method body under @synchronized(self) is one action, including    *)
(* the prune it starts with.  respondForPeer leaves the lock while the     *)
(* account helper runs, so it is three actions: RespondBegin (consumes the *)
(* conversation), RespondVerify (the locked section after the helper) and  *)
(* RespondRelease (the @finally section).  Random 256-bit strings are      *)
(* elements of Secrets that were not drawn before.  The graphical scope is *)
(* the trusted snapshot block; its owner may change it between any two     *)
(* locked sections, to any scope, in any order.                            *)
(***************************************************************************)
EXTENDS AccountPolicy, FiniteSets

CONSTANTS
  Peers,                     \* canonical client addresses
  Secrets,                   \* random conversation ids, tokens, credentials
  Scopes,                    \* the snapshots the session owner may report
  MaximumPendingChallenges,
  MaximumSetupTokens,
  PendingLifetime,           \* 120 s
  TokenLifetime,             \* 300 s
  ActivationWindow,          \* 15 s
  NoLease,                   \* _lease == nil
  MaxNow,                    \* bound on the clock
  MaxRevocations             \* bound on revokeAll

ASSUME SessionAssumption ==
  /\ Scopes \subseteq GraphicalIdentity
  /\ MaximumPendingChallenges \in Nat \ {0}
  /\ MaximumSetupTokens \in Nat \ {0}
  /\ PendingLifetime \in Nat
  /\ TokenLifetime \in Nat
  /\ ActivationWindow \in Nat
  /\ MaxNow \in Nat
  /\ MaxRevocations \in Nat

(***************************************************************************)
(* PLANKMacAuthRecord.  `id' is the dictionary key.  `user' is the account *)
(* the directory resolves record.username to; `account' stays NoAccount    *)
(* until that account is verified.  Two history fields say where a record  *)
(* comes from: `origin', the conversation it began as, and `epoch', the    *)
(* value of _revocationGeneration when that conversation was opened.       *)
(***************************************************************************)
AuthRecord ==
  [id: Secrets, origin: Secrets, peer: Peers, user: Accounts,
   account: Accounts \cup {NoAccount}, scope: Scopes, expires: Nat, epoch: Nat]

(***************************************************************************)
(* PLANKMacStreamLease.  `id' is its transport token, `token' the claimed  *)
(* setup token, `activated' (history) the time of its activation.          *)
(***************************************************************************)
StreamLease ==
  [id: Secrets, token: Secrets, origin: Secrets, account: Accounts, scope: Scopes,
   epoch: Nat, activateBefore: Nat, active: BOOLEAN, activated: Nat]

ASSUME NoLeaseAssumption == NoLease \notin StreamLease

VARIABLES
  scope,                 \* what _snapshot() returns now
  now,                   \* monotonicSeconds()
  pending,               \* _pending, a set of records
  tokens,                \* _tokens, a set of records
  lease,                 \* _lease
  revocationGeneration,  \* _revocationGeneration
  verifying,             \* _verifying
  calls,                 \* respondForPeer calls between their locked sections
  drawn,                 \* random strings already drawn
  effect                 \* history: what the last operation let through or ended

vars == <<scope, now, pending, tokens, lease, revocationGeneration, verifying,
          calls, drawn, effect>>

\* One respondForPeer call that left the lock with its record and epoch.
Call == [record: AuthRecord, generation: Nat, stage: {"verify", "release"}]

VerifyResults == {"Verified", "Rejected", "Unavailable"}

\* The records whose verification is still running.
Running == {call.record : call \in {c \in calls : c.stage = "verify"}}

\* What an operation let through, and the credential one was asked to end.
Grant == [kind: {"grant"}, account: Accounts, opened: Scopes, at: Scopes]
End == [kind: {"end"}, asked: Secrets]
NoEffect == [kind |-> "none"]

-----------------------------------------------------------------------------
(***************************************************************************)
(* Helpers.  An operator whose name ends in _bug is a mutated form of a    *)
(* definition that follows it; no specification uses it.                   *)
(***************************************************************************)
Fresh == Secrets \ drawn

\* prune keeps a record that has not expired and whose scope is still current.
Alive(r) == r.expires > now /\ SameGraphicalScope(r.scope, scope)

Pruned(records) == {r \in records : Alive(r)}

LeaseLapsed_scope_bug(l) == ~l.active /\ l.activateBefore <= now

LeaseLapsed_deadline_bug(l) == ~AccountMayAttach(l.account, l.scope, scope)

\* prune ends a lease that missed its activation or lost its scope.
LeaseLapsed(l) ==
  \/ ~l.active /\ l.activateBefore <= now
  \/ ~AccountMayAttach(l.account, l.scope, scope)

PrunedLease == IF lease # NoLease /\ LeaseLapsed(lease) THEN NoLease ELSE lease

PruneOthers == tokens' = Pruned(tokens) /\ lease' = PrunedLease

\* authorizeToken's test on a record that survived the prune.
MayUse(r, token, peer) ==
  r.id = token /\ r.peer = peer /\ AccountMayAttach(r.account, r.scope, scope)

Granted(r) == [kind |-> "grant", account |-> r.account, opened |-> r.scope, at |-> scope]

Ended(secret) == [kind |-> "end", asked |-> secret]

-----------------------------------------------------------------------------
Init ==
  /\ scope \in Scopes
  /\ now = 0
  /\ pending = {}
  /\ tokens = {}
  /\ lease = NoLease
  /\ revocationGeneration = 0
  /\ verifying = FALSE
  /\ calls = {}
  /\ drawn = {}
  /\ effect = NoEffect

PendingRoom(kept) == Cardinality(kept) < MaximumPendingChallenges

\* startForPeer: opens a conversation, or refuses it when the table is full,
\* the scope is not valid or no random string could be drawn.
StartForPeer(peer, user) ==
  /\ PruneOthers
  /\ \/ /\ PendingRoom(Pruned(pending))
        /\ GraphicalIdentityValid(scope)
        /\ \E conversation \in Fresh :
             /\ drawn' = drawn \cup {conversation}
             /\ pending' = Pruned(pending) \cup
                  {[id |-> conversation, origin |-> conversation, peer |-> peer,
                    user |-> user, account |-> NoAccount, scope |-> scope,
                    expires |-> now + PendingLifetime,
                    epoch |-> revocationGeneration]}
     \/ pending' = Pruned(pending) /\ UNCHANGED drawn
  /\ effect' = NoEffect
  /\ UNCHANGED <<scope, now, revocationGeneration, verifying, calls>>

Consumed_bug(kept, r) == kept

\* The conversation is spent before the busy test and before verification.
Consumed(kept, r) == kept \ {r}

VerifierFree == ~verifying

\* respondForPeer, first locked section.
RespondBegin(peer, conversation) ==
  /\ PruneOthers
  /\ \/ \E r \in Pruned(pending) :
          /\ r.id = conversation /\ r.peer = peer
          /\ pending' = Consumed(Pruned(pending), r)
          /\ \/ /\ VerifierFree
                /\ verifying' = TRUE
                /\ calls' = calls \cup {[record |-> r, stage |-> "verify",
                                         generation |-> revocationGeneration]}
             \/ ~VerifierFree /\ UNCHANGED <<verifying, calls>>
     \/ /\ ~ \E r \in Pruned(pending) : r.id = conversation /\ r.peer = peer
        /\ pending' = Pruned(pending)
        /\ UNCHANGED <<verifying, calls>>
  /\ effect' = NoEffect
  /\ UNCHANGED <<scope, now, revocationGeneration, drawn>>

SameEpoch_bug(call) == TRUE

\* A revokeAll while the helper ran refuses its result.
SameEpoch(call) == call.generation = revocationGeneration

\* The early returns of the second locked section, in front of its prune.
Accepted(call, result) ==
  /\ SameEpoch(call)
  /\ result = "Verified"
  /\ AccountMayAttach(call.record.user, call.record.scope, scope)

Superseded_bug(kept, r) == {t \in kept : t.peer = r.peer}

\* Only a verified login from the same peer and account replaces a token.
Superseded(kept, r) == {t \in kept : t.peer = r.peer /\ t.account = r.user}

TokenRoom(kept, r) ==
  Cardinality(kept) - Cardinality(Superseded(kept, r)) < MaximumSetupTokens

\* The conversation's record, re-keyed as a setup token of its account.
Verified(r, token) ==
  [r EXCEPT !.id = token, !.account = r.user, !.expires = now + TokenLifetime]

\* The account helper answered: respondForPeer, second locked section.
RespondVerify(call, result) ==
  LET r == call.record
      kept == Pruned(tokens)
  IN
  /\ call.stage = "verify"
  /\ calls' = (calls \ {call}) \cup {[call EXCEPT !.stage = "release"]}
  /\ \/ /\ Accepted(call, result)
        /\ pending' = Pruned(pending)
        /\ lease' = PrunedLease
        /\ \/ /\ TokenRoom(kept, r)
              /\ \E token \in Fresh :
                   /\ drawn' = drawn \cup {token}
                   /\ tokens' = (kept \ Superseded(kept, r)) \cup {Verified(r, token)}
           \/ tokens' = kept /\ UNCHANGED drawn
     \/ ~Accepted(call, result) /\ UNCHANGED <<pending, tokens, lease, drawn>>
  /\ effect' = NoEffect
  /\ UNCHANGED <<scope, now, revocationGeneration, verifying>>

ReleasedVerifier_bug == verifying

ReleasedVerifier == FALSE

\* respondForPeer, the @finally section.
RespondRelease(call) ==
  /\ call.stage = "release"
  /\ verifying' = ReleasedVerifier
  /\ calls' = calls \ {call}
  /\ effect' = NoEffect
  /\ UNCHANGED <<scope, now, pending, tokens, lease, revocationGeneration, drawn>>

\* authorizeToken: the setup requests of a logged-in peer.
AuthorizeToken(token, peer) ==
  /\ pending' = Pruned(pending)
  /\ PruneOthers
  /\ \/ \E r \in Pruned(tokens) : MayUse(r, token, peer) /\ effect' = Granted(r)
     \/ ~(\E r \in Pruned(tokens) : MayUse(r, token, peer)) /\ effect' = NoEffect
  /\ UNCHANGED <<scope, now, revocationGeneration, verifying, calls, drawn>>

RevokeAll ==
  /\ revocationGeneration < MaxRevocations
  /\ revocationGeneration' = revocationGeneration + 1
  /\ pending' = {}
  /\ tokens' = {}
  /\ lease' = NoLease
  /\ effect' = NoEffect
  /\ UNCHANGED <<scope, now, verifying, calls, drawn>>

\* revokeToken does not prune.
RevokeToken(token) ==
  /\ tokens' = {r \in tokens : r.id # token}
  /\ lease' = IF lease # NoLease /\ lease.token = token THEN NoLease ELSE lease
  /\ effect' = Ended(token)
  /\ UNCHANGED <<scope, now, pending, revocationGeneration, verifying, calls, drawn>>

LeaseFree_bug == IF PrunedLease = NoLease THEN TRUE ELSE ~PrunedLease.active

LeaseFree == PrunedLease = NoLease

\* The setup token is spent by the claim.
Claimed(kept, r) == kept \ {r}

\* claimToken: exchanges a setup token for the stream lease.
ClaimToken(token, peer) ==
  LET kept == Pruned(tokens) IN
  /\ pending' = Pruned(pending)
  /\ \/ /\ LeaseFree
        /\ \E r \in kept, credential \in Fresh :
             /\ MayUse(r, token, peer)
             /\ drawn' = drawn \cup {credential}
             /\ tokens' = Claimed(kept, r)
             /\ lease' = [id |-> credential, token |-> r.id, origin |-> r.origin,
                          account |-> r.account, scope |-> r.scope, epoch |-> r.epoch,
                          activateBefore |-> now + ActivationWindow,
                          active |-> FALSE, activated |-> 0]
     \/ PruneOthers /\ UNCHANGED drawn
  /\ effect' = NoEffect
  /\ UNCHANGED <<scope, now, revocationGeneration, verifying, calls>>

Current(l, id) == l # NoLease /\ l.id = id

\* activateStreamLease: the stream's transport came up.
ActivateStreamLease(id) ==
  /\ pending' = Pruned(pending)
  /\ tokens' = Pruned(tokens)
  /\ \/ /\ Current(PrunedLease, id) /\ ~PrunedLease.active
        /\ lease' = [PrunedLease EXCEPT !.active = TRUE, !.activated = now]
     \/ /\ ~(Current(PrunedLease, id) /\ ~PrunedLease.active)
        /\ lease' = PrunedLease
  /\ effect' = NoEffect
  /\ UNCHANGED <<scope, now, revocationGeneration, verifying, calls, drawn>>

Usable(l, id) == Current(l, id) /\ l.active

\* authorizeStreamLease, and performWithStreamLease, which runs the caller's
\* media or input action inside the same locked section.
PerformWithStreamLease(id) ==
  /\ pending' = Pruned(pending)
  /\ PruneOthers
  /\ effect' = IF Usable(PrunedLease, id) THEN Granted(PrunedLease) ELSE NoEffect
  /\ UNCHANGED <<scope, now, revocationGeneration, verifying, calls, drawn>>

EndsLease_bug(id) == TRUE

EndsLease(id) == Current(lease, id)

EndStreamLease(id) ==
  /\ lease' = IF EndsLease(id) THEN NoLease ELSE lease
  /\ effect' = Ended(id)
  /\ UNCHANGED <<scope, now, pending, tokens, revocationGeneration, verifying,
                 calls, drawn>>

-----------------------------------------------------------------------------
\* The session owner reports another desktop, the login window or nothing.
GraphicalChange(s) ==
  /\ scope' = s
  /\ effect' = NoEffect
  /\ UNCHANGED <<now, pending, tokens, lease, revocationGeneration, verifying,
                 calls, drawn>>

Tick ==
  /\ now < MaxNow
  /\ now' = now + 1
  /\ effect' = NoEffect
  /\ UNCHANGED <<scope, pending, tokens, lease, revocationGeneration, verifying,
                 calls, drawn>>

Next ==
  \/ \E peer \in Peers, user \in Accounts : StartForPeer(peer, user)
  \/ \E peer \in Peers, c \in drawn : RespondBegin(peer, c)
  \/ \E call \in calls, result \in VerifyResults : RespondVerify(call, result)
  \/ \E call \in calls : RespondRelease(call)
  \/ \E token \in drawn, peer \in Peers : AuthorizeToken(token, peer)
  \/ RevokeAll
  \/ \E token \in drawn : RevokeToken(token)
  \/ \E token \in drawn, peer \in Peers : ClaimToken(token, peer)
  \/ \E id \in drawn : ActivateStreamLease(id)
  \/ \E id \in drawn : PerformWithStreamLease(id)
  \/ \E id \in drawn : EndStreamLease(id)
  \/ \E s \in Scopes : GraphicalChange(s)
  \/ Tick

Spec == Init /\ [][Next]_vars

\* The helper answers or is killed at its deadline, and the thread that waits
\* for it then runs: each call leaves respondForPeer.
Verifies == \E call \in calls, result \in VerifyResults : RespondVerify(call, result)
Releases == \E call \in calls : RespondRelease(call)

FairSpec == Spec /\ WF_vars(Verifies) /\ WF_vars(Releases)

-----------------------------------------------------------------------------
\* The tables hold records of the right shape; a setup token's record names the
\* account that was verified for it (record.account in respondForPeer).
TypeOK ==
  /\ scope \in Scopes
  /\ now \in Nat
  /\ pending \subseteq AuthRecord
  /\ tokens \subseteq {r \in AuthRecord : r.account = r.user}
  /\ lease \in StreamLease \cup {NoLease}
  /\ revocationGeneration \in Nat
  /\ verifying \in BOOLEAN
  /\ calls \subseteq Call
  /\ drawn \subseteq Secrets
  /\ effect \in Grant \cup End \cup {NoEffect}

\* revokeAll is final: everything the session still honours comes from a
\* conversation opened after the last revokeAll, also when the account helper
\* was running during it (the _revocationGeneration test of respondForPeer).
RevocationIsFinal ==
  /\ \A r \in pending \cup tokens : r.epoch = revocationGeneration
  /\ lease # NoLease => lease.epoch = revocationGeneration

\* One login, one credential: a conversation is at any time in one place only,
\* as a pending challenge, a running verification, a setup token or the lease,
\* so a replayed response or claim (respondForPeer, claimToken) finds nothing.
OneLoginOneCredential ==
  /\ \A r, q \in pending \cup tokens \cup Running : r.origin = q.origin => r = q
  /\ pending \cap Running = {} /\ tokens \cap (pending \cup Running) = {}
  /\ \A c, d \in calls :
       c.stage = "verify" /\ d.stage = "verify" /\ c.record = d.record => c = d
  /\ lease # NoLease =>
       \A r \in pending \cup tokens \cup Running : r.origin # lease.origin

\* What authorizeToken and performWithStreamLease let through belongs to the
\* account that owns the desktop at that moment (or to the login window), and
\* the scope is the one the conversation was opened under.
GrantsMatchDesktop ==
  effect.kind = "grant" => AccountMayAttach(effect.account, effect.opened, effect.at)

\* The tables stay within MaximumPendingChallenges and MaximumSetupTokens, also
\* when a verification that began with room finishes after others filled them.
TablesBounded ==
  /\ Cardinality(pending) <= MaximumPendingChallenges
  /\ Cardinality(tokens) <= MaximumSetupTokens

\* A lease is active only if its transport came up within ActivationWindow of
\* the claim (activateStreamLease races the activateBefore deadline).
ActivatedInTime ==
  lease # NoLease /\ lease.active => lease.activated < lease.activateBefore

\* _verifying admits one helper at a time, and is set as long as one runs.
OneVerification ==
  /\ \A c, d \in calls : c = d
  /\ verifying <=> calls # {}

\* claimToken never takes over a lease: while a lease is still entitled to its
\* scope, no step puts another one in its place.
NoTakeover ==
  [][lease # NoLease /\ ~LeaseLapsed(lease) /\ lease' # NoLease
       => lease'.id = lease.id]_vars

\* A lease that is still entitled is ended only by its own holder, by revoking
\* the token it was claimed with, or by revokeAll: ending a stale lease
\* (endStreamLease with an older pointer) leaves the current one alone.
LeaseEndsForCause ==
  [][lease # NoLease /\ ~LeaseLapsed(lease) /\ lease' = NoLease
       => effect' \in {Ended(lease.id), Ended(lease.token)} \/ RevokeAll]_vars

\* A live setup token goes only by its own use: it is claimed, revoked, or
\* superseded by a verified login of the same account from the same peer.
\* Another peer's or another account's login never costs it.
TokensLeaveForCause ==
  [][\A t \in tokens \ tokens' : Alive(t) =>
       \/ \E n \in tokens' \ tokens : n.peer = t.peer /\ n.account = t.account
       \/ lease' # NoLease /\ lease'.token = t.id
       \/ effect' = Ended(t.id)
       \/ RevokeAll]_vars

\* The verifier always comes free again: no outcome of respondForPeer leaves
\* _verifying set and all later logins answered "busy".
VerifierComesFree == verifying ~> ~verifying

==============================================================================
