--------------------- MODULE AuthenticationSessionProofs ---------------------
(***************************************************************************)
(* Proofs about AuthenticationSession, for every number of peers, accounts *)
(* and secrets, every lifetime and every order of calls.                   *)
(***************************************************************************)
EXTENDS AuthenticationSession, FiniteSetTheorems, TLAPS

\* The records a prune keeps are records that were there.
LEMMA PrunedSubset == \A S : Pruned(S) \subseteq S
  BY Zenon DEF Pruned

\* prune leaves the lease as it is or ends it, and what it leaves is entitled.
LEMMA PrunedLeaseCases ==
  \/ PrunedLease = NoLease
  \/ PrunedLease = lease /\ lease # NoLease /\ ~LeaseLapsed(lease)
  BY Zenon DEF PrunedLease

\* Whoever may attach is a valid account.
LEMMA AttachIsAccount ==
  \A a, before, after : AccountMayAttach(a, before, after) => a \in Accounts
  BY Zenon DEF AccountMayAttach, AccountIdentityValid

LEMMA TypeInit == Init => TypeOK
<1> SUFFICES ASSUME Init PROVE TypeOK
  BY Zenon
<1>1. now \in Nat /\ revocationGeneration \in Nat
  BY Zenon DEF Init
<1>2. verifying \in BOOLEAN
  BY Zenon DEF Init
<1> QED BY <1>1, <1>2, Zenon DEF Init, TypeOK

\* Every locked section keeps the tables well formed.
LEMMA TypeStep == TypeOK /\ [Next]_vars => TypeOK'
<1> SUFFICES ASSUME TypeOK, [Next]_vars PROVE TypeOK'
  BY Zenon
<1> USE SessionAssumption, PrunedSubset
<1>a. PrunedLease \in StreamLease \cup {NoLease}
  BY PrunedLeaseCases, Zenon DEF TypeOK
<1>b. \A r \in pending \cup tokens : r \in AuthRecord
  BY Zenon DEF TypeOK
<1>1. ASSUME NEW peer \in Peers, NEW user \in Accounts, StartForPeer(peer, user)
      PROVE TypeOK'
  <2>1. pending' \subseteq AuthRecord
    <3>1. CASE pending' = Pruned(pending)
      BY <3>1, Zenon DEF TypeOK
    <3>2. ASSUME NEW c \in Secrets,
                 pending' = Pruned(pending) \cup
                  {[id |-> c, origin |-> c, peer |-> peer,
                    user |-> user, account |-> NoAccount, scope |-> scope,
                    expires |-> now + PendingLifetime,
                    epoch |-> revocationGeneration]}
          PROVE pending' \subseteq AuthRecord
      BY <3>2 DEF TypeOK, AuthRecord
    <3> QED BY <1>1, <3>1, <3>2, Zenon DEF StartForPeer, Fresh
  <2> QED BY <1>1, <1>a, <2>1, Zenon DEF StartForPeer, PruneOthers, TypeOK, Fresh
<1>2. ASSUME NEW peer \in Peers, NEW c \in drawn, RespondBegin(peer, c) PROVE TypeOK'
  <2>1. ASSUME NEW r \in pending
        PROVE [record |-> r, stage |-> "verify", generation |-> revocationGeneration] \in Call
    BY Zenon DEF TypeOK, Call
  <2>2. calls' \subseteq Call /\ verifying' \in BOOLEAN
    BY <1>2, <2>1, Zenon DEF RespondBegin, TypeOK
  <2>3. pending' \subseteq AuthRecord
    BY <1>2, Zenon DEF RespondBegin, TypeOK, Consumed
  <2> QED BY <1>2, <1>a, <2>2, <2>3, Zenon DEF RespondBegin, PruneOthers, TypeOK
<1>3. ASSUME NEW call \in calls, NEW result \in VerifyResults, RespondVerify(call, result)
      PROVE TypeOK'
  <2>0. call \in Call
    BY Zenon DEF TypeOK
  <2>1. [call EXCEPT !.stage = "release"] \in Call
    BY <2>0, Zenon DEF Call
  <2>2. \A token \in Secrets :
          Verified(call.record, token) \in {r \in AuthRecord : r.account = r.user}
    <3> SUFFICES ASSUME NEW token \in Secrets
                 PROVE Verified(call.record, token) \in {r \in AuthRecord : r.account = r.user}
      BY Zenon
    <3>1. call.record \in AuthRecord /\ now + TokenLifetime \in Nat
      BY <2>0 DEF Call, TypeOK
    <3>2. Verified(call.record, token) \in AuthRecord
      BY <3>1, Zenon DEF AuthRecord, Verified
    <3>3. Verified(call.record, token).account = Verified(call.record, token).user
      BY <3>1, Zenon DEF AuthRecord, Verified
    <3> QED BY <3>2, <3>3, Zenon
  <2>3. calls' \subseteq Call
    BY <1>3, <2>1, Zenon DEF RespondVerify, TypeOK
  <2>4. tokens' \subseteq {r \in AuthRecord : r.account = r.user} /\ drawn' \subseteq Secrets
    BY <1>3, <2>2, Zenon DEF RespondVerify, TypeOK, Fresh
  <2>5. pending' \subseteq AuthRecord /\ lease' \in StreamLease \cup {NoLease}
    BY <1>3, <1>a, Zenon DEF RespondVerify, TypeOK
  <2> QED BY <1>3, <2>3, <2>4, <2>5, Zenon DEF RespondVerify, TypeOK
<1>4. ASSUME NEW call \in calls, RespondRelease(call) PROVE TypeOK'
  BY <1>4, Zenon DEF RespondRelease, TypeOK, ReleasedVerifier
<1>5. ASSUME NEW token \in drawn, NEW peer \in Peers, AuthorizeToken(token, peer)
      PROVE TypeOK'
  <2>1. ASSUME NEW r \in tokens, MayUse(r, token, peer) PROVE Granted(r) \in Grant
    BY <1>b, <2>1, AttachIsAccount, Zenon DEF MayUse, Granted, Grant, AuthRecord, TypeOK
  <2>2. effect' \in Grant \cup End \cup {NoEffect}
    BY <1>5, <2>1, Zenon DEF AuthorizeToken
  <2> QED BY <1>5, <1>a, <2>2, Zenon DEF AuthorizeToken, PruneOthers, TypeOK
<1>6. ASSUME RevokeAll PROVE TypeOK'
  BY <1>6 DEF RevokeAll, TypeOK
<1>7. ASSUME NEW token \in drawn, RevokeToken(token) PROVE TypeOK'
  <2>1. Ended(token) \in End
    BY Zenon DEF Ended, End, TypeOK
  <2> QED BY <1>7, <2>1, Zenon DEF RevokeToken, TypeOK
<1>8. ASSUME NEW token \in drawn, NEW peer \in Peers, ClaimToken(token, peer) PROVE TypeOK'
  <2>1. ASSUME NEW r \in tokens, NEW credential \in Secrets, MayUse(r, token, peer)
        PROVE [id |-> credential, token |-> r.id, origin |-> r.origin,
               account |-> r.account, scope |-> r.scope, epoch |-> r.epoch,
               activateBefore |-> now + ActivationWindow,
               active |-> FALSE, activated |-> 0] \in StreamLease
    BY <1>b, <2>1, AttachIsAccount DEF MayUse, StreamLease, AuthRecord, TypeOK
  <2>2. lease' \in StreamLease \cup {NoLease}
    BY <1>8, <1>a, <2>1 DEF ClaimToken, PruneOthers, Fresh
  <2>3. tokens' \subseteq tokens /\ drawn' \subseteq Secrets
    BY <1>8, Zenon DEF ClaimToken, PruneOthers, Fresh, Claimed, TypeOK
  <2> QED BY <1>8, <2>2, <2>3, Zenon DEF ClaimToken, TypeOK
<1>9. ASSUME NEW id \in drawn, ActivateStreamLease(id) PROVE TypeOK'
  <2>1. lease' \in StreamLease \cup {NoLease}
    BY <1>9, <1>a, Zenon
       DEF ActivateStreamLease, Current, StreamLease, TypeOK
  <2> QED BY <1>9, <2>1, Zenon DEF ActivateStreamLease, TypeOK
<1>10. ASSUME NEW id \in drawn, PerformWithStreamLease(id) PROVE TypeOK'
  <2>1. ASSUME Usable(PrunedLease, id) PROVE Granted(PrunedLease) \in Grant
    BY <1>a, <2>1, Zenon DEF Usable, Current, Granted, Grant, StreamLease, TypeOK
  <2>2. effect' \in Grant \cup End \cup {NoEffect}
    BY <1>10, <2>1, Zenon DEF PerformWithStreamLease
  <2> QED BY <1>10, <1>a, <2>2, Zenon DEF PerformWithStreamLease, PruneOthers, TypeOK
<1>11. ASSUME NEW id \in drawn, EndStreamLease(id) PROVE TypeOK'
  <2>1. Ended(id) \in End
    BY Zenon DEF Ended, End, TypeOK
  <2> QED BY <1>11, <2>1, Zenon DEF EndStreamLease, TypeOK
<1>12. ASSUME NEW s \in Scopes, GraphicalChange(s) PROVE TypeOK'
  BY <1>12, Zenon DEF GraphicalChange, TypeOK
<1>13. ASSUME Tick PROVE TypeOK'
  BY <1>13 DEF Tick, TypeOK
<1>14. ASSUME UNCHANGED vars PROVE TypeOK'
  BY <1>14, Zenon DEF vars, TypeOK
<1> QED
  BY <1>1, <1>2, <1>3, <1>4, <1>5, <1>6, <1>7, <1>8, <1>9, <1>10, <1>11, <1>12,
     <1>13, <1>14, Zenon DEF Next

\* The tables are well formed in every reachable state.
THEOREM TypeCorrect == Spec => []TypeOK
  BY TypeInit, TypeStep, PTL DEF Spec

-----------------------------------------------------------------------------
(***************************************************************************)
(* What one step may do to the lease and to the tables.  The invariants    *)
(* below rest on these two lemmas and on the four actions that add to a    *)
(* table or clear them.                                                    *)
(***************************************************************************)

\* The lease that claimToken makes out of the setup token r.
NewLease(l, r) ==
  /\ l.origin = r.origin /\ l.epoch = r.epoch
  /\ l.active = FALSE

\* A step keeps the lease, ends it, activates it in time or, when no lease is
\* left after the prune, makes one from a token that it removes.
LEMMA LeaseStep ==
  ASSUME TypeOK, [Next]_vars
  PROVE  \/ lease' = lease
         \/ lease' = NoLease
         \/ /\ lease # NoLease /\ ~LeaseLapsed(lease) /\ ~lease.active
            /\ lease' = [lease EXCEPT !.active = TRUE, !.activated = now]
         \/ /\ PrunedLease = NoLease
            /\ \E r \in tokens : NewLease(lease', r) /\ tokens' \subseteq tokens \ {r}
            /\ UNCHANGED <<calls, revocationGeneration>> /\ pending' \subseteq pending
<1> USE PrunedLeaseCases
<1>1. ASSUME NEW peer \in Peers, NEW user \in Accounts, StartForPeer(peer, user)
      PROVE lease' = lease \/ lease' = NoLease
  BY <1>1, Zenon DEF StartForPeer, PruneOthers
<1>2. ASSUME NEW peer \in Peers, NEW c \in drawn, RespondBegin(peer, c)
      PROVE lease' = lease \/ lease' = NoLease
  BY <1>2, Zenon DEF RespondBegin, PruneOthers
<1>3. ASSUME NEW call \in calls, NEW result \in VerifyResults, RespondVerify(call, result)
      PROVE lease' = lease \/ lease' = NoLease
  BY <1>3, Zenon DEF RespondVerify
<1>4. ASSUME NEW call \in calls, RespondRelease(call) PROVE lease' = lease
  BY <1>4, Zenon DEF RespondRelease
<1>5. ASSUME NEW token \in drawn, NEW peer \in Peers, AuthorizeToken(token, peer)
      PROVE lease' = lease \/ lease' = NoLease
  BY <1>5, Zenon DEF AuthorizeToken, PruneOthers
<1>6. ASSUME RevokeAll PROVE lease' = NoLease
  BY <1>6, Zenon DEF RevokeAll
<1>7. ASSUME NEW token \in drawn, RevokeToken(token) PROVE lease' = lease \/ lease' = NoLease
  BY <1>7, Zenon DEF RevokeToken
<1>8. ASSUME NEW token \in drawn, NEW peer \in Peers, ClaimToken(token, peer)
      PROVE \/ lease' = lease \/ lease' = NoLease
            \/ /\ PrunedLease = NoLease
               /\ \E r \in tokens : NewLease(lease', r) /\ tokens' \subseteq tokens \ {r}
               /\ UNCHANGED <<calls, revocationGeneration>> /\ pending' \subseteq pending
  <2>1. CASE PruneOthers
    BY <2>1, Zenon DEF PruneOthers
  <2>2. ASSUME NEW r \in Pruned(tokens), NEW credential \in Fresh,
               LeaseFree,
               tokens' = Claimed(Pruned(tokens), r),
               lease' = [id |-> credential, token |-> r.id, origin |-> r.origin,
                          account |-> r.account, scope |-> r.scope, epoch |-> r.epoch,
                          activateBefore |-> now + ActivationWindow,
                          active |-> FALSE, activated |-> 0]
        PROVE /\ PrunedLease = NoLease
              /\ \E q \in tokens : NewLease(lease', q) /\ tokens' \subseteq tokens \ {q}
    BY <2>2, PrunedSubset, Zenon DEF LeaseFree, NewLease, Claimed
  <2> QED BY <1>8, <2>1, <2>2, PrunedSubset, Zenon DEF ClaimToken
<1>9. ASSUME NEW id \in drawn, ActivateStreamLease(id)
      PROVE \/ lease' = lease \/ lease' = NoLease
            \/ /\ lease # NoLease /\ ~LeaseLapsed(lease) /\ ~lease.active
               /\ lease' = [lease EXCEPT !.active = TRUE, !.activated = now]
  BY <1>9, Zenon DEF ActivateStreamLease, Current
<1>10. ASSUME NEW id \in drawn, PerformWithStreamLease(id)
       PROVE lease' = lease \/ lease' = NoLease
  BY <1>10, Zenon DEF PerformWithStreamLease, PruneOthers
<1>11. ASSUME NEW id \in drawn, EndStreamLease(id) PROVE lease' = lease \/ lease' = NoLease
  BY <1>11, Zenon DEF EndStreamLease
<1>12. ASSUME NEW s \in Scopes, GraphicalChange(s) PROVE lease' = lease
  BY <1>12, Zenon DEF GraphicalChange
<1>13. ASSUME Tick \/ UNCHANGED vars PROVE lease' = lease
  BY <1>13, Zenon DEF Tick, vars
<1> QED
  BY <1>1, <1>2, <1>3, <1>4, <1>5, <1>6, <1>7, <1>8, <1>9, <1>10, <1>11, <1>12,
     <1>13, Zenon DEF Next

\* The steps that open no conversation, begin or end no verification and do not
\* revoke everything only take records out of the tables.
Quiet ==
  /\ pending' \subseteq pending /\ tokens' \subseteq tokens /\ calls' \subseteq calls
  /\ drawn \subseteq drawn'
  /\ revocationGeneration' = revocationGeneration

LEMMA TableStep ==
  ASSUME [Next]_vars
  PROVE  \/ \E peer \in Peers, user \in Accounts : StartForPeer(peer, user)
         \/ \E peer \in Peers, c \in drawn : RespondBegin(peer, c)
         \/ \E call \in calls, result \in VerifyResults : RespondVerify(call, result)
         \/ RevokeAll
         \/ Quiet
<1> USE PrunedSubset DEF Quiet
<1>4. ASSUME NEW call \in calls, RespondRelease(call) PROVE Quiet
  BY <1>4, Zenon DEF RespondRelease
<1>5. ASSUME NEW token \in drawn, NEW peer \in Peers, AuthorizeToken(token, peer)
      PROVE Quiet
  BY <1>5, Zenon DEF AuthorizeToken, PruneOthers
<1>7. ASSUME NEW token \in drawn, RevokeToken(token) PROVE Quiet
  BY <1>7, Zenon DEF RevokeToken
<1>8. ASSUME NEW token \in drawn, NEW peer \in Peers, ClaimToken(token, peer) PROVE Quiet
  BY <1>8, Zenon DEF ClaimToken, PruneOthers, Claimed
<1>9. ASSUME NEW id \in drawn, ActivateStreamLease(id) PROVE Quiet
  BY <1>9, Zenon DEF ActivateStreamLease
<1>10. ASSUME NEW id \in drawn, PerformWithStreamLease(id) PROVE Quiet
  BY <1>10, Zenon DEF PerformWithStreamLease, PruneOthers
<1>11. ASSUME NEW id \in drawn, EndStreamLease(id) PROVE Quiet
  BY <1>11, Zenon DEF EndStreamLease
<1>12. ASSUME NEW s \in Scopes, GraphicalChange(s) PROVE Quiet
  BY <1>12, Zenon DEF GraphicalChange
<1>13. ASSUME Tick \/ UNCHANGED vars PROVE Quiet
  BY <1>13, Zenon DEF Tick, vars
<1> QED
  BY <1>4, <1>5, <1>7, <1>8, <1>9, <1>10, <1>11, <1>12, <1>13, Zenon DEF Next

-----------------------------------------------------------------------------
(***************************************************************************)
(* Revocation.  A verification that is under way may belong to an earlier  *)
(* epoch, so RevocationIsFinal is not inductive by itself: the argument    *)
(* needs that the generation a call captured is the epoch of its record,   *)
(* which makes the comparison in respondForPeer a comparison of epochs.    *)
(***************************************************************************)
EpochInv ==
  /\ RevocationIsFinal
  /\ \A c \in calls : c.generation = c.record.epoch

LEMMA EpochStep == TypeOK /\ EpochInv /\ [Next]_vars => EpochInv'
<1> SUFFICES ASSUME TypeOK, EpochInv, [Next]_vars PROVE EpochInv'
  BY Zenon
<1> USE PrunedSubset
<1>a. /\ \A r \in pending \cup tokens : r.epoch = revocationGeneration
      /\ lease # NoLease => lease.epoch = revocationGeneration
      /\ \A c \in calls : c.generation = c.record.epoch
  BY Zenon DEF EpochInv, RevocationIsFinal
<1>b. lease' # NoLease => lease'.epoch = revocationGeneration
  <2>1. CASE lease # NoLease /\ lease' = [lease EXCEPT !.active = TRUE, !.activated = now]
    BY <2>1, <1>a, Zenon DEF TypeOK, StreamLease
  <2>2. ASSUME NEW r \in tokens, NewLease(lease', r)
        PROVE lease'.epoch = revocationGeneration
    BY <2>2, <1>a, Zenon DEF NewLease
  <2> QED BY <2>1, <2>2, <1>a, LeaseStep
<1>1. ASSUME NEW peer \in Peers, NEW user \in Accounts, StartForPeer(peer, user)
      PROVE EpochInv'
  <2>1. \A r \in pending' \cup tokens' : r.epoch = revocationGeneration
    BY <1>1, <1>a DEF StartForPeer, PruneOthers
  <2> QED BY <1>1, <1>a, <1>b, <2>1, Zenon DEF EpochInv, RevocationIsFinal, StartForPeer
<1>2. ASSUME NEW peer \in Peers, NEW k \in drawn, RespondBegin(peer, k) PROVE EpochInv'
  <2>1. \A c \in calls' : c.generation = c.record.epoch
    BY <1>2, <1>a DEF RespondBegin
  <2>3. \A r \in pending' \cup tokens' : r.epoch = revocationGeneration
    BY <1>2, <1>a, Zenon DEF RespondBegin, PruneOthers, Consumed
  <2> QED BY <1>2, <1>b, <2>1, <2>3, Zenon DEF EpochInv, RevocationIsFinal, RespondBegin
<1>3. ASSUME NEW call \in calls, NEW result \in VerifyResults, RespondVerify(call, result)
      PROVE EpochInv'
  <2>0. call \in Call /\ call.record \in AuthRecord
    BY Zenon DEF TypeOK, Call
  <2>1. \A c \in calls' : c.generation = c.record.epoch
    BY <1>3, <1>a, <2>0, Zenon DEF RespondVerify, Call
  <2>3. \A token : Verified(call.record, token).epoch = call.record.epoch
    BY <2>0, Zenon DEF Verified, AuthRecord
  <2>4. Accepted(call, result) => call.record.epoch = revocationGeneration
    BY <1>a, Zenon DEF Accepted, SameEpoch
  <2>5. \A r \in pending' \cup tokens' : r.epoch = revocationGeneration
    BY <1>3, <1>a, <2>3, <2>4, Zenon DEF RespondVerify
  <2> QED BY <1>3, <1>b, <2>1, <2>5, Zenon DEF EpochInv, RevocationIsFinal, RespondVerify
<1>4. ASSUME RevokeAll PROVE EpochInv'
  BY <1>4, <1>a, Zenon DEF RevokeAll, EpochInv, RevocationIsFinal
<1>5. ASSUME Quiet PROVE EpochInv'
  BY <1>5, <1>a, <1>b, Zenon DEF Quiet, EpochInv, RevocationIsFinal
<1> QED BY <1>1, <1>2, <1>3, <1>4, <1>5, TableStep, Zenon

\* Nothing that revokeAll was meant to end survives it, whatever the account
\* helper was doing at the time.
THEOREM RevocationFinal == Spec => []RevocationIsFinal
<1>1. Init => EpochInv
  BY Zenon DEF Init, EpochInv, RevocationIsFinal
<1>2. EpochInv => RevocationIsFinal
  BY Zenon DEF EpochInv
<1> QED BY <1>1, <1>2, EpochStep, TypeCorrect, PTL DEF Spec

-----------------------------------------------------------------------------
(***************************************************************************)
(* Single use.  OneLoginOneCredential is preserved because a conversation  *)
(* is drawn fresh, and that needs every origin to have been drawn already. *)
(***************************************************************************)
OriginInv ==
  /\ OneLoginOneCredential
  /\ \A r \in pending \cup tokens \cup Running : r.origin \in drawn
  /\ lease # NoLease => lease.origin \in drawn

LEMMA OriginStep == TypeOK /\ OriginInv /\ [Next]_vars => OriginInv'
<1> SUFFICES ASSUME TypeOK, OriginInv, [Next]_vars PROVE OriginInv'
  BY Zenon
<1> USE PrunedSubset
<1> DEFINE All == pending \cup tokens \cup Running
<1>a. /\ \A r, q \in All : r.origin = q.origin => r = q
      /\ pending \cap Running = {} /\ tokens \cap (pending \cup Running) = {}
      /\ \A c, d \in calls :
           c.stage = "verify" /\ d.stage = "verify" /\ c.record = d.record => c = d
      /\ lease # NoLease => \A r \in All : r.origin # lease.origin
      /\ \A r \in All : r.origin \in drawn
      /\ lease # NoLease => lease.origin \in drawn
  BY Zenon DEF OriginInv, OneLoginOneCredential
<1>1. ASSUME NEW peer \in Peers, NEW user \in Accounts, StartForPeer(peer, user)
      PROVE OriginInv'
  <2>1. calls' = calls /\ Running' = Running /\ tokens' \subseteq tokens
        /\ drawn \subseteq drawn' /\ (lease' = lease \/ lease' = NoLease)
    BY <1>1, PrunedLeaseCases, Zenon DEF StartForPeer, PruneOthers, Running
  <2>2. CASE pending' \subseteq pending
    BY <2>1, <2>2, <1>a, Zenon DEF OriginInv, OneLoginOneCredential
  <2>3. ASSUME NEW n, pending' \subseteq pending \cup {n},
               n.origin \notin drawn, n.origin \in drawn'
        PROVE OriginInv'
    BY <2>1, <2>3, <1>a DEF OriginInv, OneLoginOneCredential
  <2> QED BY <1>1, <2>2, <2>3 DEF StartForPeer, Fresh
<1>2. ASSUME NEW peer \in Peers, NEW k \in drawn, RespondBegin(peer, k) PROVE OriginInv'
  <2>1. tokens' \subseteq tokens /\ drawn' = drawn /\ (lease' = lease \/ lease' = NoLease)
    BY <1>2, PrunedLeaseCases, Zenon DEF RespondBegin, PruneOthers
  <2>2. CASE pending' \subseteq pending /\ calls' = calls
    <3>1. Running' = Running
      BY <2>2, Zenon DEF Running
    <3> QED BY <2>1, <2>2, <3>1, <1>a, ZenonT(60) DEF OriginInv, OneLoginOneCredential
  <2>3. ASSUME NEW r \in pending, pending' \subseteq pending \ {r},
               NEW c, c.record = r, c.stage = "verify", calls' = calls \cup {c}
        PROVE OriginInv'
    <3>1. Running' = Running \cup {r}
      BY <2>3, Zenon DEF Running
    <3>2. \A d \in calls : d.stage = "verify" => d.record # r
      BY <2>3, <1>a DEF Running
    <3>3. \A d, e \in calls' :
            d.stage = "verify" /\ e.stage = "verify" /\ d.record = e.record => d = e
      BY <2>3, <3>2, <1>a, ZenonT(60)
    <3> QED BY <2>1, <2>3, <3>1, <3>3, <1>a DEF OriginInv, OneLoginOneCredential
  <2> QED BY <1>2, <2>2, <2>3, Zenon DEF RespondBegin, Consumed
<1>3. ASSUME NEW call \in calls, NEW result \in VerifyResults, RespondVerify(call, result)
      PROVE OriginInv'
  <2> DEFINE rec == call.record
  <2>0. call \in Call /\ rec \in AuthRecord
    BY Zenon DEF TypeOK, Call
  <2>1. [call EXCEPT !.stage = "release"].stage = "release"
    BY <2>0, Zenon DEF Call
  <2>2. rec \in Running
    BY <1>3, Zenon DEF RespondVerify, Running
  <2>a. calls' = (calls \ {call}) \cup {[call EXCEPT !.stage = "release"]}
    BY <1>3, Zenon DEF RespondVerify
  <2>b. call.stage = "verify"
    BY <1>3, Zenon DEF RespondVerify
  <2>c. \A c \in calls : c.stage = "verify" /\ c.record = rec => c = call
    BY <2>b, <1>a, Zenon
  <2>d. \A c : c \in calls' /\ c.stage = "verify" <=> c \in calls /\ c.stage = "verify" /\ c # call
    BY <2>1, <2>a, Zenon
  <2>3. Running' = Running \ {rec}
    BY <2>b, <2>c, <2>d, Zenon DEF Running
  <2>4. \A c, d \in calls' :
          c.stage = "verify" /\ d.stage = "verify" /\ c.record = d.record => c = d
    BY <2>d, <1>a, Zenon
  <2>5. pending' \subseteq pending /\ drawn \subseteq drawn'
        /\ (lease' = lease \/ lease' = NoLease)
    BY <1>3, PrunedLeaseCases, Zenon DEF RespondVerify
  <2>6. CASE tokens' \subseteq tokens
    BY <2>3, <2>4, <2>5, <2>6, <1>a, Zenon DEF OriginInv, OneLoginOneCredential
  <2>7. ASSUME NEW n, n.origin = rec.origin, tokens' \subseteq tokens \cup {n}
        PROVE OriginInv'
    <3>1. \A q \in pending \cup tokens \cup (Running \ {rec}) : q.origin # n.origin
      BY <2>2, <2>7, <1>a
    <3>2. n.origin \in drawn' /\ (lease # NoLease => lease.origin # n.origin)
      BY <2>2, <2>5, <2>7, <1>a, Zenon
    <3> QED BY <2>3, <2>4, <2>5, <2>7, <3>1, <3>2, <1>a DEF OriginInv, OneLoginOneCredential
  <2>8. \A token : Verified(rec, token).origin = rec.origin
    BY <2>0, Zenon DEF Verified, AuthRecord
  <2> QED BY <1>3, <2>6, <2>7, <2>8, Zenon DEF RespondVerify
<1>4. ASSUME RevokeAll PROVE OriginInv'
  <2>1. Running' = Running
    BY <1>4, Zenon DEF RevokeAll, Running
  <2> QED BY <1>4, <2>1, <1>a DEF RevokeAll, OriginInv, OneLoginOneCredential
<1>5. ASSUME Quiet PROVE OriginInv'
  <2>1. Running' \subseteq Running
    BY <1>5, Zenon DEF Quiet, Running
  <2>2. \A r \in pending' \cup tokens' \cup Running' : r \in All
    BY <1>5, <2>1, Zenon DEF Quiet
  <2>3. \/ lease' = NoLease
        \/ /\ lease'.origin \in drawn'
           /\ \A r \in pending' \cup tokens' \cup Running' : r.origin # lease'.origin
    <3>1. CASE lease' = lease
      BY <3>1, <1>5, <2>2, <1>a, Zenon DEF Quiet
    <3>2. CASE lease # NoLease /\ lease' = [lease EXCEPT !.active = TRUE, !.activated = now]
      <4>1. lease'.origin = lease.origin
        BY <3>2, Zenon DEF TypeOK, StreamLease
      <4> QED BY <3>2, <4>1, <1>5, <2>2, <1>a, Zenon DEF Quiet
    <3>3. ASSUME NEW r \in tokens, NewLease(lease', r), tokens' \subseteq tokens \ {r}
          PROVE /\ lease'.origin \in drawn'
                /\ \A q \in pending' \cup tokens' \cup Running' : q.origin # lease'.origin
      BY <3>3, <1>5, <2>1, <1>a DEF Quiet, NewLease
    <3> QED BY <3>1, <3>2, <3>3, LeaseStep, Zenon
  <2> QED BY <1>5, <2>1, <2>2, <2>3, <1>a, Zenon DEF Quiet, OriginInv, OneLoginOneCredential
<1> QED BY <1>1, <1>2, <1>3, <1>4, <1>5, TableStep, Zenon

\* A login is answered once and claimed once: its conversation, verification,
\* setup token and lease are never two things at the same time.
THEOREM SingleUse == Spec => []OneLoginOneCredential
<1>1. Init => OriginInv
  BY Zenon DEF Init, OriginInv, OneLoginOneCredential, Running
<1>2. OriginInv => OneLoginOneCredential
  BY Zenon DEF OriginInv
<1> QED BY <1>1, <1>2, OriginStep, TypeCorrect, PTL DEF Spec

-----------------------------------------------------------------------------
(***************************************************************************)
(* The stream lease.                                                       *)
(***************************************************************************)

\* activateStreamLease never succeeds after the activation deadline.
THEOREM ActivationDeadline == Spec => []ActivatedInTime
<1>1. Init => ActivatedInTime
  BY Zenon DEF Init, ActivatedInTime
<1>2. TypeOK /\ ActivatedInTime /\ [Next]_vars => ActivatedInTime'
  <2> SUFFICES ASSUME TypeOK, ActivatedInTime, [Next]_vars PROVE ActivatedInTime'
    BY Zenon
  <2>1. CASE lease' = lease \/ lease' = NoLease
    BY <2>1, Zenon DEF ActivatedInTime
  <2>2. CASE /\ lease # NoLease /\ ~LeaseLapsed(lease) /\ ~lease.active
             /\ lease' = [lease EXCEPT !.active = TRUE, !.activated = now]
    BY <2>2 DEF LeaseLapsed, ActivatedInTime, TypeOK, StreamLease
  <2>3. ASSUME NEW r \in tokens, NewLease(lease', r) PROVE ActivatedInTime'
    BY <2>3, Zenon DEF NewLease, ActivatedInTime
  <2> QED BY <2>1, <2>2, <2>3, LeaseStep, Zenon
<1> QED BY <1>1, <1>2, TypeCorrect, PTL DEF Spec

\* claimToken never displaces a stream that is still entitled to its desktop.
THEOREM ClaimsNeverTakeOver == Spec => NoTakeover
<1>1. TypeOK /\ [Next]_vars =>
        [lease # NoLease /\ ~LeaseLapsed(lease) /\ lease' # NoLease
           => lease'.id = lease.id]_vars
  <2> SUFFICES ASSUME TypeOK, [Next]_vars,
                      lease # NoLease, ~LeaseLapsed(lease), lease' # NoLease
               PROVE lease'.id = lease.id
    BY Zenon
  <2>1. PrunedLease # NoLease
    BY Zenon DEF PrunedLease
  <2>2. CASE lease' = [lease EXCEPT !.active = TRUE, !.activated = now]
    BY <2>2, Zenon DEF TypeOK, StreamLease
  <2> QED BY <2>1, <2>2, LeaseStep, Zenon
<1> QED BY <1>1, TypeCorrect, PTL DEF Spec, NoTakeover

\* An entitled stream ends only through its holder, its own token or revokeAll;
\* a stale pointer passed to endStreamLease ends nothing.
THEOREM StreamsEndForCause == Spec => LeaseEndsForCause
<1> DEFINE Cause == effect' \in {Ended(lease.id), Ended(lease.token)} \/ RevokeAll
<1>1. TypeOK /\ [Next]_vars =>
        [lease # NoLease /\ ~LeaseLapsed(lease) /\ lease' = NoLease => Cause]_vars
  <2> SUFFICES ASSUME TypeOK, [Next]_vars,
                      lease # NoLease, ~LeaseLapsed(lease), lease' = NoLease
               PROVE Cause
    BY Zenon
  <2>0. PrunedLease = lease
    BY Zenon DEF PrunedLease
  <2>1. ASSUME NEW id \in drawn, EndStreamLease(id) PROVE Cause
    <3>1. id = lease.id
      BY <2>1, Zenon DEF EndStreamLease, EndsLease, Current
    <3> QED BY <2>1, <3>1, Zenon DEF EndStreamLease
  <2>2. ASSUME NEW token \in drawn, RevokeToken(token) PROVE Cause
    <3>1. token = lease.token
      BY <2>2, Zenon DEF RevokeToken
    <3> QED BY <2>2, <3>1, Zenon DEF RevokeToken
  <2>3. ASSUME NEW token \in drawn, NEW peer \in Peers, ClaimToken(token, peer) PROVE FALSE
    BY <2>3, <2>0, Zenon DEF ClaimToken, LeaseFree, PruneOthers
  <2>4. ASSUME NEW id \in drawn, ActivateStreamLease(id) PROVE FALSE
    <3>1. CASE lease' = PrunedLease
      BY <3>1, <2>0, Zenon
    <3>2. CASE ~PrunedLease.active /\ lease' = [PrunedLease EXCEPT !.active = TRUE, !.activated = now]
      <4>1. [lease EXCEPT !.active = TRUE, !.activated = now] \in StreamLease
        BY Zenon DEF TypeOK, StreamLease
      <4> QED BY <3>2, <4>1, <2>0, NoLeaseAssumption, ZenonT(60)
    <3> QED BY <2>4, <3>1, <3>2, Zenon DEF ActivateStreamLease
  <2>5. ASSUME \/ \E peer \in Peers, user \in Accounts : StartForPeer(peer, user)
               \/ \E peer \in Peers, c \in drawn : RespondBegin(peer, c)
               \/ \E call \in calls, result \in VerifyResults : RespondVerify(call, result)
               \/ \E call \in calls : RespondRelease(call)
               \/ \E token \in drawn, peer \in Peers : AuthorizeToken(token, peer)
               \/ \E id \in drawn : PerformWithStreamLease(id)
               \/ \E t \in Scopes : GraphicalChange(t)
               \/ Tick
               \/ UNCHANGED vars
        PROVE FALSE
    BY <2>5, <2>0, Zenon DEF StartForPeer, RespondBegin, RespondVerify, RespondRelease,
       AuthorizeToken, PerformWithStreamLease, GraphicalChange, Tick, vars, PruneOthers
  <2> QED BY <2>1, <2>2, <2>3, <2>4, <2>5, Zenon DEF Next
<1> QED BY <1>1, TypeCorrect, PTL DEF Spec, LeaseEndsForCause

\* Whatever authorizeToken or performWithStreamLease lets through belongs to
\* the owner of the desktop at that moment.
THEOREM GrantsAreEntitled == Spec => []GrantsMatchDesktop
<1>1. Init => GrantsMatchDesktop
  BY DEF Init, GrantsMatchDesktop, NoEffect
<1>2. GrantsMatchDesktop /\ [Next]_vars => GrantsMatchDesktop'
  <2> SUFFICES ASSUME GrantsMatchDesktop, [Next]_vars PROVE GrantsMatchDesktop'
    BY Zenon
  <2>1. ASSUME NEW token \in drawn, NEW peer \in Peers, AuthorizeToken(token, peer)
        PROVE GrantsMatchDesktop'
    BY <2>1 DEF AuthorizeToken, MayUse, Granted, GrantsMatchDesktop, NoEffect
  <2>2. ASSUME NEW id \in drawn, PerformWithStreamLease(id) PROVE GrantsMatchDesktop'
    BY <2>2, PrunedLeaseCases, Zenon
       DEF PerformWithStreamLease, Usable, Current, LeaseLapsed, Granted, GrantsMatchDesktop,
           NoEffect
  <2>3. CASE effect'.kind # "grant" \/ UNCHANGED vars
    BY <2>3, ZenonT(60) DEF GrantsMatchDesktop, vars
  <2>4. ASSUME Next PROVE \/ \E token \in drawn, peer \in Peers : AuthorizeToken(token, peer)
                          \/ \E id \in drawn : PerformWithStreamLease(id)
                          \/ effect'.kind # "grant"
    BY <2>4 DEF Next, StartForPeer, RespondBegin, RespondVerify, RespondRelease, RevokeAll,
       RevokeToken, ClaimToken, ActivateStreamLease, EndStreamLease, GraphicalChange, Tick,
       NoEffect, Ended
  <2> QED BY <2>1, <2>2, <2>3, <2>4, ZenonT(60)
<1> QED BY <1>1, <1>2, PTL DEF Spec

-----------------------------------------------------------------------------
(***************************************************************************)
(* The setup tables and the verifier.                                      *)
(***************************************************************************)

\* A live setup token is lost only by its own use or revocation, or to a
\* verified login of the same account from the same peer.
THEOREM TokensSurviveOthers == Spec => TokensLeaveForCause
<1> DEFINE Cause(t) == \/ \E n \in tokens' \ tokens : n.peer = t.peer /\ n.account = t.account
                       \/ lease' # NoLease /\ lease'.token = t.id
                       \/ effect' = Ended(t.id)
                       \/ RevokeAll
<1>1. TypeOK /\ OriginInv /\ [Next]_vars =>
        [\A t \in tokens \ tokens' : Alive(t) => Cause(t)]_vars
  <2> SUFFICES ASSUME TypeOK, OriginInv, [Next]_vars, NEW t \in tokens, t \notin tokens', Alive(t)
               PROVE Cause(t)
    BY Zenon
  <2>0. t \in Pruned(tokens)
    BY Zenon DEF Pruned
  <2>1. ASSUME NEW token \in drawn, RevokeToken(token) PROVE Cause(t)
    <3>1. t.id = token
      BY <2>1, Zenon DEF RevokeToken
    <3> QED BY <2>1, <3>1, Zenon DEF RevokeToken
  <2>2. ASSUME NEW token \in drawn, NEW peer \in Peers, ClaimToken(token, peer) PROVE Cause(t)
    <3>1. CASE PruneOthers
      BY <3>1, <2>0, Zenon DEF PruneOthers
    <3>2. ASSUME NEW r \in Pruned(tokens), NEW credential \in Fresh,
                 tokens' = Claimed(Pruned(tokens), r),
                 lease' = [id |-> credential, token |-> r.id, origin |-> r.origin,
                          account |-> r.account, scope |-> r.scope, epoch |-> r.epoch,
                          activateBefore |-> now + ActivationWindow,
                          active |-> FALSE, activated |-> 0],
                 MayUse(r, token, peer)
          PROVE Cause(t)
      <4>1. r = t
        BY <3>2, <2>0, Zenon DEF Claimed
      <4>2. r \in AuthRecord /\ r.account \in Accounts
        BY <3>2, PrunedSubset, AttachIsAccount, ZenonT(60) DEF TypeOK, MayUse
      <4>3. lease' \in StreamLease
        BY <3>2, <4>2, SessionAssumption
           DEF StreamLease, AuthRecord, Fresh, TypeOK
      <4> QED BY <3>2, <4>1, <4>3, NoLeaseAssumption, Zenon
    <3> QED BY <2>2, <3>1, <3>2, Zenon DEF ClaimToken
  <2>3. ASSUME NEW call \in calls, NEW result \in VerifyResults, RespondVerify(call, result)
        PROVE Cause(t)
    <3> DEFINE r == call.record
    <3>1. /\ r \in AuthRecord /\ r \in Running
      BY <2>3, Zenon DEF TypeOK, Call, RespondVerify, Running
    <3>2. PICK token \in Fresh :
            tokens' = (Pruned(tokens) \ Superseded(Pruned(tokens), r)) \cup {Verified(r, token)}
      BY <2>3, <2>0, Zenon DEF RespondVerify
    <3>3. t.peer = r.peer /\ t.account = r.user
      BY <3>2, <2>0, Zenon DEF Superseded
    <3>4. /\ Verified(r, token).peer = r.peer /\ Verified(r, token).account = r.user
          /\ Verified(r, token).origin = r.origin
      BY <3>1, Zenon DEF Verified, AuthRecord
    <3>5. Verified(r, token) \notin tokens
      BY <3>1, <3>4, Zenon DEF OriginInv, OneLoginOneCredential
    <3> QED BY <3>2, <3>3, <3>4, <3>5, Zenon
  <2>4. ASSUME \/ \E peer \in Peers, user \in Accounts : StartForPeer(peer, user)
               \/ \E peer \in Peers, c \in drawn : RespondBegin(peer, c)
               \/ \E call \in calls : RespondRelease(call)
               \/ \E token \in drawn, peer \in Peers : AuthorizeToken(token, peer)
               \/ \E id \in drawn : ActivateStreamLease(id)
               \/ \E id \in drawn : PerformWithStreamLease(id)
               \/ \E id \in drawn : EndStreamLease(id)
               \/ \E s \in Scopes : GraphicalChange(s)
               \/ Tick
               \/ UNCHANGED vars
        PROVE FALSE
    BY <2>4, <2>0, Zenon DEF StartForPeer, RespondBegin, RespondRelease, AuthorizeToken,
       ActivateStreamLease, PerformWithStreamLease, EndStreamLease, GraphicalChange, Tick,
       vars, PruneOthers
  <2> QED BY <2>1, <2>2, <2>3, <2>4, Zenon DEF Next
<1>2. Init => OriginInv
  BY Zenon DEF Init, OriginInv, OneLoginOneCredential, Running
<1> QED BY <1>1, <1>2, OriginStep, TypeCorrect, PTL DEF Spec, TokensLeaveForCause

\* One account helper at a time, and _verifying says whether one runs.
THEOREM VerifierExclusive == Spec => []OneVerification
<1>1. Init => OneVerification
  BY Zenon DEF Init, OneVerification
<1>2. OneVerification /\ [Next]_vars => OneVerification'
  <2> SUFFICES ASSUME OneVerification, [Next]_vars PROVE OneVerification'
    BY Zenon
  <2>1. ASSUME NEW peer \in Peers, NEW c \in drawn, RespondBegin(peer, c)
        PROVE OneVerification'
    <3>1. CASE UNCHANGED <<calls, verifying>>
      BY <3>1, Zenon DEF OneVerification
    <3>2. ASSUME NEW d, ~verifying, verifying' = TRUE, calls' = calls \cup {d}
          PROVE OneVerification'
      <4>1. calls = {}
        BY <3>2, Zenon DEF OneVerification
      <4>2. calls' = {d}
        BY <3>2, <4>1, Zenon
      <4> QED BY <3>2, <4>2, Zenon DEF OneVerification
    <3> QED BY <2>1, <3>1, <3>2, Zenon DEF RespondBegin, VerifierFree
  <2>2. ASSUME NEW call \in calls, NEW result \in VerifyResults, RespondVerify(call, result)
        PROVE OneVerification'
    <3>1. calls = {call}
      BY Zenon DEF OneVerification
    <3>2. calls' = {[call EXCEPT !.stage = "release"]} /\ verifying' = verifying
      BY <2>2, <3>1, Zenon DEF RespondVerify
    <3> QED BY <3>1, <3>2, Zenon DEF OneVerification
  <2>3. ASSUME NEW call \in calls, RespondRelease(call) PROVE OneVerification'
    BY <2>3, Zenon DEF RespondRelease, ReleasedVerifier, OneVerification
  <2>4. CASE UNCHANGED <<calls, verifying>>
    BY <2>4, Zenon DEF OneVerification
  <2>5. ASSUME Next
        PROVE \/ \E peer \in Peers, c \in drawn : RespondBegin(peer, c)
              \/ \E call \in calls, result \in VerifyResults : RespondVerify(call, result)
              \/ \E call \in calls : RespondRelease(call)
              \/ UNCHANGED <<calls, verifying>>
    BY <2>5, Zenon
       DEF Next, StartForPeer, AuthorizeToken, RevokeAll, RevokeToken, ClaimToken,
       ActivateStreamLease, PerformWithStreamLease, EndStreamLease, GraphicalChange, Tick
  <2> QED BY <2>1, <2>2, <2>3, <2>4, <2>5, Zenon DEF vars
<1> QED BY <1>1, <1>2, PTL DEF Spec


\* Neither table outgrows its bound; the count that respondForPeer takes after
\* the prune leaves exactly the room for the token it adds.
TablesFinite ==
  /\ TablesBounded
  /\ IsFiniteSet(pending) /\ IsFiniteSet(tokens)

LEMMA SmallerTable ==
  ASSUME NEW S, NEW T, NEW n \in Nat, IsFiniteSet(S), Cardinality(S) <= n, T \subseteq S
  PROVE  IsFiniteSet(T) /\ Cardinality(T) \in Nat /\ Cardinality(T) <= n
<1>1. IsFiniteSet(T) /\ Cardinality(T) <= Cardinality(S)
  BY FS_Subset, Zenon
<1>2. Cardinality(T) \in Nat /\ Cardinality(S) \in Nat
  BY <1>1, FS_CardinalityType, Zenon
<1> QED BY <1>1, <1>2

LEMMA TablesStep == TypeOK /\ TablesFinite /\ [Next]_vars => TablesFinite'
<1> SUFFICES ASSUME TypeOK, TablesFinite, [Next]_vars PROVE TablesFinite'
  BY Zenon
<1> USE SessionAssumption, PrunedSubset
<1> DEFINE Ok(S, n) == IsFiniteSet(S) /\ Cardinality(S) <= n
<1>a. Ok(pending, MaximumPendingChallenges) /\ Ok(tokens, MaximumSetupTokens)
  BY Zenon DEF TablesFinite, TablesBounded
<1>b. \A T \in SUBSET pending : Ok(T, MaximumPendingChallenges) /\ Cardinality(T) \in Nat
  BY <1>a, SmallerTable, Zenon
<1>c. \A T \in SUBSET tokens : Ok(T, MaximumSetupTokens) /\ Cardinality(T) \in Nat
  BY <1>a, SmallerTable, Zenon
<1>d. (Ok(pending, MaximumPendingChallenges) /\ Ok(tokens, MaximumSetupTokens))'
        => TablesFinite'
  BY Zenon DEF TablesFinite, TablesBounded
<1>1. ASSUME NEW peer \in Peers, NEW user \in Accounts, StartForPeer(peer, user)
      PROVE TablesFinite'
  <2>1. tokens' \subseteq tokens
    BY <1>1, Zenon DEF StartForPeer, PruneOthers
  <2>2. CASE pending' \subseteq pending
    BY <2>1, <2>2, <1>b, <1>c, <1>d, Zenon
  <2>3. ASSUME NEW n, pending' = Pruned(pending) \cup {n}, PendingRoom(Pruned(pending))
        PROVE TablesFinite'
    <3>1. IsFiniteSet(pending') /\ Cardinality(pending') <= Cardinality(Pruned(pending)) + 1
      BY <2>3, <1>b, FS_AddElement
    <3>2. Cardinality(pending') \in Nat
      BY <3>1, FS_CardinalityType, Zenon
    <3>3. Ok(pending, MaximumPendingChallenges)'
      BY <2>3, <3>1, <3>2, <1>b DEF PendingRoom
    <3> QED BY <2>1, <3>3, <1>c, <1>d, Zenon
  <2> QED BY <1>1, <2>2, <2>3, Zenon DEF StartForPeer
<1>2. ASSUME NEW peer \in Peers, NEW c \in drawn, RespondBegin(peer, c) PROVE TablesFinite'
  <2>1. pending' \subseteq pending /\ tokens' \subseteq tokens
    BY <1>2, Zenon DEF RespondBegin, PruneOthers, Consumed
  <2> QED BY <2>1, <1>b, <1>c, <1>d, Zenon
<1>3. ASSUME NEW call \in calls, NEW result \in VerifyResults, RespondVerify(call, result)
      PROVE TablesFinite'
  <2> DEFINE kept == Pruned(tokens)
             gone == Superseded(kept, call.record)
  <2>1. pending' \subseteq pending
    BY <1>3, Zenon DEF RespondVerify
  <2>2. CASE tokens' \subseteq tokens
    BY <2>1, <2>2, <1>b, <1>c, <1>d, Zenon
  <2>3. ASSUME NEW n, tokens' = (kept \ gone) \cup {n}, TokenRoom(kept, call.record)
        PROVE TablesFinite'
    <3>1. gone \subseteq tokens /\ kept \cap gone = gone /\ kept \ gone \subseteq tokens
      BY Zenon DEF Superseded
    <3>2. Cardinality(kept \ gone) = Cardinality(kept) - Cardinality(gone)
      BY <3>1, <1>c, FS_Difference, Zenon
    <3>3. IsFiniteSet(tokens') /\ Cardinality(tokens') <= Cardinality(kept \ gone) + 1
      <4>1. IsFiniteSet(kept \ gone) /\ Cardinality(kept \ gone) \in Nat
        BY <3>1, <1>c, Zenon
      <4>2. /\ IsFiniteSet((kept \ gone) \cup {n})
            /\ Cardinality((kept \ gone) \cup {n}) =
                 IF n \in kept \ gone THEN Cardinality(kept \ gone)
                                      ELSE Cardinality(kept \ gone) + 1
        BY <4>1, FS_AddElement, Zenon
      <4> QED BY <2>3, <4>1, <4>2
    <3>4. Cardinality(tokens') \in Nat
      BY <3>3, FS_CardinalityType, Zenon
    <3>5. Ok(tokens, MaximumSetupTokens)'
      BY <2>3, <3>1, <3>2, <3>3, <3>4, <1>c DEF TokenRoom
    <3> QED BY <2>1, <3>5, <1>b, <1>d, Zenon
  <2> QED BY <1>3, <2>2, <2>3, Zenon DEF RespondVerify
<1>4. ASSUME RevokeAll PROVE TablesFinite'
  BY <1>4, <1>b, <1>c, <1>d, Zenon DEF RevokeAll
<1>5. ASSUME Quiet PROVE TablesFinite'
  BY <1>5, <1>b, <1>c, <1>d, Zenon DEF Quiet
<1> QED BY <1>1, <1>2, <1>3, <1>4, <1>5, TableStep, Zenon

\* Pending conversations and setup tokens stay within their maxima.
THEOREM TablesStayBounded == Spec => []TablesBounded
<1>1. Init => TablesFinite
  BY SessionAssumption, FS_EmptySet DEF Init, TablesFinite, TablesBounded
<1>2. TablesFinite => TablesBounded
  BY Zenon DEF TablesFinite
<1> QED BY <1>1, <1>2, TablesStep, TypeCorrect, PTL DEF Spec

==============================================================================
