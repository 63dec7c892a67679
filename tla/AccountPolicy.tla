---------------------------- MODULE AccountPolicy ----------------------------
(***************************************************************************)
(* The admission rules of apps/host/macos/auth/account-policy.h: which     *)
(* verified account may attach to which graphical scope.  An account       *)
(* identity is a uid and a membership uuid; the rules only test that it is *)
(* not the zero/root identity and compare two of them, so a valid identity *)
(* is an element of Accounts and the zero identity is NoAccount.           *)
(***************************************************************************)
EXTENDS Naturals

CONSTANTS
  Accounts,   \* identities with a nonzero uid and uuid
  NoAccount   \* the zeroed PLANKMacAccountIdentity

ASSUME NoAccountAssumption == NoAccount \notin Accounts

Phases == {"Unavailable", "SignIn", "Desktop"}

GraphicalIdentity ==
  [active: BOOLEAN, generation: Nat, account: Accounts \cup {NoAccount}, phase: Phases]

\* The zeroed structure that a revoked or absent session owner reports.
NoScope ==
  [active |-> FALSE, generation |-> 0, account |-> NoAccount, phase |-> "Unavailable"]

AccountIdentityValid(account) == account \in Accounts

GraphicalIdentityValid(scope) ==
  /\ scope.active
  /\ scope.generation # 0
  /\ \/ scope.phase = "Desktop" /\ AccountIdentityValid(scope.account)
     \/ scope.phase = "SignIn" /\ scope.account = NoAccount

SameGraphicalScope(before, after) ==
  /\ GraphicalIdentityValid(before)
  /\ GraphicalIdentityValid(after)
  /\ before.generation = after.generation
  /\ before.phase = after.phase
  /\ before.account = after.account

\* The account a verification yielded may use the scope `after', given that
\* its conversation was opened under the scope `before'.
AccountMayAttach(verified, before, after) ==
  /\ AccountIdentityValid(verified)
  /\ SameGraphicalScope(before, after)
  /\ \/ after.phase = "SignIn"
     \/ verified = after.account
==============================================================================
