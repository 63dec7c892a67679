SPECIFICATION MCFairSpec
CONSTANTS
  alice = alice
  bob = bob
  NoAccount = NoAccount
  NoLease = NoLease
  Scopes <- MCScopes
  Accounts = {alice, bob}
  p1 = p1
  Peers = {p1, p2}
  Secrets = {1, 2, 3, 4, 5, 6}
  MaximumPendingChallenges = 2
  MaximumSetupTokens = 1
  PendingLifetime = 1
  TokenLifetime = 1
  ActivationWindow = 1
  MaxNow = 1
  MaxRevocations = 1
INVARIANTS
  ActivatedInTime
  RevocationIsFinal
  OneLoginOneCredential
  GrantsMatchDesktop
PROPERTIES
  TokensLeaveForCause
  NoTakeover
  LeaseEndsForCause
  VerifierComesFree
