SPECIFICATION MCFairSpec
CONSTANTS
  Requests = {1, 2, 3, 4}
  LoggedIn = {1}
  None = None
  MaximumRequests = 2
INVARIANTS
  UndeliveredIsRevoked
  LeaseOwned
PROPERTIES
  NeverReplacedAlive
  StopCompletes
  LaneComesFree
  StreamFollowsLease
CHECK_DEADLOCK FALSE
