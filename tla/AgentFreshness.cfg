SPECIFICATION FairSpec
CONSTANTS
  Agents = {a1}
  NoAgent = NoAgent
  Freshness = 2
  HealthInterval = 1
  MaximumLinks = 1
  RegisterTimeout = 1
  MaxRestarts = 1
  MaxNow = 6
INVARIANTS
  StaleAdmissionEnds
PROPERTIES
  AdmissionNeverReturns
  SlotComesFree
