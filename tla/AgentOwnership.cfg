SPECIFICATION Spec
CONSTANTS
  Agents = {a1, a2}
  NoAgent = NoAgent
  Freshness = 2
  HealthInterval = 1
  MaximumLinks = 2
  RegisterTimeout = 1
  MaxRestarts = 1
  MaxNow = 1
SYMMETRY AgentSymmetry
INVARIANTS
  SlotOutlivesProcess
  ExclusiveAdmission
