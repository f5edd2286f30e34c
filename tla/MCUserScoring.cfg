SPECIFICATION Spec
CONSTANTS
  Worker = {w1, w2}
  User = {"u", "v"}
  None = None
  Context <- Contexts
  Key <- Keys
  KeyOf <- KeyOfContext
  RiskOf <- Risks
  MaxCached = 1
  MaxAttempts = 2
  MaxCalls = 2
  Limit = 1
  MaxEvents = 2
  MaxAlerts = 2
  MaxSteps = 7
CONSTRAINT Small
SYMMETRY Workers
INVARIANTS
  AlertsCited
  ExplanationFits
  CountsAddUp
