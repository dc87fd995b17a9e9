\* One handler and one checkout: a webhook delivered late or twice is enough.
CONSTANTS
  r1 = r1
  r2 = r2
  c1 = c1
  c2 = c2
  None = None
  Requests = {r1}
  Codes = {c1}
  PlanOf <- MCPlanOf
  NamedPlan <- MCNamedPlan
  Metadata = {TRUE}
  MaxEvents = 3
SPECIFICATION Spec
INVARIANTS
  CanceledIsFree
CHECK_DEADLOCK FALSE
