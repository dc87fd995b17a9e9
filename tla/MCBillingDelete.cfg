\* One handler: a checkout, then the deletion of the organization.
CONSTANTS
  r1 = r1
  r2 = r2
  c1 = c1
  c2 = c2
  None = None
  Requests = {r1}
  Codes = {c1}
  PlanOf <- MCPlanOf
  NamedPlan <- MCNamedPlan
  Metadata = {TRUE}
  MaxEvents = 2
SPECIFICATION Spec
INVARIANTS
  DeletionCascades
CHECK_DEADLOCK FALSE
