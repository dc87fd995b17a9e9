\* Two handlers, a checkout for PRO, one for a plan the code cannot map, three events.
CONSTANTS
  r1 = r1
  r2 = r2
  c1 = c1
  c2 = c2
  None = None
  Requests = {r1, r2}
  Codes = {c1, c2}
  PlanOf <- MCPlanOf
  NamedPlan <- MCNamedPlan
  Metadata = {TRUE, FALSE}
  MaxEvents = 3
SPECIFICATION Spec
SYMMETRY RequestSymmetry
INVARIANTS
  TypeOK
  CheckoutSettles
  InOrderAgrees
  NoStandstill
PROPERTIES
  PlanMovesWithPaystack
CHECK_DEADLOCK FALSE
