\* Two organizations, one job, two clicks; three pairs of tokens.
CONSTANTS
  None = None
  Orgs = {1, 2}
  Jobs = {j}
  Plans <- MCPlans
  MaxPairs = 3
  MaxClicks = 2
  MaxCalls = 2
SPECIFICATION Spec
INVARIANTS
  TypeOK
  SignedOutStays
  SignedInMeansTokens
  ShotOnce
  OrgShown
PROPERTIES
  UisSettle
CHECK_DEADLOCK FALSE
