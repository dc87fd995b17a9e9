\* Two tabs of a browser, three requests at a time, three pairs of tokens.
CONSTANTS
  None = None
  Tabs = {1, 2}
  Plans <- MCPlans
  MaxPairs = 3
SPECIFICATION Spec
INVARIANTS
  TypeOK
  SignedOutStays
PROPERTIES
  StaysSignedIn
  HeldSettle
  EndsAtLogin
CHECK_DEADLOCK FALSE
