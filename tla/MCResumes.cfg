\* Three concurrent requests on two resumes and a fresh one.
CONSTANTS
  r1 = r1
  r2 = r2
  r3 = r3
  a = a
  b = b
  c = c
  d = d
  None = None
  Requests = {r1, r2, r3}
  Resumes = {a, b, c}
  Existing = {a, b}
  Payloads <- MCPayloads
  Empties <- MCEmpties
SPECIFICATION Spec
SYMMETRY RequestSymmetry
INVARIANTS
  TypeOK
  AtMostOneMaster
  SectionsBelong
  NoStandstill
PROPERTIES
  MasterSurvivesSwaps
  RegisterSpec
  UndisturbedPutReplaces
CHECK_DEADLOCK FALSE
