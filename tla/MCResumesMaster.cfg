\* Two requests that set a master at once.
CONSTANTS
  r1 = r1
  r2 = r2
  r3 = r3
  a = a
  b = b
  c = c
  d = d
  None = None
  Requests = {r1, r2}
  Resumes = {a, b, c}
  Existing = {a, b}
  Payloads <- MCPayloads
  Empties <- MCEmpties
SPECIFICATION Spec
SYMMETRY RequestSymmetry
INVARIANTS
  NoMasterErrorPath
CHECK_DEADLOCK FALSE
