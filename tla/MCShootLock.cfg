\* One request is enough.
CONSTANTS
  u1 = u1
  r1 = r1
  r2 = r2
  r3 = r3
  x1 = x1
  x2 = x2
  None = None
  Users = {u1}
  Requests = {r1}
  Resumes = {x1}
  FreeLimit = 1
  MaxMonth = 2
  UserOf <- MCUserOf
  ResumeOf <- MCResumeOf
SPECIFICATION Spec
INVARIANTS
  NoLockAcrossAi
CHECK_DEADLOCK FALSE
