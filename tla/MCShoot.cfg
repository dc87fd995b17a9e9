\* One user, three concurrent requests, a FREE limit of one, two months, under
\* fairness.
CONSTANTS
  u1 = u1
  r1 = r1
  r2 = r2
  r3 = r3
  x1 = x1
  x2 = x2
  None = None
  Users = {u1}
  Requests = {r1, r2, r3}
  Resumes = {x1}
  FreeLimit = 1
  MaxMonth = 2
  UserOf <- MCUserOf
  ResumeOf <- MCResumeOf
SPECIFICATION FairSpec
INVARIANTS
  TypeOK
  ChargeMatchesArtefact
  FreeTierCap
  RemainingIsHonest
  AnswerMatchesLedger
  LockOrder
  SourceResumeExists
PROPERTIES
  LedgerSpec
  RequestsEnd
CHECK_DEADLOCK FALSE
