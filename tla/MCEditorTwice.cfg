\* The editor of a new resume: none exists at the start.
CONSTANTS
  None = None
  Docs = {1, 2}
  Existing = {}
  Edits <- MCEdits
  Plans <- MCPlans
  MaxReqs = 2
  Followed = {}
SPECIFICATION Spec
INVARIANTS
  OneResumePerEditor
CHECK_DEADLOCK FALSE
