\* One stored resume, two that may be created, two visits to the editor.
CONSTANTS
  None = None
  Docs = {1, 2}
  Existing = {1}
  Edits <- MCEdits
  Plans <- MCPlans
  MaxReqs = 2
  Followed <- MCFollowed
SPECIFICATION Spec
INVARIANTS
  TypeOK
  SavedMeansStored
  NothingDropped
PROPERTIES
  EditsSettle
CHECK_DEADLOCK FALSE
