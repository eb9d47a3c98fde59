\* Every endpoint on one assignment, two requests at a time, across the deadline.
SPECIFICATION Spec
CONSTANTS
  AssignmentIds = {1}
  Roster = {1}
  Requests = {r1, r2}
  Answers = {a1}
  NoDraft = NoDraft
  Operations = {"CreateOrGet", "GetCurrent", "SaveDraft", "Lock", "Reopen", "ReopenStudent", "Submit"}
  MaxAttempts = 3
  MaxSubmits = 3
  MaxTime = 1
  Start = 0
  Deadline = 0
  MaxIncidents = 1
  MaxReopens = 1
  MayFail = FALSE
SYMMETRY Symmetry
INVARIANTS TypeOK SubmittedMeansRow ReviveIsStale AttemptsBoundedByOverlap
PROPERTIES LifecycleUnlessStale
\* The system rests once the window is closed and every request has returned.
CHECK_DEADLOCK FALSE
