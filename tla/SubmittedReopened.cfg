\* A lock, a reopen and a submit of one attempt, two requests at a time.
SPECIFICATION Spec
CONSTANTS
  AssignmentIds = {1}
  Roster = {1}
  Requests = {r1, r2}
  Answers = {a1}
  NoDraft = NoDraft
  Operations = {"CreateOrGet", "Lock", "Reopen", "Submit"}
  MaxAttempts = 1
  MaxSubmits = 1
  MaxTime = 0
  Start = 0
  Deadline = 0
  MaxIncidents = 1
  MaxReopens = 1
  MayFail = FALSE
PROPERTIES SubmittedNotReopened
\* The system rests once the window is closed and every request has returned.
CHECK_DEADLOCK FALSE
