\* Every endpoint, one request at a time, crashes included.
SPECIFICATION Spec
CONSTANTS
  AssignmentIds = {1}
  Roster = {1}
  Requests = {r1}
  Answers = {a1, a2}
  NoDraft = NoDraft
  Operations = {"CreateOrGet", "GetCurrent", "SaveDraft", "Lock", "Submit", "Reopen", "ReopenStudent"}
  MaxAttempts = 2
  MaxSubmits = 2
  MaxTime = 2
  Start = 1
  Deadline = 1
  MaxIncidents = 2
  MaxReopens = 2
  MayFail = TRUE
PROPERTIES Lifecycle
\* The system rests once the window is closed and every request has returned.
CHECK_DEADLOCK FALSE
