\* Three students submit, two requests at a time, no failures.
SPECIFICATION FairSpec
CONSTANTS
  AssignmentIds = {1, 2, 3}
  Roster = {1, 2, 3}
  Requests = {r1, r2}
  Answers = {a1}
  NoDraft = NoDraft
  Operations = {"Submit"}
  MaxAttempts = 1
  MaxSubmits = 6
  MaxTime = 1
  Start = 0
  Deadline = 0
  MaxIncidents = 0
  MaxReopens = 0
  MayFail = FALSE
INVARIANTS CompletedMeansAllSubmitted SubmitsBoundedByOverlap
PROPERTIES LastSubmitterCloses
\* The system rests once the window is closed and every request has returned.
CHECK_DEADLOCK FALSE
