\* Roster edits, deletes and listings overlap each other and the submits of two students.
SPECIFICATION GroupSpec
CONSTANTS
  AssignmentIds = {1, 2}
  Requests = {r1}
  Answers = {a1}
  NoDraft = NoDraft
  Operations = {"CreateOrGet", "Submit"}
  MaxAttempts = 1
  MaxSubmits = 2
  MaxTime = 0
  MaxIncidents = 0
  MaxReopens = 0
  MayFail = FALSE
  Students = {s1, s2}
  NoStudent = NoStudent
  Jobs = {j1, j2}
  JobKinds = {"create", "edit", "list", "delete"}
  Windows <- OpenWindows
  Rosters <- OneOrBoth
  ArchiveAfter = 0
  JobsMayFail = TRUE
  \* The group of GroupApi is created by a job, not by the initial state.
  Roster = {}
  Start = 0
  Deadline = 0
SYMMETRY Symmetry
INVARIANTS GroupTypeOK SubmitsMatchAttempts
PROPERTIES RosterUnlessStale EarlyEndUnlessStale
\* The system rests when every handler has returned.
CHECK_DEADLOCK FALSE
