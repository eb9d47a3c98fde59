\* Two students submit while their handlers may die, and a teacher lists the groups, archives this one and brings it back.
SPECIFICATION FairGroupSpec
CONSTANTS
  AssignmentIds = {1, 2}
  Requests = {r1, r2}
  Answers = {a1}
  NoDraft = NoDraft
  Operations = {"Submit"}
  MaxAttempts = 1
  MaxSubmits = 2
  MaxTime = 1
  MaxIncidents = 0
  MaxReopens = 0
  MayFail = TRUE
  Students = {s1, s2}
  NoStudent = NoStudent
  Jobs = {j1}
  JobKinds = {"create", "list", "details", "archive", "unarchive"}
  Windows <- OpenWindows
  Rosters <- WholeClass
  ArchiveAfter = 0
  JobsMayFail = FALSE
  \* The group of GroupApi is created by a job, not by the initial state.
  Roster = {}
  Start = 0
  Deadline = 0
PROPERTIES ListingRepairs
\* The system rests when every handler has returned.
CHECK_DEADLOCK FALSE
