\* Edits, archiving and listings of one group overlap, across the deadline; or GNS3 sessions of two users.
SPECIFICATION PartsSpec
CONSTANTS
  AssignmentIds = {1, 2}
  Requests = {}
  Answers = {a1}
  NoDraft = NoDraft
  Operations = {}
  MaxAttempts = 1
  MaxSubmits = 0
  MaxTime = 1
  MaxIncidents = 0
  MaxReopens = 0
  MayFail = FALSE
  Students = {s1}
  NoStudent = NoStudent
  Jobs = {j1, j2}
  JobKinds = {"create", "edit", "archive", "unarchive", "list", "details", "delete"}
  Windows <- OpenWindows
  Rosters <- WholeClass
  ArchiveAfter = 0
  JobsMayFail = TRUE
  \* The group of GroupApi is created by a job, not by the initial state.
  Roster = {}
  Start = 0
  Deadline = 0
  ann = ann
  c1 = c1
  Hosted = {ann, tom}
  Callers = {c1, c2}
  Cleaner = cleaner
  InstancePorts = {1, 2}
  Duration = 1
  Extension = 1
  MaxSessions = 2
  MaxClock = 2
  MaxExtensions = 1
  MaxFaults = 1
  Retries = 1
INVARIANTS Gns3TypeOK AgreeUnlessOverlap OwnInstance
PROPERTIES WindowUnlessStale ExpiredEnd
\* The system rests when every handler has returned.
CHECK_DEADLOCK FALSE
