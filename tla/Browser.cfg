\* Two calls of the demo backend at a time, in five plans; or the session of two users of a tab.
SPECIFICATION BrowserSpec
CONSTANTS
  c1 = c1
  c2 = c2
  Slots = {c1, c2}
  StudentCount = 2
  TemplateCount = 1
  Classes = {1, 2}
  Users = {1, 2, 3}
  Templates = {1}
  Variants = {1, 2}
  Groups = {1, 2}
  ArchiveAfter = 0
  MaxTime = 1
  Scenarios <- Plans
  ann = ann
  tom = tom
  Accounts = {ann, tom}
  NoUser = NoUser
  RoleOf <- TeacherAndStudent
  Typed <- SomeLocations
  MaxLogins = 2
  MaxMoves = 2
INVARIANTS TypeOK Consistent ViewsAgree SessionTypeOK RestShowsTokenUser
PROPERTIES OwnChangesUnlessOverlap Lands ComesToRest
\* The users may leave it at that.
CHECK_DEADLOCK FALSE
