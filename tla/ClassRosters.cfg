\* Two removals or additions on the pages of two classes.
SPECIFICATION Spec
CONSTANTS
  s1 = s1
  s2 = s2
  Students = {s1, s2}
  A = A
  B = B
  Classes = {A, B}
  FirstClass = A
  Matching = {s1}
  MaxCalls = 2
  Scenarios <- Each
INVARIANTS TypeOK RestShowsOwnChanges
PROPERTIES OnlyChosenLeave
\* The user may leave it at that.
CHECK_DEADLOCK FALSE
