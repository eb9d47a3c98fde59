\* A removal while a search filters the list.
SPECIFICATION Spec
CONSTANTS
  s1 = s1
  s2 = s2
  Students = {s1, s2}
  A = A
  B = B
  Classes = {A, B}
  FirstClass = A
  Matching = {s1}
  MaxCalls = 2
  Scenarios <- OnlySearching
PROPERTIES RemovesOnlyTheChosen
\* The user may leave it at that.
CHECK_DEADLOCK FALSE
