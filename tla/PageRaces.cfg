\* One attempt and its page, in several scenarios.
SPECIFICATION FairSpec
CONSTANTS
  blank = blank
  typed = typed
  Contents = {blank, typed}
  Blank = blank
  NoDraft = NoDraft
  Scenarios <- Each
INVARIANTS TypeOK QuietPageKnows SettledDraftSaved OptimismEnds
PROPERTIES LeavesLocked ReopenedReachesPage
\* The system rests when the page is closed or nothing is under way.
CHECK_DEADLOCK FALSE
