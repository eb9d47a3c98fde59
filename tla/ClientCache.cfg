\* One query at a time, with a write of the same user and a later edit.
SPECIFICATION FairSpec
CONSTANTS
  MaxFails = 1
  Scenarios <- Each
INVARIANTS TypeOK OwnWriteShown
PROPERTIES OwnWriteKept PolledShown
\* The user may rest on a page that polls nothing.
CHECK_DEADLOCK FALSE
