SPECIFICATION Spec
CONSTANTS
  old = old
  new = new
  other = other
  absent = absent
  Absent = absent
  notTaken = notTaken
  NotTaken = notTaken
  N = 2
  Versions <- MCVersions
  Before <- MCBefore
  After <- MCAfter
  Shared = {1, 2}
CHECK_DEADLOCK FALSE
INVARIANTS
  NothingLost
  NoTemporaryLeft
PROPERTY
  Implements
