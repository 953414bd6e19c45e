SPECIFICATION Spec
CONSTANTS
  Commits = 2
  MaxChanges = 2
INVARIANTS AuthorizedWasSeen NothingSeenIsPromotedAway
CHECK_DEADLOCK FALSE
