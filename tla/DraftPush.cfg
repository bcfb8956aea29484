CONSTANTS
  a1 = a1
  a2 = a2
  d1 = d1
  Accounts = {a1}
  Drafts = {d1}
  Foreign = {}
  MaxSaves = 2
  MaxFaults = 1
SPECIFICATION FairSpec
CHECK_DEADLOCK FALSE
INVARIANTS CleanIsPublished NeverAHole OneName DroppedIsGone
PROPERTIES DirtyIsPushed
