CONSTANTS
  a1 = a1
  a2 = a2
  d1 = d1
  Accounts = {a1, a2}
  Drafts = {d1}
  Foreign = {a2}
  MaxSaves = 2
  MaxFaults = 0
SPECIFICATION Spec
CHECK_DEADLOCK FALSE
INVARIANT OthersAreSafe
