CONSTANTS
  e1 = e1
  e2 = e2
  w1 = w1
  w2 = w2
  Endpoints = {e1, e2}
  Loop = w1
  Soon = {}
  Ladder = 2
  Batch = 1
  Keep = 2
  MaxRows = 2
  MaxReplays = 0
  MaxEdits = 1
  MaxFaults = 0
SPECIFICATION FairSpec
CHECK_DEADLOCK FALSE
PROPERTIES FreshIsSent
