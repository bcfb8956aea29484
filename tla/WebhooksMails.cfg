CONSTANTS
  e1 = e1
  e2 = e2
  w1 = w1
  w2 = w2
  Endpoints = {e1}
  Loop = w1
  Soon = {w2}
  Ladder = 2
  Batch = 2
  Keep = 2
  MaxRows = 2
  MaxReplays = 0
  MaxEdits = 0
  MaxFaults = 0
SPECIFICATION Spec
CHECK_DEADLOCK FALSE
INVARIANTS OneMailADay
