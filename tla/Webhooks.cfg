CONSTANTS
  e1 = e1
  e2 = e2
  w1 = w1
  w2 = w2
  Endpoints = {e1, e2}
  Loop = w1
  Soon = {w2}
  Ladder = 2
  Batch = 1
  Keep = 1
  MaxRows = 2
  MaxReplays = 1
  MaxEdits = 1
  MaxFaults = 1
SPECIFICATION MCSpec
CHECK_DEADLOCK FALSE
INVARIANTS GivenUpIsOff LadderIsClimbed OneMailPerDrain
PROPERTIES DueIsAttempted
