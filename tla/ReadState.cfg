SPECIFICATION Spec
CONSTANTS
  a = a
  b = b
  Mails = {a, b}
  MaxPresses = 2
  MaxEvents = 2
  MaxWire = 1
SYMMETRY Symmetry
INVARIANTS OverridesAreShown LastPressWins AtRestShowsStored
CHECK_DEADLOCK FALSE
