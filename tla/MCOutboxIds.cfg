CONSTANTS
  m1 = m1
  m2 = m2
  Msgs = {m1, m2}
  MaxSends = 2
  MaxAsks = 2
  MaxFaults = 0
SPECIFICATION SpecIds
CHECK_DEADLOCK FALSE
INVARIANTS SentWasDelivered
