CONSTANTS
  m1 = m1
  m2 = m2
  Msgs = {m1, m2}
  MaxSends = 2
  MaxAsks = 2
  MaxFaults = 1
SPECIFICATION FairSpec
CHECK_DEADLOCK FALSE
INVARIANTS TypeOK AtMostOncePerAsk NoSilentLoss
PROPERTIES ImplementsSendOnce DueIsHandled SendingSettles
