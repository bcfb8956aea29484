SPECIFICATION Spec
CONSTANTS
  MaxMail = 2
  MaxPasses = 1
  MaxLoss = 1
  MaxAsk = 2
  Backlog = 1
  Messages = {1, 2}
  MaxOpens = 3
  MaxTurns = 2
  Pages = {1, 2, 3}
  MaxCanvases = 1
  MaxPreviews = 2
  MaxScrolls = 5
  MaxForms = 2
  MaxEdits = 1
  MaxFiles = 1
  MaxSaves = 2
  MaxSends = 1
  MaxFaults = 1
  Rows = {r1, r2}
  Swipes = {"left"}
  DoubleTap = TRUE
  MaxPresses = 3
  MaxRenders = 1
  Direct = {d1, d2}
  Sequenced = {s1}
  KeySet = {"a", "b", "C"}
  Shifted = {"C"}
  MaxHands = 4
  Threads = 4
  Start = 4
  MaxArrivals = 1
  Limit = 2
  MaxDeeds = 3
  Tabs = {t1, t2}
  MaxEndpoints = 2
  MaxPushes = 1
  MaxClicks = 3
  MaxFailures = 1
  Addresses = {a1, a2, a3}
  Linked = {a1, a2}
  MaxWords = 2
  MaxChoices = 3
INVARIANTS
  TypeOK ListIsNotCovered WaitIsExplained PreviewIsTrue TextIsAsChosen
  SentLeavesNoDraft NoPressTwice EveryBindingIsReached PagesAreExact MovesTheSelected SignedOutIsSilent
PROPERTIES
  ListNeverGoesBack StatusArrives
CHECK_DEADLOCK FALSE
