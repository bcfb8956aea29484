CONSTANTS
  Window = 1
  MaxMail = 2
  MaxEdits = 1
  MaxToggles = 1
  MaxFaults = 1
SPECIFICATION FairSpec
CHECK_DEADLOCK FALSE
INVARIANTS RowsAreTheirs IntentSurvives
PROPERTY MirrorSettles
