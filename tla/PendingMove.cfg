CONSTANTS
  inbox = inbox
  archive = archive
  Folders = {inbox, archive}
  Special = {archive}
  MaxMail = 2
  MaxAsks = 2
  MaxFaults = 1
SPECIFICATION FairSpec
CHECK_DEADLOCK FALSE
INVARIANTS TypeOK RowsAreTheirs PendingIsOwed
PROPERTIES UndoIsFinal OneMoveIsSafe Settles
