CONSTANTS
  inbox = inbox
  archive = archive
  Folders = {inbox, archive}
  Special = {archive}
  MaxMail = 2
  MaxAsks = 2
  MaxFaults = 0
SPECIFICATION Spec
CHECK_DEADLOCK FALSE
PROPERTIES MovesAreAsked
