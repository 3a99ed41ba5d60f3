SPECIFICATION FairSpec
CONSTANTS
  Orgs = {o1}
  Exports = {e1, e2}
  NoOrg = NoOrg
  Statuses = {"active", "closed"}
  MaxSettings = 3
  MaxIncidents = 1
INVARIANTS FilesAreOffered
PROPERTIES PurgedAtRest ClosedIsPurged ExportEnds
CHECK_DEADLOCK FALSE
