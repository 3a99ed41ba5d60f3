SPECIFICATION FairSpec
CONSTANTS
  ann = ann
  root = root
  chat = chat
  high = high
  Users = {ann, root}
  Role <- RoleValue
  OptedIn = {root}
  Sees = {}
  Enabled = {ann, root}
  MinSeverity <- LevelValue
  QuietHours = {ann}
  Subscribers = {chat, group}
  Account <- AccountValue
  NoUser = NoUser
  NoRow = 0
  Rows = {1, 2}
  Keys = {high}
  KeyOf <- KeyValue
  Severity <- SeverityValue
  Workers = {1, 2}
  MaxIncidents = 1
INVARIANTS NoticeOnce LastWordIsTrue
PROPERTY EscalationComes
CHECK_DEADLOCK FALSE
