SPECIFICATION Spec
CONSTANTS
  Codes = {door}
  Nuisance = {door}
  Tenants = {t1, t2}
  NoDelay = {t2}
  door = door
  sensor = sensor
  t1 = t1
  t2 = t2
  Slots = {1}
  MaxRows = 2
  MaxRestarts = 1
  MaxErrors = 1
  MaxMoves = 1
  Faults = {"db_error", "reassign", "write_race", "crash"}
INVARIANTS ClearedIsClosed OnlyOwnersHear
CHECK_DEADLOCK FALSE
