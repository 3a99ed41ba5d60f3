SPECIFICATION Spec
CONSTANTS
  Codes = {door, sensor}
  Nuisance = {door}
  Tenants = {t1, t2}
  NoDelay = {t2}
  door = door
  sensor = sensor
  t1 = t1
  t2 = t2
  Slots = {1, 2}
  MaxRows = 2
  MaxRestarts = 0
  MaxErrors = 0
  MaxMoves = 0
  Faults = {"overlap"}
INVARIANT RiseIsCovered
