SPECIFICATION Spec
CONSTANTS
  Devices = {d1, d2}
  Workers = {w1}
  BatchSize = 1
  Threshold = 50
  MaxDeferrals = 1
  MaxRequests = 2
  MaxStops = 1
  MaxTurns = 1
  MaxErrors = 1
  Faults = {"checker_race", "crash", "reassign", "send_error", "db_error"}
SYMMETRY Symmetry
INVARIANT CompletedIsFinal
CHECK_DEADLOCK FALSE
