SPECIFICATION FairSpec
CONSTANTS
  Devices = {d1, d2}
  Workers = {w1}
  BatchSize = 1
  Threshold = 50
  MaxDeferrals = 1
  MaxRequests = 2
  MaxStops = 1
  MaxTurns = 1
  MaxErrors = 2
  Faults = {"restart", "send_error", "no_firmware", "db_error"}
INVARIANT OneCommand
PROPERTIES OnlyRunningSends CancelReleases RolloutEnds
