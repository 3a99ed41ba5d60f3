SPECIFICATION FairSpec
CONSTANTS
  Deliveries = {d1, d2}
  MaxAttempts = 2
  DisableAfter = 2
  Batch = 1
  MaxMishaps = 1
  MaxRequests = 1
  MaxTurns = 1
INVARIANT NotLeftToTheTimer
PROPERTIES EndedIsNotPosted OffMeansStreak DeliveryEnds
CHECK_DEADLOCK FALSE
