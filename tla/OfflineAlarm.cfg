SPECIFICATION FairSpec
CONSTANTS
  MaxStops = 2
  MaxErrors = 1
  MaxTurns = 2
  MaxRows = 2
  Faults = {"restart", "reconnect", "db_error", "suspend", "relapse"}
INVARIANT OpenMeansOffline
PROPERTIES DarkIsRaised BackIsClosed LedgerKept ClosedByDevice
