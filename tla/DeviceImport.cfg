SPECIFICATION FairSpec
CONSTANTS
  Devices = {1, 2}
  j1 = j1
  j2 = j2
  Jobs = {j1, j2}
  Listed <- BothAndOne
  Boot = boot
  ByHand = byhand
  Every = 1
  MaxOthers = 1
  MaxIncidents = 2
INVARIANTS PasswordsMeet
PROPERTIES OthersKeepTheirs ImportEnds
CHECK_DEADLOCK FALSE
