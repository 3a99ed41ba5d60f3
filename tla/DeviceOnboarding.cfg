SPECIFICATION FairOnboarding
CONSTANTS
  Tenants = {t1, t2}
  Pending = pending
  NoHint = noHint
  Requests = {r1, r2}
  Bootstrap = boot
  Original = first
  MaxOpen = 1
  MaxMishaps = 1
  RescueMax = 1
  LateAnswers = FALSE
INVARIANT HintIsTrue
PROPERTIES  ActiveComesHome Rediscovered
