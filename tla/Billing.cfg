SPECIFICATION FairSpec
CONSTANTS
  o1 = o1
  o2 = o2
  Orgs = {o1, o2}
  FirstPartner <- MCFirstPartner
  Periods = {1, 2}
  Timer = timer
  ByHand = {}
  SetByHand = {"active", "suspended", "closed"}
  NoInvoice = NoInvoice
  MaxIssued = 2
  MaxIncidents = 1
INVARIANTS NoSilentSuspension LetterOnce HeldForDebt ChargedOnce
PROPERTY DunningComes
CHECK_DEADLOCK FALSE
