SPECIFICATION Spec
CONSTANTS
  s1 = s1
  s2 = s2
  p1 = p1
  p2 = p2
  clean = clean
  Item <- MCItem
  State <- MCState
  Scopes <- MCScope
  Worlds <- MCWorlds
  Proposal = {p1, p2}
  Outcome = {clean}
  OutcomeOf <- MCOutcomeOf
  Unable = p2
  FirstLedgers = {NoReceipt}
  Deployments <- MCFaultless
  NoReceipt = NoReceipt
  MaxRuns = 3
  MaxLives = 2
INVARIANTS
  FailsClosed
CHECK_DEADLOCK FALSE
