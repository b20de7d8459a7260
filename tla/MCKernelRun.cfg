SPECIFICATION FairSpec
CONSTANTS
  s1 = s1
  s2 = s2
  p1 = p1
  p2 = p2
  clean = clean
  Item <- MCItem
  State <- MCState
  Scopes <- MCScopes
  Worlds <- MCWorlds
  Proposal = {p1, p2}
  Outcome = {clean}
  OutcomeOf <- MCOutcomeOf
  Unable = p2
  FirstLedgers <- MCFirstLedgers
  Deployments <- MCDeployments
  NoReceipt = NoReceipt
  MaxRuns = 2
  MaxLives = 2
INVARIANTS
  SettledOnce
  FailuresAreIsolated
  PacketsAreCurrent
  ReceiptsMatch
PROPERTIES
  NeverCommittedAgain
  RunReturns
CHECK_DEADLOCK FALSE
