SPECIFICATION FairSpec
CONSTANTS
  p1 = p1
  p2 = p2
  t1 = t1
  t2 = t2
  Selector = {r1, r2}
  Tx = {t1, t2}
  Process = {p1, p2}
  Deployments <- MCDeployments
  None = None
CHECK_DEADLOCK FALSE
INVARIANTS
  OneRelease
  ResultIsTrue
  ExecutedOnce
PROPERTIES
  MutationIsJournaled
  ClaimsSettle
