SPECIFICATION JournalSpec
CONSTANTS
  a1 = a1
  c1 = c1
  c2 = c2
  p1 = p1
  p2 = p2
  Atom = {a1}
  NumBatches = 1
  BatchOf <- MCBatchOf
  SubmissionId = {s1}
  Value = {satisfied}
  Reason = {r1}
  None = None
  Caller = {c1, c2}
  Store = {p1, p2}
  Deployments <- MCDeployments
CHECK_DEADLOCK FALSE
INVARIANTS
  LoadNeverLies
  ReloadAgrees
PROPERTIES
  ImplementsReview
