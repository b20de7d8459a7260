SPECIFICATION MCSpec
CONSTANTS
  a1 = a1
  a2 = a2
  a3 = a3
  c1 = c1
  c2 = c2
  ContextBytes <- MCContextBytes
  NoContext = NoContext
  Inputs <- MCInputs
  Atom <- MCAtom
  NumBatches = 2
  BatchOf <- MCBatchOf
  SubmissionId = {s1, s2, s3}
  Value = {satisfied, violated}
  Reason = {r1, r2}
  None = None
INVARIANTS
  LoaderAccepts
  PlansAreBest
PROPERTIES
  HistoryAppendOnly
  ImplementsOutcome
CHECK_DEADLOCK FALSE
