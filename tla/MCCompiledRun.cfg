SPECIFICATION FairSpec
CONSTANTS
  a1 = a1
  a2 = a2
  satisfied = satisfied
  unknown = unknown
  Atom <- MCAtom
  NumBatches = 1
  BatchOf <- MCBatchOf
  SubmissionId = {s1}
  Value <- MCValue
  Reason = {r1}
  None = None
  Run = {run1, run2}
  v1 = v1
  v2 = v2
  Version <- MCVersion
  State <- MCState
  NeedsEvidence <- MCNeedsEvidence
  Failed = Failed
  FirstWorlds <- MCFirstWorlds
  Editable <- MCEditable
INVARIANTS
  JudgedAsDiscovered
  UnfinishedIsActive
PROPERTIES
  ResultIsFinal
  RunsEnd
