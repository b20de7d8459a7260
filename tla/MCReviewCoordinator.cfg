SPECIFICATION FairSpec
CONSTANTS
  a1 = a1
  a2 = a2
  satisfied = satisfied
  violated = violated
  Atom <- MCAtom
  NumBatches = 2
  BatchOf <- MCBatchOf
  SubmissionId <- MCSubmissionId
  Identities <- MCIdentities
  Value <- MCValue
  Reason = {r1}
  None = None
  MaxRevisions = 2
  MaxCrashes = 1
INVARIANTS
  TaskIsCurrent
  CurrentAnswerIsAcceptable
PROPERTIES
  Drains
