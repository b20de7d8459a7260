SPECIFICATION Spec
CONSTANTS
  i1 = i1
  i2 = i2
  clean = clean
  issue = issue
  k1 = k1
  o1 = o1
  None = None
  WorkItem = {i1, i2}
  Proposal = {clean, issue}
  Outcome = {"no_issue", "issue_found"}
  OutcomeOf <- MCOutcomeOf
  Commit = {k1}
  OperationName = {o1}
  Recovery = {"restored", "uncertain"}
  Boundaries = {"running", "blocked", "ready_to_finish"}
  Faults = {"written", "refused"}
SYMMETRY WorkItems
CHECK_DEADLOCK FALSE
INVARIANTS
  EligibleRunsConform
  AcknowledgedCommitsSurvive
