SPECIFICATION Spec
CONSTANTS
  Ref = {"e1", "e2", "x"}
  Issued = {"e1", "e2"}
  Dimension = {"d1", "d2"}
  Atom = {"a1", "a2", "a3"}
  KindOf <- MCKindOf
  Title = {"t"}
  None = None
  Item = {"i", "j", "k"}
  Discoverable <- MCDiscoverable
  Skipped = {"k"}
  Reviewed = {"i"}
  DimensionOf <- MCDimensionOf
  RawValue <- MCRawValue
  EvidenceOf <- MCEvidenceOf
  Cited = "e1"
  Findings <- MCFindings
INVARIANTS
  EveryItemAccounted
  NeverPassesSilently
  CompleteIsActionable
CHECK_DEADLOCK FALSE
