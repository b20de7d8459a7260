SPECIFICATION ProviderSpec
CONSTANTS
  p1 = p1
  p2 = p2
  c1 = c1
  c2 = c2
  Callers = {t1, t2}
  Providers = {p1, p2}
  Capabilities = {c1, c2}
  Sources = {s}
  Payloads = {x, y}
  Profiles <- MCProfiles
  Declares <- MCDeclares
  Concurrency <- MCConcurrency
  CheckRequires <- MCCheckRequires
  FailureCodes = {timeout}
  MaxItems = 2
  MaxVersions = 2
  MaxCalls = 2
  None = None
CHECK_DEADLOCK FALSE
INVARIANTS
  WithinEveryLimit
  EvidenceVerifies
  OneStatePerSource
PROPERTIES
  SettledForever
  RuntimeIsReleased
