CONSTANTS
  Agents = {a1}
  Targets = {t1}
  Ports = {p1}
  None = None
  ClaimIds = {c1}
  MaxRotations = 1
  MaxJobs = 0
  Reported = {}
  MaxGen = 0
  MaxSeq = 0
  MaxSent = 0
  MaxGrants = 0
  Versions <- MCVersions
  Sessions = {s1}
  MaxUpdates = 2
  MaxUpGrants = 2
  MaxEpoch = 1
  MaxRevision = 1
  MaxTokens = 2
SPECIFICATION Spec
CHECK_DEADLOCK FALSE
INVARIANTS
  OneLiveIdentity
  EmergencyIsFinal
  SucceededRuns
