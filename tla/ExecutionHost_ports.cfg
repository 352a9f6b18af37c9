CONSTANTS
  Agents = {a1}
  Targets = {t1}
  Ports = {p1, p2}
  None = None
  ClaimIds = {c1}
  MaxRotations = 1
  MaxJobs = 1
  Reported <- MCReported
  MaxGen = 2
  MaxSeq = 2
  MaxSent = 1
  MaxGrants = 2
  Versions <- MCVersions
  Sessions = {s1}
  MaxUpdates = 0
  MaxUpGrants = 0
  MaxEpoch = 2
  MaxRevision = 1
  MaxTokens = 1
SPECIFICATION Spec
CHECK_DEADLOCK FALSE
SYMMETRY MCSymmetry
INVARIANTS
  VerdictTrue
  
  
