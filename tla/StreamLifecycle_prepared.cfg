CONSTANTS
  r1 = r1
  r2 = r2
  r3 = r3
  r4 = r4
  p1 = p1
  p2 = p2
  NoReq = NoReq
  Req <- MCReq4
  Panel <- MCPanels
  Kinds = {"start", "stop", "force", "heartbeat", "settings", "markFailed", "report", "retry", "delete"}
  Modes = {"prepared"}
  Archive = TRUE
  AutoStart = TRUE
  Skew = 0
SPECIFICATION Spec
SYMMETRY Interchangeable
CHECK_DEADLOCK FALSE
INVARIANT PendingStopFenced
INVARIANT ClaimExclusive
PROPERTY LiveOnlyByOwner
