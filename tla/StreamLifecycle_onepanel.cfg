CONSTANTS
  r1 = r1
  r2 = r2
  r3 = r3
  r4 = r4
  p1 = p1
  p2 = p2
  NoReq = NoReq
  Req <- MCReq
  Panel <- MCOnePanel
  Kinds = {"start", "stop", "force", "heartbeat", "settings", "markFailed", "report", "retry", "delete"}
  Modes = {"plain", "prepared"}
  Archive = FALSE
  AutoStart = TRUE
  Skew = 1
SPECIFICATION Spec
SYMMETRY Interchangeable
CHECK_DEADLOCK FALSE
INVARIANT QuietWhenStopped
