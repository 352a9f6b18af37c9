SPECIFICATION Spec
CONSTANTS
  u = u
  n = n
  h1 = h1
  k1 = k1
  k2 = k2
  None = None
  Nodes = {u, n}
  Updaters = {u}
  Hosts = {h1}
  Keys = {k1, k2}
  Stages <- MCStages
  MaxJobs = 1
  MaxLeases = 2
  MaxTokens = 3
  MaxRevision = 1
  MaxTypes = 1
INVARIANT OneLiveToken
INVARIANT HeardFromHolder
INVARIANT OneBootstrapper
PROPERTY IdentityStable
 
CHECK_DEADLOCK FALSE
