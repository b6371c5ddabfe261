SPECIFICATION FairSpec
CONSTANTS
  q1 = q1
  q2 = q2
  None = None
  Configs <- TwoNamespaces
  Requests = {q1, q2}
  Manifest <- MCManifest
  Persistent <- Retried
  MaxUrls = 2
  Steps = 2
  RetryCount = 2
  FaultKinds = {"error", "crash", "update", "delete", "network", "dryrun", "url"}
  MaxFaults = 1
INVARIANTS TypeOK StoredIsEquipped AgentIsItself InjectedOnce
PROPERTY AgentComesUp
CHECK_DEADLOCK FALSE
