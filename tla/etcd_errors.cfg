SPECIFICATION FairSpec
CONSTANTS
  c1 = c1
  c2 = c2
  c3 = c3
  Nobody = Nobody
  Nodes = {c1, c2}
  Faults = {"crash", "quickRestart", "etcd", "startup", "late"}
  MaxCrashes = 1
  MaxErrors = 2
PROPERTIES
  FlagFollowsKey
  LeaderAgain
