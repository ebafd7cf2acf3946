SPECIFICATION FairSpec
CONSTANTS
  c1 = c1
  me = me
  other1 = other1
  other2 = other2
  t1 = t1
  t2 = t2
  Coordinators = {c1}
  Me = me
  Others = {other1, other2}
  Txns = {t1, t2}
  Requests <- OneOwner
  Interval = 2
  SendTimeout = 1
  Timeout = 5
  MaxElapsed = 11
  MaxCrashes = 1
  MaxRestarts = 1
INVARIANTS
  TypeOK
  SilenceBounded
PROPERTIES
  SilenceNoticed
