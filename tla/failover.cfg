SPECIFICATION ServiceSpec
CONSTANTS
  c1 = c1
  c2 = c2
  c3 = c3
  r1 = r1
  r2 = r2
  Nobody = Nobody
  Nodes = {c1, c2, c3}
  Requests = {r1, r2}
  Faults = {"crash"}
  MaxCrashes = 1
  MaxErrors = 0
  StoreFails = TRUE
SYMMETRY AnyOrder
INVARIANTS
  TypeOK
  ServiceTypeOK
  AtMostOneLeader
  LeaderRenews
  OneExecutor
  AnswerStored
PROPERTIES
  LeadershipSpec
