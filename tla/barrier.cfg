SPECIFICATION CoordinatorSpec
CONSTANTS
  p1 = p1
  p2 = p2
  p3 = p3
  Participants = {p1, p2, p3}
  Urls <- ThreeUrls
  Peers <- OtherPeers
  Faults = {"slow", "store", "crashCoordinator"}
  MaxCrashes = 0
\* a transaction that is over is the end of the system
CHECK_DEADLOCK FALSE
INVARIANTS
  CommitBarrier
  Agreement
  RecoveryDecides
  VotesDurable
PROPERTIES
  AtomicSpec
  CoordinatorFinishes
