SPECIFICATION FairSpec
CONSTANTS
  p1 = p1
  p2 = p2
  p3 = p3
  Participants = {p1, p2}
  Urls <- TwoUrls
  Peers <- OtherPeers
  Faults = {"crashCoordinator", "crashParticipant"}
  MaxCrashes = 1
\* a transaction that is over is the end of the system
CHECK_DEADLOCK FALSE
PROPERTIES
  OrphansRecover
