SPECIFICATION FairSpec
CONSTANTS
  Clients = {c1, c2}
  MaxToDsme = 2
  MaxToBus = 2
  MaxQueue = 2
INVARIANTS BlockedIffTracked LiveInhibitorTracked
PROPERTIES NoDeadBlocker
