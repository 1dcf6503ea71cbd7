\* Auctions with and without a room, two of them with events, over two connections.
SPECIFICATION FairlyExplored
CONSTANTS
  g1 = g1
  g2 = g2
  None = None
  Auctions = {0, 1, 2}
  Eventful = {1, 2}
  Addresses = {g1, g2}
  RECONNECTION_ATTEMPTS = 2
  MaxConns = 2
  MaxMounts = 3
  MaxFetches = 2
  MaxBids = 1
  MaxNonces = 2
INVARIANTS TypeOK  RoomsFollowPage BiddersAuthenticated ChallengeOnce
PROPERTIES JoinsRoom
CHECK_DEADLOCK FALSE
