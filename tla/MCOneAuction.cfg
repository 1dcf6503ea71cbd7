\* One auction of any format; its seller is one of the three bidders.
SPECIFICATION FairSpec
CONSTANTS
  b1 = b1  b2 = b2
  seller = seller  token1 = token1  token2 = token2  nft1 = nft1  nft2 = nft2
  None = None
  Bidders = {b1, b2, seller}
  Listings <- AnyListings
  Amounts = {1, 2, 5}
  Fees = {2500, 10000}
  MaxRoyalties = {3000}
  ANTI_SNIPE_WINDOW_SECS = 2
  EXTENSION_SECS = 2
  APPROVAL_LIFETIME = 3
  MaxAuctions = 1
  MaxTime = 8
  FaithfulBidders = TRUE
  I128_MAX = 100000
INVARIANTS TypeOK DepositsAccounted ProceedsExact NoSniping SealedWinner SeatsCounted DutchFair SoldOnlyAttested
PROPERTIES OutcomeIsFinal ImplementsSale EveryoneMadeWhole
CHECK_DEADLOCK FALSE
