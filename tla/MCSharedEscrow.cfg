\* Two auctions share the pooled escrow of one token, the NFT and its approval.
SPECIFICATION Spec
SYMMETRY Symmetry
CONSTANTS
  b1 = b1  b2 = b2
  seller = seller  token1 = token1  token2 = token2  nft1 = nft1  nft2 = nft2
  None = None
  Bidders = {b1, b2}
  Listings <- SharedListings
  Amounts = {1, 4}
  Fees = {2500}
  MaxRoyalties = {3000}
  ANTI_SNIPE_WINDOW_SECS = 2
  EXTENSION_SECS = 2
  APPROVAL_LIFETIME = 3
  MaxAuctions = 2
  MaxTime = 5
  FaithfulBidders = TRUE
  I128_MAX = 100000
INVARIANTS EscrowExact
CHECK_DEADLOCK FALSE
