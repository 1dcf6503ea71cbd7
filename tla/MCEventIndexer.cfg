\* One auction and one bidder, and a loop that fails or crashes twice.
SPECIFICATION FairSpec
CONSTANTS
  a1 = a1  b1 = b1
  None = None
  Auctions = {a1}
  Bidders = {b1}
  EventTypes = {"auction_created", "bid_placed", "bid_out", "auction_closed", "auction_settled", "auction_cancelled", "attestation_recorded"}
  NamedEvents = TRUE
  BatchSize = 3
  LOOKBACK = 1
  MaxPerLedger = 2
  MaxEvents = 4
  MaxHeight = 3
  MaxFaults = 2
INVARIANTS TypeOK CursorCovers RowsConverge BidsComplete PushedIsReadable Ingested
PROPERTIES CatchesUp
CHECK_DEADLOCK FALSE
