\* The indexer with the events the contract publishes, one a ledger, and no fault at all.
SPECIFICATION Spec
CONSTANTS
  a1 = a1  b1 = b1
  None = None
  Auctions = {a1}
  Bidders = {b1}
  EventTypes = {"auction_created", "bid_placed", "auction_closed"}
  NamedEvents = FALSE
  BatchSize = 3
  LOOKBACK = 1
  MaxPerLedger = 1
  MaxEvents = 3
  MaxHeight = 4
  MaxFaults = 0
INVARIANTS HandledIsRecorded
CHECK_DEADLOCK FALSE
