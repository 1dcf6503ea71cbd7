\* One client address and one signer; one auction of either kind and the bids proposed to it.
SPECIFICATION Spec
CONSTRAINT Apart
CONSTANTS
  c1 = c1  g1 = g1  r1 = r1
  None = None
  Clients = {c1}
  Addresses = {g1}
  Randoms = {r1}
  DEFAULT_MAX_REQUESTS = 4
  DEFAULT_WINDOW_MS = 2
  STRICT_MAX_REQUESTS = 3
  STRICT_WINDOW_MS = 2
  AUTH_NONCE_MAX_AGE_MS = 2
  CLOCK_SKEW_MS = 1
  Items = {"digital", "physical"}
  Amounts = {1, 2, 3, 4}
  Reserve = 1
  MinIncrement = 2
  MaxTime = 4
  MaxRequests = 5
INVARIANTS TypeOK BudgetHeld RetryAfterSuffices NonceOnce NoFalseRefusal
CHECK_DEADLOCK FALSE
