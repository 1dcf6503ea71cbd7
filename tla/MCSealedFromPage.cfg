\* A visitor who may commit, reveal and withdraw, three clicks in all, and one reload.
SPECIFICATION Spec
CONSTANTS
  u1 = u1  u2 = u2
  None = None
  Accounts = {u1}
  Methods = {"commit_bid", "reveal_bid", "withdraw_refund"}
  MAX_ATTEMPTS = 1
  MaxClicks = 3
  MaxReloads = 1
INVARIANT SavedBidOpens
CHECK_DEADLOCK FALSE
