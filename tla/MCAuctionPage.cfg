\* A visitor who may commit, reveal and withdraw, three clicks in all, and one reload.
SPECIFICATION FairSpec
CONSTANTS
  u1 = u1  u2 = u2
  None = None
  Accounts = {u1}
  Methods = {"commit_bid", "reveal_bid", "withdraw_refund"}
  MAX_ATTEMPTS = 1
  MaxClicks = 3
  MaxReloads = 1
INVARIANTS TypeOK SaltSaved ErrorsAreHonest
PROPERTIES LoadingEnds
CHECK_DEADLOCK FALSE
