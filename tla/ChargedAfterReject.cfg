SPECIFICATION Spec
CONSTANTS
  Payments = {p1}
  Checkouts = {c1}
  Handlers = {h1}
  Period = 2
  Grace = 1
  MaxTime = 1
  MaxRedemptions = 0
  InitialCoupons = {"part"}
  None = None
CHECK_DEADLOCK FALSE
INVARIANT ChargedStaysClaimable
