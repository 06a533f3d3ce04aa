SPECIFICATION MCSpec
CONSTANTS
  Payments = {p1, p2}
  Checkouts = {c1, c2}
  Handlers = {h1, h2}
  Period = 2
  Grace = 1
  MaxTime = 1
  MaxRedemptions = 1
  InitialCoupons = {"none", "part", "full"}
  None = None
SYMMETRY Interchangeable
CHECK_DEADLOCK FALSE
INVARIANTS TypeOK OfferQuota InvoicedOnlyIfPaid AccessFollowsPeriod
PROPERTIES Settlement CouponKept
