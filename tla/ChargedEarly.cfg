SPECIFICATION RenewalSpec
CONSTANTS
  Payments = {p1, p2}
  Checkouts = {c1}
  Handlers = {h1}
  Scanners = {s1, s2}
  Period = 2
  Grace = 1
  FirstEnd = 1
  WarnWithin = 1
  MaxTime = 1
  MaxRedemptions = 0
  MaxFaults = 0
  InitialCoupons = {"none"}
  None = None
CHECK_DEADLOCK FALSE
INVARIANTS ChargedOnlyWhenDue
