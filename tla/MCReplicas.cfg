SPECIFICATION MCSpec
CONSTANTS
  Payments = {p1, p2, p3}
  Checkouts = {c1}
  Handlers = {h1}
  Scanners = {s1, s2}
  Period = 2
  Grace = 1
  FirstEnd = 1
  WarnWithin = 1
  MaxTime = 3
  MaxRedemptions = 0
  MaxFaults = 1
  InitialCoupons = {"none"}
  None = None
SYMMETRY Interchangeable
CHECK_DEADLOCK FALSE
INVARIANTS OneChargePerPeriod OneReminderPerPeriod ChargedRenewalRecorded
