SPECIFICATION MCSpec
CONSTANTS
  Seats = {s1}
  Payments = {p1}
  Agents = {a1}
  Owner = owner
  Visitors = {v1}
  Scanners = {c1, c2}
  Period = 3
  Retry = 1
  Grace = 1
  MaxTime = 3
  MaxGranted = 1
  MaxFaults = 1
  None = None
CHECK_DEADLOCK FALSE
INVARIANTS SeatsTypeOK HoldersCovered MonthCollectedOnce
PROPERTIES UnpaidIsSettled
