SPECIFICATION SeatsSpec
CONSTANTS
  Seats = {s1}
  Payments = {}
  Agents = {}
  Owner = owner
  Visitors = {v1}
  Scanners = {c1}
  Period = 3
  Retry = 1
  Grace = 1
  MaxTime = 2
  MaxGranted = 0
  MaxFaults = 1
  None = None
CHECK_DEADLOCK FALSE
INVARIANTS NoChargeAfterLost
