SPECIFICATION MCSpec
CONSTANTS
  Rentals = {r1, r2}
  Numbers = {n1}
  Offices = {o1, o2}
  Payments = {p1, p2}
  Requests = {q1, q2}
  Scanners = {c1, c2}
  Period = 1
  MaxTime = 1
  MaxFaults = 1
  None = None
CHECK_DEADLOCK FALSE
INVARIANTS RentalTypeOK PaidServedOrReported LostOnlyOnRequest RenewedOnce NoSilentLeak
PROPERTIES CancelledNotCharged CancelledIsReleasedInTime
