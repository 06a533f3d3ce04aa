\* Office b has two users who buy; office a refers two clients and withdraws what
\* it earns.
SPECIFICATION MCSpec
CONSTANTS
  a = a
  b = b
  l1 = l1
  l2 = l2
  p1 = p1
  sa = sa
  sb1 = sb1
  sb2 = sb2
  Offices = {a, b}
  Leads = {l1, l2}
  Veterans = {b}
  Owner <- MCOwner
  Sessions = {sa, sb1, sb2}
  Seat <- MCSeat
  Sweepers = {r1}
  Offers = {p1}
  Price = 2
  FeePercent <- MCFee
  BonusPercent = 50
  OfferCost = 1
  InitialGrant = 3
  TopUp = 1
  MaxShares = 2
  MaxTopUps = 1
  Withdrawals = {w1, w2}
  Users = {u1, u2}
  Clerks = {c1, c2}
  Sums = {1, 2, 3}
  Minimum = 2
  Proceeds = 2
  MaxSales = 2
  None = None
INVARIANTS
  NoDebt
  SaleSettledOnce
  OfferChargedOnce
  OnlyLeftoversExpire
  NeverOverdrawn
  DecidedOnce
SYMMETRY UsersAndReplicas
CHECK_DEADLOCK FALSE
