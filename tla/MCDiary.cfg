SPECIFICATION MCSpec
CONSTANTS
  Meetings = {m1, m2, m3}
  Made = m1
  Events = {e1, e2, e3}
  Times = {1, 2}
  Rounds = {r1, r2}
  PageSize = 2
  Sweeps = {w1}
  Phones = {d1}
  MaxEdits = 2
  MaxMoves = 1
  MaxFaults = 1
  Notice = 1
  MaxTime = 1
  MaxTaps = 1
  None = None
CHECK_DEADLOCK FALSE
INVARIANTS DiaryTypeOK RemindedOfThisTime AnsweredAboutThisTime RemindedOnce
PROPERTIES SidesAgree
