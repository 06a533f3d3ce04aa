SPECIFICATION CalendarSpec
CONSTANTS
 Meetings = {m1}
 Events = {e1}
 Times = {t1,t2}
 Rounds = {r1}
 PageSize = 2
 MaxEdits = 2
 MaxMoves = 0
 MaxFaults = 0
 None = None
CHECK_DEADLOCK FALSE
PROPERTIES EditKept
