\* An event nobody can parse, one with rules on it, and the task they make.
SPECIFICATION FairSpec
CONSTANTS
  Events = {1, 2, 3}
  Trigger = 2
  TaskEvent = 3
  Malformed = {1}
  Rules = {r1}
  TaskRule = r1
  Dispatchers = {d1, d2}
  Workers = {w1, w2}
  BatchSize = 1
  MaxAttempts = 2
  MaxTries = 2
  MaxRedisErrors = 1
  MaxFaults = 1
  None = None
INVARIANTS
  TypeOK
  RuleActsOnce
  PublishedWasQueued
PROPERTIES
  EventuallyDelivered
CHECK_DEADLOCK FALSE
