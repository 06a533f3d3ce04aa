\* Two replicas and a person at the screen issue one document; answers may be
\* lost or late, requests refused, and a process may die.
SPECIFICATION FairSpec
CONSTANTS
  Invoices = {i1}
  Sweepers = {s1, s2}
  Clickers = {c1}
  MaxAttempts = 3
  MaxCrashes = 1
  MaxClicks = 1
  LateFinish = TRUE
  None = None
INVARIANTS
  TypeOK
  OneIssuer
  IssuedHasDocument
  RetryNeverDuplicates
PROPERTIES
  EventuallySettled
CHECK_DEADLOCK FALSE
