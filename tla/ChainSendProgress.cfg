\* A send that was confirmed, cancelled or refused for good has nothing left to do.
SPECIFICATION Spec
CHECK_DEADLOCK FALSE
CONSTANTS
  Workers = {w1}
  Providers = {p1, p2}
  MaxAttempts <- OneEach
  MaxFailed = 2
  MaxMishaps = 2
PROPERTIES
  EveryAttemptDecided
