CONSTANTS
  Ids = {r1, r2}
  Amounts = {1, 2}
  Capacities = {1, 3}
  MaxDay = 2
  Limit = 1
SPECIFICATION Spec
CHECK_DEADLOCK FALSE
INVARIANTS DayIsExact
PROPERTIES GrowsWithinCapacity PastDaysClose
