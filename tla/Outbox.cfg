CONSTANTS
  h1 = h1
  h2 = h2
  Events = {1, 2, 3}
  Handlers = {h1, h2}
  Matching <- MCMatching
  Workers = {w1, w2}
  BatchSize = 3
  MaxAttempts = 2
  MaxCrashes = 1
SPECIFICATION OutboxSpec
CHECK_DEADLOCK FALSE
INVARIANTS DispatchedIsDelivered RunsOnceUnlessCrashed
PROPERTIES RecordedNotRepeated EveryEventEnds
