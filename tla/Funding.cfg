CONSTANTS
  Legs = {l1, l2, l3}
  Settlements = {s1, s2, s3}
  Sends = {x}
  Modes = {"TO_EXCHANGE", "DIRECT_TO_CLIENT"}
  Directions = {"SELL", "BUY"}
  Terms <- MCTerms
  Movements = {1, 2}
  Deltas <- MCDeltas
  MaxAdjusts = 1
SPECIFICATION FundingSpec
SYMMETRY Symmetry
CHECK_DEADLOCK FALSE
INVARIANTS EarmarksExact PaysOnlyReceived AllocationExact
