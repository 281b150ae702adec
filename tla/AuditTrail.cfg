CONSTANTS
  one = one
  other = other
  free = free
  k = k
  h1 = h1
  h2 = h2
  h3 = h3
  NoKey = NoKey
  NoRow = NoRow
  Attempts <- MCAttempts
  KeyOf <- MCKeyOf
  HashOf <- MCHashOf
  TxLimit = 0
  Settle = 0
  MaxTime = 5
  MaxSeq = 3
  MaxRestores = 1
SPECIFICATION Spec
CHECK_DEADLOCK FALSE
INVARIANTS RunsOnce SealsStand HonestArchiveVerifies
