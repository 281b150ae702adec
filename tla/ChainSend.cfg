\* A send that was confirmed, cancelled or refused for good has nothing left to do.
SPECIFICATION Spec
CHECK_DEADLOCK FALSE
SYMMETRY Interchangeable
CONSTANTS
  Workers = {w1, w2}
  Providers = {p1, p2}
  MaxAttempts <- MCMaxAttempts
  MaxFailed = 2
  MaxMishaps = 1
INVARIANTS
  OneTransferPerSend
  SendingIsUndecided
  RecordedAsItWas
  CancelledNeverLands
