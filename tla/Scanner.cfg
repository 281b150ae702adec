CONSTANTS
  Pool = {p1}
  Derived = {}
  Subjects = {s1, s2, o1}
  Trades = {s1, s2}
  Nobody = Nobody
  Wallets = {w}
  Transfers = {t1, t2}
  Runs = {r1, r2}
  Overlap = 1
  Lag = 1
  Lookback = 0
  Window = 2
  Budget = 1
  MaxCommands = 2
  MaxBlock = 3
  MaxReorgs = 1
SPECIFICATION ScannerSpec
CONSTRAINT Instances
SYMMETRY Symmetry
CHECK_DEADLOCK FALSE
INVARIANTS NothingPassed ClaimsAreOwn
PROPERTIES ConfirmedStays ReleasedGainsNothing
