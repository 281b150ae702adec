CONSTANTS
  LegIds = {l1, l2, l3}
  Amounts = {1, 2, 3, 4, 5, 6}
  ClientAmounts = {1, 2}
  Terms = {1, 2}
  Directions = {"BUY_USDT", "SELL_USDT"}
  AcceptedPayout = 2
  AcceptedReceivable = 1
  MinPayout = 1
  MaxCases <- MCMaxCases
SPECIFICATION Spec
SYMMETRY Symmetry
CHECK_DEADLOCK FALSE
INVARIANTS PayoutsWithinObligation RefundsWithinReceived NeverBothWays PayoutAfterFirstLeg CancelledOwesNothing SettledTradeCompletes
PROPERTIES CompletionIsExact AccountSpec
