SPECIFICATION Spec
CONSTANTS
  Due = 3
  MaxPayments = 3
  Directions <- MCDirections
INVARIANT NobodyHoldsBoth
INVARIANT DecisionStands
INVARIANT ClockTakesNoPayment
CHECK_DEADLOCK FALSE
