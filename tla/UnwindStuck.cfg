SPECIFICATION Spec
CONSTANTS
  Due = 2
  MaxPayments = 2
  Directions <- MCDirections
INVARIANT UnwoundCanReturn
CHECK_DEADLOCK FALSE
