SPECIFICATION Spec
CONSTANTS
  Users = {u1, u2}
  Sessions = {s1, s2}
  NoUser = NoUser
  NoSession = NoSession
  MaxQuotes = 2
  MaxChallenges = 2
  MaxTime = 2
  Validities = {2}
  LinkMinValidity = 2
  RequestTtl = 2
  OtpTtl = 1
  OtpWindow = 2
  OtpMaxSends = 2
  MaxAttempts = 2
INVARIANTS
  OneDeal
  DecisionIsVerified
PROPERTIES
  CodesDieWithQuote
  RevokedLinkDecidesNothing
SYMMETRY Symmetry
CHECK_DEADLOCK FALSE
