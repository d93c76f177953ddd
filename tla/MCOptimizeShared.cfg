SPECIFICATION OptSpec
CONSTANTS
  MaxConts = 20
  Kinds <- SharedCalls
  Silent = 12
  Visible = 2
INVARIANT CallsVerify
