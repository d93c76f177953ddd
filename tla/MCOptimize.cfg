SPECIFICATION OptSpec
CONSTANTS
  MaxConts = 20
  Kinds <- OptKinds
  Silent = 12
  Visible = 2
INVARIANTS TypeOK StaysWellFormed MeaningPreserved ReadyForCodegen
PROPERTIES OptTerminates
