SPECIFICATION Spec
CONSTANTS
  MaxConts = 9
  Kinds <- BottomOnly
  Silent = 12
  Visible = 2
PROPERTIES Terminates
