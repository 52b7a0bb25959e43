SPECIFICATION Spec
CONSTANTS
  Kinds <- PlainVM
  MaxHeight = 3
  MaxCrashes = 1
INVARIANT VMHandshakeSucceeds
CHECK_DEADLOCK FALSE
