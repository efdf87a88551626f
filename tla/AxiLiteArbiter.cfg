SPECIFICATION Spec
CONSTANTS
  N = 3
  Kinds = {TRUE, FALSE}
INVARIANTS
  LockTracksSlave
  BoundedBypass
PROPERTIES
  Granted
