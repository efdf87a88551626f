SPECIFICATION Spec
CONSTANTS
  N = 3
  LockCapable = {0, 2}
  Values = {0, 1}
INVARIANTS
  TypeOK
  AckReachesServed
  AtomicUpdate
  BoundedBypass
PROPERTIES
  Served
