SPECIFICATION Spec
CONSTANTS
  Paths = {"lite", "write", "read"}
  Beats = 2
  Timeout = 8
  MaxLatency = 5
  MasterStalls = FALSE
INVARIANTS
  ResponseIsAwaited
  TakesOverDropped
  BoundedWait
PROPERTIES
  Completes
