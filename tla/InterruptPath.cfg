SPECIFICATION Spec
CONSTANTS
  LevelEvents = {"door"}
  RisingEvents = {"key"}
  Reloads = {0, 4}
  Controllers = {"intc", "edge", "level"}
INVARIANTS
  NoEventLost
  FiringsReported
  WakesUp
PROPERTIES
  EventServed
