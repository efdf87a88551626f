SPECIFICATION PathSpec
CONSTANTS
  MaxAddr = 10
  Bits = {b}
  Overlaps = 2
  Buses <- MCBuses
  Span <- MCSpan
  Regs <- MCRegs
  Volatile <- MCVolatile
  Ratio = 2
  Words <- MCWords
  Reached <- MCReached
  Selects <- MCSelects
  Fronts <- MCFronts
INVARIANTS
  ReadIsOneMoment
  WriteIsDone
  LatencyIsConstant
PROPERTIES
  ImplementsAtomic
