SPECIFICATION PathSpec
CONSTANTS
  MaxAddr = 4
  Bits = {b}
  Overlaps = 2
  Buses <- MCOneBus
  Span <- MCOneSpan
  Regs <- MCTwoWords
  Volatile <- MCTwoWords
  Ratio = 2
  Words = {0, 1}
  Reached <- MCTwoWords
  Selects <- MCSelects
  Fronts = {"axi"}
INVARIANTS
  NextWordIsOfThisCapture
