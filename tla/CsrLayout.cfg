SPECIFICATION LayoutSpec
CONSTANTS
  AddrWidth = 4
  Alignment = 0
  Resources <- MCResources
  Windows <- MCWindows
  Sizes = {1, 3}
  Addresses = {4, 7, 8, 12}
  Alignments = {0, 2}
  Registers <- MCRegisters
  Nesting = 2
  DataWidth = 2
  Granularity = 1
  Labels = {"ctl", "0"}
  Offsets = {2, 7, 10}
  ShadowOverlaps = 0
INVARIANTS
  LookupsAgree
  PathsAreDistinct
  PlainPatternsSelect
  FieldBitsAreReached
  ChunksRoundTrip
PROPERTIES
  TerminatesAligned
CHECK_DEADLOCK FALSE
