SPECIFICATION Spec
CONSTANTS
  MaxBurst = 2
  LenValues = 4
  Space = 6
  MaxDesc = 2
  Descriptors <- MCDescriptors
  Counts <- MCCounts
INVARIANTS
  LastBeatAgrees
PROPERTIES
  ImplementsCopy
  Finishes
