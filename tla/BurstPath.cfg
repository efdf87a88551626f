SPECIFICATION Spec
CONSTANTS
  AddrSpace = 8
  WordBytes = 2
  Values = {0, 1}
  BurstsOf <- MCBurstsOf
  Faulty = {3}
  None = None
  Paths = {"native", "adapter", "bridged", "single", "wishbone"}
  TargetsOf <- MCTargetsOf
  Prompt = {"bridged"}
PROPERTIES
  ImplementsBursts
  RequestHolds
  BurstsComplete
