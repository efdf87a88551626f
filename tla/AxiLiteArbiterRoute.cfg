SPECIFICATION Spec
CONSTANTS
  N = 2
  Kinds = {FALSE}
INVARIANTS
  ResponseToRequester
