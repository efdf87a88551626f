SPECIFICATION Spec
CONSTANTS
  ReadDescs <- MCReadDescs
  WriteDescs <- MCWriteDescs
  WordBytes = 2
  MaxWords = 2
  TableDepth = 2
  FifoDepth = 4
  BufferDepth = 1
  PendingBound = 8
  IndexBound = 4
  IdBound = 4
  Setups <- MCSetups
INVARIANTS CompletionsFit WriterHasData FirstMarksDescriptor LoopIndexIsLast
PROPERTIES ImplementsStream Delivers
