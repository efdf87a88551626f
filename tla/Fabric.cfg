SPECIFICATION Spec
CONSTANTS
  N = 2
  S = 2
  Topologies <- MCTopologies
PROPERTIES
  ImplementsTransactions
  TransactionsEnd
