\* Two middleware and a handler that next() may reach twice.
CONSTANTS
  ChainLength = 2
  MaxHandlerRuns = 2
SPECIFICATION Spec
INVARIANTS
  TypeOK
  OneResponse
  FallbackHasNoBody
  WireIsResponse
  ChainInOrder
PROPERTIES
  FinalizedIsFinal
\* A request that has been answered is over.
CHECK_DEADLOCK FALSE
