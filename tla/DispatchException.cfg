\* A handler alone.
CONSTANTS
  ChainLength = 0
  MaxHandlerRuns = 1
SPECIFICATION Spec
PROPERTIES
  ExceptionIsAnswered
CHECK_DEADLOCK FALSE
