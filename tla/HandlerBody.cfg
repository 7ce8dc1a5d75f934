\* A legal request, its Content-Length spelled in either case.
CONSTANTS
  Streams <- LowerCaseStreams
  ChunkSize = 4
  MaxRequestSize = 6
  MaxRequests = 3
  SizeModulus = 16
SPECIFICATION Spec
INVARIANTS
  HandlerSeesBody
CHECK_DEADLOCK FALSE
