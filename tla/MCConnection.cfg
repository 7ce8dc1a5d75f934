CONSTANTS
  Streams <- MCStreams
  ChunkSize = 4
  MaxRequestSize = 6
  MaxRequests = 3
  SizeModulus = 16
SPECIFICATION Spec
INVARIANTS
  TypeOK
  InOrder
  BufferBounded
PROPERTIES
  ImplementsExchange
  ConnectionCloses
\* A closed connection stays closed.
CHECK_DEADLOCK FALSE
