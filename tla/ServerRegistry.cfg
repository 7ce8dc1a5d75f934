\* Two servers, each with an owner's thread and a runner's, and one global stop
\* that any of the four threads may make or be struck by.
CONSTANTS
  Servers = {s1, s2}
  NoThread = NoThread
SPECIFICATION Spec
INVARIANTS
  TypeOK
  LoopMeetsTheLiving
PROPERTIES
  GlobalStopReachesAll
  RegistryOpens
\* Servers that are gone stay so.
CHECK_DEADLOCK FALSE
