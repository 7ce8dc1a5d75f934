\* Each state asks one question and is the end of its behaviour.
SPECIFICATION Spec
INVARIANTS
  MatchesInstances
  AllowIsHonest
  QueryRead
  FramesWhole
  RequestRead
  FormRead
  ResponseReads
CHECK_DEADLOCK FALSE
