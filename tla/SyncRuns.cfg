CONSTANTS
  s1 = s1  s2 = s2
  Streams <- TwoStreams
  Total = 2
  PipeCap = 1
  Events = {"cancel", "db", "source", "destination", "silence", "linger", "crash"}
  MaxEvents = 2
  MaxRuns = 2
SPECIFICATION FairSpec
INVARIANTS TypeOK CheckpointNeverAhead SuccessIsComplete
PROPERTIES ImplementsReplication RunReturns
CHECK_DEADLOCK FALSE
