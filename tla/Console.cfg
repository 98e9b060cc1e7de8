CONSTANTS
  Spaces <- ThreeSpaces
  Conns <- ThreeConns
  SpaceOf <- Placed
  FirstSpaces <- FirstTwo
  FirstJobs <- TwoJobs
  MaxJobs = 3
  MaxInFlight = 3
  MaxWaiting = 1
  MaxKeys = 4
  MaxChanges = 1
  Outages = TRUE
SPECIFICATION FairSpec
INVARIANTS TypeOK ShownBelongs
PROPERTIES CursorStaysOnRow Converges
CHECK_DEADLOCK FALSE
