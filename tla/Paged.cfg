CONSTANTS
  Paginators <- Every
  PageSize = 2
  ServerLimit = 2
  MaxWrites = 3
  MaxClock = 2
  MaxFails = 1
SPECIFICATION FairSpec
INVARIANTS TypeOK NoSilentLoss NothingResent
PROPERTY RunsEnd
