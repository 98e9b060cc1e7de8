CONSTANTS
  c1 = c1  c2 = c2  j1 = j1  j2 = j2  w1 = w1  w2 = w2
  Conns <- TwoConns
  JobIds <- TwoJobs
  ConnOf <- JobEach
  Workers <- OneWorker
  MaxAttempts = 2
  Deletable = {}
  Faults = {"crash", "db", "stall", "block"}
  MaxFaults = 2
SPECIFICATION FairSpec
PROPERTIES OrphanedAttemptsReaped
