CONSTANTS
  c1 = c1  c2 = c2  j1 = j1  j2 = j2  w1 = w1  w2 = w2
  Conns <- OneConn
  JobIds <- TwoJobs
  ConnOf <- SameConn
  Workers <- OneWorker
  MaxAttempts = 2
  Deletable = {}
  Faults = {"crash"}
  MaxFaults = 1
SPECIFICATION FairSpec
PROPERTY DeadWorkersJobsRequeued
