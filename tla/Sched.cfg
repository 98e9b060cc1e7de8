CONSTANTS
  c1 = c1  c2 = c2  w1 = w1  w2 = w2
  Conns <- TwoConns
  Workers <- OneWorker
  Choices <- Edited
  Triggerable = {c2}
  MaxTime = 3
  MaxFaults = 1
SPECIFICATION FairSpec
INVARIANT TypeOK
PROPERTIES NoDoubleEnqueue DueConnectionsEnqueued
