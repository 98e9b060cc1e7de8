CONSTANTS
  c1 = c1  c2 = c2  w1 = w1  w2 = w2
  Conns <- TwoConns
  Workers <- OneWorker
  Choices <- Fixed
  Triggerable = {}
  MaxTime = 3
  MaxFaults = 0
SPECIFICATION Spec
PROPERTY NeverRanDueAtOnce
