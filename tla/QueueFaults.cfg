CONSTANTS
  c1 = c1  c2 = c2  j1 = j1  j2 = j2  w1 = w1  w2 = w2
  Conns <- OneConn
  JobIds <- TwoJobs
  ConnOf <- SameConn
  Workers <- TwoWorkers
  MaxAttempts = 2
  Deletable = {c1}
  Faults = {"crash", "db", "stall"}
  MaxFaults = 2
SPECIFICATION Spec
SYMMETRY Symmetry
INVARIANTS TypeOK OneActiveJobPerConnection AttemptHasOneOwner CancelledOnlyOnRequest
