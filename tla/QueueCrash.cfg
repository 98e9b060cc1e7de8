CONSTANTS
  c1 = c1  j1 = j1  j2 = j2  w1 = w1  w2 = w2  s1 = s1  s2 = s2
  Conns <- OneConn
  JobIds <- TwoJobs
  ConnOf <- SameConn
  Workers <- TwoWorkers
  MaxAttempts = 2
  Deletable = {c1}
  Faults = {"crash"}
  MaxFaults = 3
  Streams <- TwoStreams
  MaxPosition = 1
SPECIFICATION StateSpec
INVARIANTS StateTypeOK NoCheckpointLost CrashInv NoConcurrentExecution
           WebhookTellsOutcome NoPrematureFailure
PROPERTIES TerminalIsFinal NotRequeuedUnderLiveWorker ImplementsLifecycle
