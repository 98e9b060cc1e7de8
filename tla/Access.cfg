CONSTANTS
  t1 = t1  t2 = t2  s1 = s1  s2 = s2  r1 = r1  r2 = r2
  Tokens <- TwoTokens
  ByCommand = {t1}
  States <- TwoStates
  Requests <- TwoRequests
  Modes = {FALSE, TRUE}
  TTL = 1
  MaxFields = 1
  MaxSent = 3
  MaxFaults = 1
SPECIFICATION FairSpec
INVARIANTS TypeOK ActsWithinRole
PROPERTIES EffectsAudited StatesHonoured
CHECK_DEADLOCK FALSE
