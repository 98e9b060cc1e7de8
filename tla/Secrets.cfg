CONSTANTS
  a1 = a1   i1 = i1  i2 = i2  i3 = i3  r1 = r1  r2 = r2
  Actors <- OneActor
  Ids <- ThreeIds
  Requests <- TwoRequests
  MaxSecrets = 2
  MaxSeals = 3
  MaxFaults = 1
SPECIFICATION Spec
SYMMETRY Symmetry
INVARIANTS TypeOK RefsResolve NoLeakedSecrets HydratedAsStored
CHECK_DEADLOCK FALSE
