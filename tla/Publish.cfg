SPECIFICATION FairSpec
CONSTANTS
  Contents = {c1}
  MaxVersion = 2
  Workers = {w1}
  None = None
  MaxAttempts = 2
  MaxBatches = 6
  MaxLapses = 2
  MaxDirect = 1
INVARIANTS
  TypeOK
  ClaimsAreSound
PROPERTIES
  VerdictsStand
  SnapshotSettles
CHECK_DEADLOCK FALSE
