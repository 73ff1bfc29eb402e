SPECIFICATION LiveSpec
CONSTANTS
  Teams = {t1, t2}
  Keys = {k1}
  Refs = {w1}
  Nodes = {1}
  Pools = {p1}
  PoolOf <- MCPoolOf
  PoolConfigs <- MCConfigs
  Requests <- BothSizes
  Resources <- MCResources
  Gpu = "gpu"
  Totals <- TwoTotals
  AllocationPercent = 80
  SystemReserve <- MCReserve
  ReservationTtl = 2
  SnapshotMaxAge = 1
  AnyRegion = AnyRegion
  None = None
INVARIANTS TypeOK CapacityRespected
PROPERTIES NeverRevived ImplementsCapacityLedger QuarantineHolds HoldEnds
