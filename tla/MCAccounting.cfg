SPECIFICATION MCSpec
CONSTANTS
  main = main
  cold = cold
  Depots = {main, cold}
  Ids = {1, 2, 3}
  MaxAmount = 2
  MaxFee = 1
  Books <- TwoInstants
  NoRow = NoRow
  ChartBooks <- ThreeInstants
  DayEnds <- ThreeDays
  Threshold = 2
  NoDebt = NoDebt
  unlock = unlock
  export = export
  Keys = {unlock, export}
  Unlocks = {unlock}
  Limit <- LimitOf
  Window <- WindowOf
  Second = 2
  None = None
  MaxTime = 10
CHECK_DEADLOCK FALSE
INVARIANTS
  CursorExact
  FirstInFirstOut
  NoFutureLot
  LotsAddUp
  SnapshotsExact
  WindowRespected
  RetryRight
PROPERTIES
  OversoldIsReal
  ImplementsStackBalance
