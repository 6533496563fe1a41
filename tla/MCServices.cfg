SPECIFICATION MCSpec
CONSTANTS
  twin1 = twin1
  twin2 = twin2
  other = other
  Trades = {twin1, twin2, other}
  FingerprintOf <- FingerprintsOf
  Exports <- ManyExports
  MaxHeld = 3
  MaxImports = 2
  NoReview = NoReview
  Sources <- OwnAndMarket
  Currencies = {"eur", "usd"}
  LocalInterval = 4
  PublicInterval = 2
  Grace = 6
  Providers = {"p1", "p2", "p3", "p4"}
  Fair = {1000, 1040}
  Wild = {500, 1090, 2000}
  Outages = 1
  NoPrice = NoPrice
  Callers = {"c1", "c2"}
  Intervals = {1, 2}
  LastTick = 2
  MaxCrashes = 1
  MaxSaves = 1
  Unset = Unset
CHECK_DEADLOCK FALSE
INVARIANTS
  ImportExact
  
PROPERTIES
  RotationsRight
