SPECIFICATION Spec
CONSTANTS
  main = main
  cold = cold
  all = all
  Main = main
  All = all
  Depots = {main, cold}
  Ids = {1, 2, 3, 4, 5, 6}
  Settings = {1, 2}
  NoBook = NoBook
  MaxDepots = 2
  MaxGoals = 2
  Calls = {c1, c2, c3}
  FirstBooks <- FewBooks
  MaxEntries = 3
  Traffic <- Orphans
CHECK_DEADLOCK FALSE
PROPERTIES
  NoOversellCreated
