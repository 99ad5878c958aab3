CONSTANTS
  c1 = c1
  f1 = f1
  f2 = f2
  r1 = r1
  r2 = r2
  r3 = r3
  q1 = q1
  NoKey = NoKey
  NoItem = NoItem
  Clients = {c1}
  Funds = {f1}
  Catalog = {f1}
  MinAmount <- MCMinAmount
  InitialBalance = 5
  Keys = {}
  Requests = {r1, r2, r3}
  MaxPerClient = 3
  StaleReads = FALSE
  Readers = {q1}
  MaxSecond = 1
  Micros = 2
  PageSize = 2
SPECIFICATION HistorySpec
SYMMETRY Symmetry
INVARIANTS
  HistoryInv
  ListingRespectsRealTime
  CancelsFollowAnOpen
  NewestTellsHoldings
