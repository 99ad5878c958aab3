CONSTANTS
  c1 = c1
  c2 = c2
  f1 = f1
  f2 = f2
  f3 = f3
  unknown = unknown
  k1 = k1
  r1 = r1
  r2 = r2
  r3 = r3
  r4 = r4
  NoKey = NoKey
  NoItem = NoItem
  Clients = {c1}
  Funds = {f1, f2}
  Catalog = {f1, f2}
  MinAmount <- MCMinAmount
  InitialBalance = 5
  Keys = {k1}
  Requests = {r1, r2}
  MaxPerClient = 1
  StaleReads = FALSE
SPECIFICATION Spec
SYMMETRY Symmetry
INVARIANTS
  ReplayMatchesRequest
