CONSTANTS
  c1 = c1
  c2 = c2
  f1 = f1
  k1 = k1
  padded = padded
  blank = blank
  r1 = r1
  r2 = r2
  r3 = r3
  NoKey = NoKey
  NoItem = NoItem
  Clients = {c1, c2}
  Funds = {f1}
  Catalog = {f1}
  MinAmount <- MCMinAmount
  InitialBalance = 4
  Keys = {k1}
  Requests = {r1, r2, r3}
  MaxPerClient = 3
  StaleReads = FALSE
  Admins = {c2}
  NotifyPref <- MCNotifyPref
  HeaderValues = {padded, blank}
  KeyOf <- MCKeyOf
  MaxAtOnce = 1
  MaxAttempts = 2
SPECIFICATION ApiSpec
SYMMETRY Symmetry
INVARIANTS
  ApiInv
  WaitingInv
  OnlyAuthorizedChange
  StatusTellsOutcome
  MessagesMatchOpenings
PROPERTIES
  RetryIsNotRefused
  RefusalIsTrue
