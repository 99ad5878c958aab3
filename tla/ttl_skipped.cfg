CONSTANTS
  t1 = t1
  t2 = t2
  s1 = s1
  s2 = s2
  NoRun = NoRun
  FundCatalog <- MCFundCatalog
  TableRuns = {t1, t2}
  SeedRuns = {s1}
SPECIFICATION Spec
INVARIANT TtlEnsured
CHECK_DEADLOCK FALSE
