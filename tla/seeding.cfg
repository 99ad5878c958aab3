CONSTANTS
  t1 = t1
  t2 = t2
  s1 = s1
  s2 = s2
  NoRun = NoRun
  FundCatalog <- MCFundCatalog
  TableRuns = {t1, t2}
  SeedRuns = {s1, s2}
SPECIFICATION FairSpec
INVARIANTS
  SeedingInv
  DoneMeansComplete
  ReportedOnce
PROPERTIES
  NeverClobbered
  EveryRunEnds
  CatalogGetsListed
CHECK_DEADLOCK FALSE
