CONSTANTS
  Scripts = {s1, s2}
  Calls = {c1, c2}
  MaxFaults = 1
  IntMax = 2
SPECIFICATION FairServerSpec
INVARIANTS
  StartOK
  TypeOK
  PreloadReportedTruly
  LossIsRecovered
  ReloadsHaveReason
  LevelIsLegal
PROPERTIES
  RegistrySpec
  CallsSpec
  EveryCallSettled
  PreloadReported
  StartUpEnds
CHECK_DEADLOCK FALSE
