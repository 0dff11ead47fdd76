SPECIFICATION FairSpec
CONSTANTS
  p1 = p1  c1 = c1  f1 = f1  f2 = f2
  Pipelines <- OnePipeline
  Callers <- OneCaller
  Forcers <- TwoForcers
  MaxVersions = 2
  MinTrigger = 0
  Deopt <- Keep
  Deviation <- Drift
  VerifyCalls = 20
  MaxCost = 2
  Restarts = 2
INVARIANTS VersionsBounded NoOrphanFuture LiveMatchesState LiveIsCounted
PROPERTIES ShutdownReturns SpecializationSettles
