SPECIFICATION BusySpec
CONSTANTS
  p1 = p1  c1 = c1  f1 = f1  f2 = f2
  Pipelines <- OnePipeline
  Callers <- OneCaller
  Forcers <- OneForcer
  MaxVersions = 1
  MinTrigger = 0
  Deopt <- Keep
  Deviation <- Drift
  VerifyCalls = 1
  MaxCost = 2
  Restarts = 1
PROPERTY VerifyDecides
